CONSTANTS
    Tasks = {t1, t2}
    MaxAttempts = 3
    MaxEpoch = 4
SPECIFICATION Spec
SYMMETRY Symmetric
INVARIANTS
    
    OneChargePerEpoch
    BudgetNeverOverdrawn
PROPERTY
    TerminalIsFinal
CHECK_DEADLOCK FALSE
