SPECIFICATION Spec
CONSTANTS
    Commands = {c1, c2}
    Bridge = bridge
    MaxAttempts = 2
    MaxEpoch = 2
    MaxCommands = 2
    MaxCrashes = 0
    MaxTimeouts = 1
    LeaseOutlivesLaunch = TRUE
CHECK_DEADLOCK FALSE
SYMMETRY CommandSymmetry
INVARIANTS
    SucceededStops
    
    NoOrphan
