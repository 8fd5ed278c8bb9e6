SPECIFICATION Spec
CONSTANTS
    Mails = {k1}
    Saves = {}
    Commands = {c1, c2}
    Bridge = bridge
    None = none
    MaxEpoch = 1
    MaxFaults = 0
CHECK_DEADLOCK FALSE
INVARIANT EndedMailIsPinned
