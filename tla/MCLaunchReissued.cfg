SPECIFICATION Spec
CONSTANTS
    Commands = {c1}
    Bridge = bridge
    MaxAttempts = 2
    MaxEpoch = 3
    MaxCommands = 3
    MaxCrashes = 0
    MaxTimeouts = 0
    LeaseOutlivesLaunch = TRUE
CHECK_DEADLOCK FALSE
INVARIANT
    OneWorker
