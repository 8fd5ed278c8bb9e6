SPECIFICATION RecoverySpec
CONSTANTS
    Commands = {c1}
    Bridge = bridge
    MaxAttempts = 2
    MaxEpoch = 2
    MaxCommands = 2
    MaxCrashes = 1
    MaxTimeouts = 0
    LeaseOutlivesLaunch = TRUE
CHECK_DEADLOCK FALSE
INVARIANT
    HolderWasLaunched
PROPERTIES
    LaunchBarrier
    ImplementsLifecycle
    ReplacementSettles
    ExpiredResolved
