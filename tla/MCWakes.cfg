SPECIFICATION FairSpec
CONSTANTS
    Children = {k1, k2}
    Pumps = {bridge, cli}
    Bridge = bridge
    WakeIds = {1, 2, 3}
    MaxEvents = 2
    MaxEpoch = 2
    MaxHolder = 2
    MaxFaults = 1
CONSTRAINT FewComplications
CHECK_DEADLOCK FALSE
INVARIANTS
    WatermarkTold
    FrozenPayload
    NoDoubleTell

    
