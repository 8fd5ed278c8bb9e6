SPECIFICATION HostSpec
CONSTANTS
    Places <- MCPlaces
    Repo <- MCRepo
    Tree <- MCTree
    Workspaces = {"w1", "w2"}
    PlaceOf <- MCPlaceOf
    Tokens = {t1, t2, t3}
    Commands = {cli}
    Bridge = bridge
    None = none
    NoRelease = noRelease
    Releases = {r1, r2}
    Bad = {r2}
    Base = base
    Undrained = {r1}
    Callers = {c1, c2}
    MaxStages = 2
    MaxServices = 1
    MaxFaults = 1
CONSTRAINT Bounded
CHECK_DEADLOCK FALSE
INVARIANTS Exclusive MappingsMatch NoTurnCut BridgeServed
PROPERTIES OnlyOwnersRelease ActiveIsLeased FailedIsNotRetried
