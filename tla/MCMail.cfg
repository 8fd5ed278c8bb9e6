SPECIFICATION FairSpec
CONSTANTS
    Mails = {k1, k2}
    Saves = {s1, s2}
    Commands = {c1, c2}
    Bridge = bridge
    None = none
    MaxEpoch = 2
    MaxFaults = 1
CONSTRAINT Bounded
CHECK_DEADLOCK FALSE
PROPERTIES EndedMailStops CheckpointsAdvance
