SPECIFICATION FairRunsSpec
CONSTANTS
    Child = c
    m1 = m1
    Managers = {m1, m2}
    Reports = {report}
    Policies = {idle}
    Runs = {r1, r2}
    Orders = {o1}
    Roots = {d1}
    ParentOf <- Parents
    Commands = {cli}
    Bridge = bridge
    None = none
    MaxFaults = 1
CONSTRAINT Bounded
CHECK_DEADLOCK FALSE
INVARIANTS ClosedIsDelivered SignalOnce NotifiedWasTold
PROPERTIES NoticeHeard OutcomeIsFinal
