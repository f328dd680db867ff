SPECIFICATION Spec
CONSTANTS
    Users = {u1}
    Launches = {a}
    NoUser = NoUser
    NoLaunch = NoLaunch
    NLanes = 2
    Thin = TRUE
    InitCredits = 1
    MaxTopups = 1
    MaxCrashes = 0
    MaxFaults = 1
    MaxReopens = 1
    MaxDispatches = 1
INVARIANTS FlagImpliesRefund OkMeansEveryLaneProduced
CHECK_DEADLOCK FALSE
