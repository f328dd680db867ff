SPECIFICATION Spec
CONSTANTS
    Users = {u1}
    Launches = {a}
    NoUser = NoUser
    NoLaunch = NoLaunch
    NLanes = 2
    Thin = TRUE
    InitCredits = 1
    MaxTopups = 0
    MaxCrashes = 1
    MaxFaults = 0
    MaxReopens = 0
    MaxDispatches = 0
INVARIANT RefundedAtMostOnce
CHECK_DEADLOCK FALSE
