SPECIFICATION FairSpec
CONSTANTS
    Users = {u1}
    Launches = {a, b}
    NoUser = NoUser
    NoLaunch = NoLaunch
    NLanes = 3
    Thin = TRUE
    InitCredits = 2
    MaxTopups = 1
    MaxCrashes = 0
    MaxFaults = 0
    MaxReopens = 0
    MaxDispatches = 0
INVARIANTS BooksAgree RefundOnlyWithoutWork
PROPERTY EverySettled
CHECK_DEADLOCK FALSE
