SPECIFICATION Spec
CONSTANTS
    Users = {u1}
    Launches = {a, b}
    NoUser = NoUser
    NoLaunch = NoLaunch
    NLanes = 1
    Thin = FALSE
    InitCredits = 1
    MaxTopups = 1
    MaxCrashes = 1
    MaxFaults = 1
    MaxReopens = 0
    MaxDispatches = 0
INVARIANTS TypeOK RefundedAtMostOnce CreditsConserved
PROPERTY ImplementsPromise
CHECK_DEADLOCK FALSE
