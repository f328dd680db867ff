SPECIFICATION Spec
CONSTANTS
    ref = ref
    friend = friend
    t1 = t1
    t2 = t2
    Users = {ref, friend}
    NoUser = NoUser
    Txns = {t1, t2}
    Workers = {w1, w2}
    Payer <- SamePayer
    Pack <- Topups
    Referrer <- Friendship
    Plans <- Tier
    PackCredits <- Amounts
    Reward = 2
    Bonus = 1
    Cap = 4
    Exclusive = FALSE
    InOrder = TRUE
    MaxLaunches = 1
    MaxSwitches = 0
    MaxCrashes = 1
    MaxFaults = 1
INVARIANTS TypeOK GrantedOnce TopupsConserved RewardedOnce
SYMMETRY Symmetry
