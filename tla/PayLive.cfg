SPECIFICATION FairSpec
CONSTANTS
    ref = ref
    friend = friend
    t1 = t1
    t2 = t2
    Users = {ref, friend}
    NoUser = NoUser
    Txns = {t1, t2}
    Workers = {w1}
    Payer <- SamePayer
    Pack <- Tiers
    Referrer <- Friendship
    Plans <- Tier
    PackCredits <- Amounts
    Reward = 2
    Bonus = 1
    Cap = 2
    Exclusive = TRUE
    InOrder = TRUE
    MaxLaunches = 1
    MaxSwitches = 1
    MaxCrashes = 0
    MaxFaults = 0
INVARIANTS RefundRevokes AnsweredIsGranted
PROPERTY PaidIsGranted
