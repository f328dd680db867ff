SPECIFICATION Spec
CONSTANTS
    r1 = r1
    r2 = r2
    r3 = r3
    here = here
    there = there
    Requests = {r1, r2, r3}
    Ips = {here}
    IpOf <- Everyone
    Pool <- TwoProviders
    FastSlot = "gemini"
    RawNames <- TwoNames
    Responses <- Some
    Global = Global
    Fails = 2
    Cooldown = 1
    OpenFor = 2
    AuthBackoff = 2
    IpMax = 2
    GlobalMax = 1
    DailyCap = 1
    IpWindow = 1
    GlobalWindow = 1
    DayLength = 1
    MaxRuntime = 600
    MaxTasks = 512
    PaidFallback = FALSE
    MaxCrashes = 1
    MaxFaults = 1
INVARIANT PoolBounded
PROPERTIES BackoffHonoured HealthyServes
SYMMETRY Symmetry
CONSTRAINT Halves
