SPECIFICATION Spec
CONSTANTS
    c1 = c1
    c2 = c2
    r1 = r1
    r2 = r2
    dan = dan
    eve = eve
    phone = phone
    tablet = tablet
    code1 = code1
    code2 = code2
    b1 = b1
    b2 = b2
    b3 = b3
    ann = ann
    bob = bob
    Clients = {c1, c2}
    Passwords = {"old", "new"}
    ResetTokens = {"t"}
    NoToken = NoToken
    Second = 2
    ResetTtl = 2
    LoginMax = 1
    LoginWindow = 3
    MaxTime = 4
    MaxRestarts = 1
    Reviewers = {r1, r2}
    Kinds = {"user", "projects", "templates", "sold", "referrals", "codes", "reviews"}
    MaxAsked = 1
    MaxVerdicts = 2
    Users = {dan, eve}
    Chats = {phone, tablet}
    Codes = {code1, code2}
    PairSecond = 2
    LinkTtl = 2
    Credits = 1
    PairTime = 4
    MaxUpdates = 2
    MaxBotFaults = 1
    Buyers = {b1, b2, b3}
    Members = {ann, bob}
    BuyerOf <- Buys
    Templates = {"t"}
    AuthorOf <- Author
    Prices = {0, 1, 2, 9}
    Start = 2
    PriceMin = 1
    PriceMax = 5
    PurchaseMax = 1
    AgentMax = 1
    MaxSpent = 3
    MaxMarketFaults = 1
CHECK_DEADLOCK FALSE
SYMMETRY Symmetry
CONSTRAINT Corners
INVARIANTS SessionsKept ErasureKept PairingKept MarketKept
PROPERTY ErasureAllOrNothing
