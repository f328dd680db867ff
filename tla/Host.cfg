SPECIFICATION Spec
CONSTANTS
    file1 = file1
    file2 = file2
    board1 = board1
    board2 = board2
    Servers = {"s1", "s2", "s3"}
    NoServer = "none"
    Precedence <- Preferred
    Dispatches = {1, 2}
    RmRetries = 2
    Persons = {"p", "q"}
    Nobody = "nobody"
    KeyProviders = {"v1", "v2"}
    MaxIds = 2
    MaxFernet = 2
    MaxKek = 2
    Keep = 1
    MaxScripts = 3
    Writers = {"w1", "w2"}
    FileLimit = 1
    MaxFiles = 3
    MaxRecords = 6
    FileNames = {file1, file2}
    Projects = {board1, board2}
    StageMaxFiles = 2
    StageMaxBytes = 2
    MaxUploads = 3
    MaxAnalyses = 2
    MaxEdits = 2
    Sockets = {"k1", "k2", "k3", "k4"}
    Viewers = {"u", "v"}
    Watched = {"b"}
    SlugCap = 2
    UserCap = 1
CONSTRAINT Corners
CHECK_DEADLOCK FALSE
INVARIANTS LockKept SandboxKept VaultKept TrailKept FilesKept SlotsAreHeld
