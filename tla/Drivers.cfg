SPECIFICATION Spec
CONSTANTS
    menu = menu
    story = story
    Sections = {menu, story}
    Lanes <- Few
    Drafts <- Some
    Retries = 1
    TailPasses = 2
    AskMax = 1
    MaxDeaths = 1
    NTasks = 2
    Parents <- Chain
    StallPasses = 2
    Deadline = 2
    Parallel = 2
    ReaperSpawn = 1
    MaxPids = 2
    MaxExtras = 0
    SnapshotBytes = 3
    SnapshotFiles = 2
    ConfigBytes = 2
    UploadsLimit = 3
    PerFile = 2
    ExportBytes = 2
CONSTRAINT Corners
CHECK_DEADLOCK FALSE
INVARIANTS  GatesKeepTheirContracts SwarmKept
PROPERTY FilledStaysWhileAudited
