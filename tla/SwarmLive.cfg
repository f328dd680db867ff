SPECIFICATION SwarmSpec
CONSTANTS
    NTasks = 1
    Parents <- Solo
    StallPasses = 1
    Deadline = 1
    Parallel = 2
    ReaperSpawn = 1
    MaxPids = 2
    MaxExtras = 1
PROPERTIES SwarmProgress DoneKept
