SPECIFICATION Spec
CONSTANTS
    MaxClust = 4
    PerSec = 3
    CSize = 2
    NFats = 2
    FreeCount = 2
    MaxErrors = 1
    MaxStops = 1
CONSTRAINT NotLost
INVARIANTS
    CrashSafe
    TablesCleared
    MirrorsAgree
    FsinfoCurrent
PROPERTY IsSectorStore
CHECK_DEADLOCK FALSE
