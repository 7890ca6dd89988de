SPECIFICATION Spec
CONSTANTS
    d = d
    e = e
    l = l
    p = p
    x = x
    y = y
    None = None
    Jobs = {d, e, l}
    Stored <- MCStoredDLE
    Hosts = {x, y}
    Kind <- MCKind
    Host <- MCHost
    Limit = 2
    PerProvider = 1
    RetryLimit = 1
    SourceLimit = 1
    MaxFaults = 1
    MaxStorage = 0
    MaxPauses = 1
    MaxResumes = 0
    MaxRemovals = 0
    MaxKept = 0
    MaxSweeps = 0
    MaxRestarts = 0
INVARIANTS
    TypeOK
    SettingsAreKept
    QueuedWaitsForASlot
PROPERTIES
    PauseIsLeftBy
CHECK_DEADLOCK FALSE
