SPECIFICATION Spec
CONSTANTS
    d = d
    e = e
    l = l
    p = p
    x = x
    y = y
    None = None
    Jobs = {l, p}
    Stored <- MCStoredLP
    Hosts = {x}
    Kind <- MCKind
    Host <- MCHost
    Limit = 2
    PerProvider = 1
    RetryLimit = 1
    SourceLimit = 1
    MaxFaults = 0
    MaxStorage = 0
    MaxPauses = 1
    MaxResumes = 0
    MaxRemovals = 1
    MaxKept = 1
    MaxSweeps = 1
    MaxRestarts = 0
INVARIANTS
    PausedIsStopped
    RemovedIsStopped
PROPERTIES
    CompletedIsFinal
CHECK_DEADLOCK FALSE
