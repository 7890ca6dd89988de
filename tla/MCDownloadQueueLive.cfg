SPECIFICATION FairSpec
CONSTANTS
    d = d
    e = e
    l = l
    p = p
    x = x
    y = y
    None = None
    Jobs = {d, p}
    Stored <- MCStoredDP
    Hosts = {x}
    Kind <- MCKind
    Host <- MCHost
    Limit = 2
    PerProvider = 1
    RetryLimit = 1
    SourceLimit = 1
    MaxFaults = 1
    MaxStorage = 1
    MaxPauses = 0
    MaxResumes = 0
    MaxRemovals = 0
    MaxKept = 0
    MaxSweeps = 1
    MaxRestarts = 0
PROPERTIES
    EveryRowSettles
    StoragePausesEnd
CHECK_DEADLOCK FALSE
