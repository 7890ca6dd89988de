SPECIFICATION FairSpec
CONSTANTS
    j1 = j1
    j2 = j2
    a = a
    u = u
    Jobs = {j1}
    Sources = {a}
    SourceOf <- MCSourceOf
    Owners = {u}
    OwnerOf <- MCOwnerOf
    MaxRevs = 1
    MaxWaiting = 1
    MaxFailures = 1
    MaxCrashes = 1
    MaxFlushes = 1
INVARIANT FlushedIsStored
PROPERTIES
    StoredCountsFollow
    NotedReachesStorage
CHECK_DEADLOCK FALSE
