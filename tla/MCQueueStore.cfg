SPECIFICATION Spec
CONSTANTS
    j1 = j1
    j2 = j2
    a = a
    u = u
    Jobs = {j1, j2}
    Sources = {a}
    SourceOf <- MCSourceOf
    Owners = {u}
    OwnerOf <- MCOwnerOf
    MaxRevs = 0
    MaxWaiting = 1
    MaxFailures = 1
    MaxCrashes = 1
    MaxFlushes = 0
INVARIANTS
    TypeOK
    ListMatchesStorage
    OneOpenJobPerSource
    AcceptedIsStored
    RefusedIsNowhere
    RemovedStaysRemoved
PROPERTY ImplementsDurableQueue
SYMMETRY Symmetric
CHECK_DEADLOCK FALSE
