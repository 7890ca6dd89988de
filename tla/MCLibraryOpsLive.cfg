SPECIFICATION FairSpec
CONSTANTS
    a = a
    b = b
    c = c
    r = r
    x = x
    y = y
    z = z
    L = L
    M = M
    None = None
    Torn = Torn
    Queue = Queue
    Items = {a, b, c, r}
    Targets = {x, y, z}
    TargetOf <- MCTargetOf
    OpOf <- MCCopies
    Folders = {a, b, c, r}
    Far = {b}
    Libraries = {L}
    LibraryOf <- MCNear
    Requests = {}
    Jobs = {1, 2}
    ItemsOf <- MCTwoJobs
    Budget <- MCOnce
    MaxMishaps = 1
PROPERTIES
    JobsEnd
CHECK_DEADLOCK FALSE
