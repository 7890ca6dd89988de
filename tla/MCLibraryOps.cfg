SPECIFICATION Spec
CONSTANTS
    a = a
    b = b
    c = c
    r = r
    x = x
    y = y
    z = z
    L = L
    M = M
    None = None
    Torn = Torn
    Queue = Queue
    Items = {a, b, c, r}
    Targets = {x, y, z}
    TargetOf <- MCTargetOf
    OpOf <- MCMoves
    Folders = {a, b, c, r}
    Far = {b}
    Libraries = {L}
    LibraryOf <- MCNear
    Requests = {r}
    Jobs = {1, 2}
    ItemsOf <- MCTwoJobs
    Budget <- MCTwice
    MaxMishaps = 1
INVARIANTS
    TypeOK
    NothingLost
    ReportedIsThere
    IdentityKept
    RootFollowsContent
PROPERTIES
    CancelHolds
CHECK_DEADLOCK FALSE
