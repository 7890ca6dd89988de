SPECIFICATION Spec
CONSTANTS
    a = a
    b = b
    c = c
    r = r
    x = x
    y = y
    z = z
    L = L
    M = M
    None = None
    Torn = Torn
    Queue = Queue
    Items = {a, b, c, r}
    Targets = {x, y, z}
    TargetOf <- MCTargetOf
    OpOf <- MCMoves
    Folders = {}
    Far = {b}
    Libraries = {L}
    LibraryOf <- MCNear
    Requests = {r}
    Jobs = {1}
    ItemsOf <- MCOneJob
    Budget <- MCOnce
    MaxMishaps = 0
INVARIANTS
    NothingLost
CHECK_DEADLOCK FALSE
