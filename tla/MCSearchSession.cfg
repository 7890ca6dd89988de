SPECIFICATION FairSpec
CONSTANTS
    a = a
    b = b
    u = u
    Ids = {1, 2, 3}
    Sources = {1, 2, 3}
    Class <- MCClass
    Pool <- MCPool
    JobsServerWide = 2
    PerSession <- MCPerSession
    PerPool = 1
    Slots = {a, b}
    SlotOf <- MCSlotOf
    Owners = {u}
    OwnerOf <- MCOwnerOf
    Seats = 2
    ServerWide = 2
    SourcesOf <- MCSourcesOf
    Rows <- MCRows
    Fresh <- MCFresh
    Paged = {1, 2}
    StallAfter = 1
    RecordLimit = 1
    Revocable = {2}
    MaxMishaps = 1
INVARIANT SchedulerSound
PROPERTIES
    PagesInOrder
    PendingEnds
CHECK_DEADLOCK FALSE
