SPECIFICATION FairSpec
CONSTANTS
    both = both
    row = row
    gone = gone
    k = k
    l = l
    None = None
    Requests = {both, row, gone}
    Cold = {both, gone}
    Keys = {k, l}
    Sets <- MCSets
    Drops <- MCDrops
    MaxFaults = 2
    MaxCrashes = 2
INVARIANTS
    TypeOK
    SettledIsStored
PROPERTIES
    ImplementsAtomicStore
    DeferredLands
CHECK_DEADLOCK FALSE
