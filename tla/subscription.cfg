\* One change, announced while a client of the route is subscribed.
SPECIFICATION Spec
CONSTANTS
    None = None
    Entities <- MCEntities
    Deletable = {}
    Watches <- MCWatches
    Sessions = {w1}
    MaxCalls = 1
    Faults = FALSE
INVARIANTS
    AllChangesAreHeard
CHECK_DEADLOCK FALSE
