\* Three calls on one entity, one after the other, with faults at every await, with
\* rows that may not be decoded, and with a cache that may be lost.
SPECIFICATION FairSpec
CONSTANTS
    None = None
    e1 = e1
    e2 = e2
    r1 = r1
    r2 = r2
    r3 = r3
    Entities = {e1}
    Requests = {r1, r2, r3}
    Kinds <- NoVersion
    ClientVersion <- Versions
    Decoding <- AnyDecoding
    Faults = TRUE
    Serial = TRUE
CHECK_DEADLOCK FALSE
INVARIANTS
    CacheCoversRows
    NoLostUpdate
    VersionIdentifiesUpdate
PROPERTIES
    HistoryIsKept
    ImplementsVersionedState
    EveryCallEnds
