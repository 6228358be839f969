\* Two updates in turn, over a cache that may expire between them.
SPECIFICATION Spec
CONSTANTS
    None = None
    e1 = e1
    e2 = e2
    r1 = r1
    r2 = r2
    r3 = r3
    Entities = {e1}
    Requests = {r1, r2}
    Kinds <- OnlyPlain
    ClientVersion <- Versions
    Decoding <- AsBuilt
    Faults = FALSE
    Serial = TRUE
CHECK_DEADLOCK FALSE
INVARIANT
    SavedIsReadable
