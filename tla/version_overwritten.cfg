\* Two updates of one entity whose awaits interleave.
SPECIFICATION Spec
CONSTANTS
    None = None
    e1 = e1
    e2 = e2
    r1 = r1
    r2 = r2
    r3 = r3
    Entities = {e1}
    Requests = {r1, r2}
    Kinds <- OnlyPlain
    ClientVersion <- Versions
    Decoding <- AnyDecoding
    Faults = FALSE
    Serial = FALSE
CHECK_DEADLOCK FALSE
PROPERTY
    HistoryIsKept
