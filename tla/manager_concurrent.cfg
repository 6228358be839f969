\* Three calls of any kind on two entities, interleaved at every await, with faults, with
\* rows that may not be decoded, and with a cache that may be lost.
SPECIFICATION Spec
CONSTANTS
    None = None
    e1 = e1
    e2 = e2
    r1 = r1
    r2 = r2
    r3 = r3
    Entities = {e1, e2}
    Requests = {r1, r2, r3}
    Kinds <- AnyKind
    ClientVersion <- Versions
    Decoding <- AnyDecoding
    Faults = TRUE
    Serial = FALSE
SYMMETRY Symmetry
CHECK_DEADLOCK FALSE
INVARIANTS
    TypeOK
    RecordedIsStored
    RowsAreRecorded
    AcknowledgedIsStored
    GapsAreFailures
    LostUpdatesCollide
    RejectedLeavesNoTrace
