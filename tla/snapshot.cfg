\* Two snapshots of the global state and an engine, with updates and expiry.
SPECIFICATION FairSpec
CONSTANTS
    None = None
    g = g
    e1 = e1
    s1 = s1
    s2 = s2
    Global = g
    Scanned = {e1}
    TypeOf <- Engines
    Types = 2
    Snapshots = {s1, s2}
    Decoding <- AsBuilt
    Watched = {e1}
    MaxVersion <- OnceOrTwice
    MaxClock = 1
CHECK_DEADLOCK FALSE
INVARIANTS
    EntriesWereCurrent
    OmittedWereUncached
    IdFindsSnapshot
PROPERTIES
    EverySnapshotEnds
