\* Two events for the engine and kg consumers, with retries,
\* faults, a restart and a redelivery.
SPECIFICATION FairSpec
CONSTANTS
    None = None
    g = g
    x1 = x1
    v1 = v1
    v2 = v2
    Events = {v1, v2}
    Messages <- Shapes
    Consumers = {"engine", "kg"}
    Global = g
    Subjects = {x1}
    MaxRetries = 2
    Faults = TRUE
    MaxRestarts = 1
    MaxRequeues = 1
CHECK_DEADLOCK FALSE
INVARIANTS
    TypeOK
    LossesAreOverlaps
    HandledIsWritten
    ActiveEnginesHaveState
PROPERTIES
    EveryEventIsAnswered
