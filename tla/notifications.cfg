\* One session among three writes of two entities.
SPECIFICATION FairSpec
CONSTANTS
    None = None
    Entities <- MCEntities
    Deletable <- MCDeletable
    Watches <- MCWatches
    Sessions = {w1}
    MaxCalls = 3
    Faults = TRUE
INVARIANTS
    TypeOK
    StreamIsUnbroken
    DrainedClientsAreCurrent
PROPERTIES
    MessagesAreDelivered
    GoneClientsAreNoticed
    OnlyDeafSessionsDelayStop
CHECK_DEADLOCK FALSE
