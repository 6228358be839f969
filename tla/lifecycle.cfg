\* Two starts, two requests, both consumers, failures everywhere.
SPECIFICATION FairSpec
CONSTANTS
    Requests <- MCRequests
    MaxStarts <- MCMaxStarts
    Faults = TRUE
INVARIANTS
    TypeOK
    UsersAreConnected
    ShutdownCleansUp
    RequestsCloseTheirOwn
PROPERTIES
    OnlyHangingRequestsDelayStop
CHECK_DEADLOCK FALSE
