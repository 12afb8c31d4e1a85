\* Batches of every kind of invocation, one of them twice.
SPECIFICATION FairSpec
CONSTANTS
    Invocation <- MCInvocation
    Batch <- Mixed
    Single <- MCSingle
    Service <- MCService
    Requests <- MCRequests
    ContentType <- Car
    HandlerResult <- AnyResult
INVARIANTS
    TypeOK
    WholeOrNothing
PROPERTIES
    ImplementsBatchInvocation
    RequestAnswered
CHECK_DEADLOCK FALSE
