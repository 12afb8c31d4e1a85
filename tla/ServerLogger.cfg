\* A failing receipt logger does not fail the request.
SPECIFICATION Spec
CONSTANTS
    Invocation <- MCInvocation
    Batch <- Mixed
    Single <- MCSingle
    Service <- MCService
    Requests <- GoodRequests
    ContentType <- Car
    HandlerResult <- Returns
INVARIANTS
    LoggerFailureFailsRequest
CHECK_DEADLOCK FALSE
