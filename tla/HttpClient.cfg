SPECIFICATION Spec
CONSTANTS
    Responses <- ResponsesTo
    Interim <- EarlyHints
    MaxHead = 7
    MaxBody = 2
    MaxLine = 2
    MaxRequests = 2
    MaxCloses = 1
    MaxInterims = 1
    MaxErrors = 1
CHECK_DEADLOCK FALSE
INVARIANTS OwnBytes ResponseMatches DeliveryIndependent
PROPERTIES RpcSpec Returns
