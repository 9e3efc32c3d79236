SPECIFICATION Spec
CONSTANTS
    Responses <- ResponsesTo
    Interim <- EarlyHints
    MaxHead = 7
    MaxBody = 2
    MaxLine = 2
    MaxInterims = 0
    MaxRequests = 1
    MaxCloses = 0
    MaxErrors = 1
CHECK_DEADLOCK FALSE
INVARIANT WholeBody
