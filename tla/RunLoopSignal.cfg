SPECIFICATION Spec
CONSTANTS
    kMaxReconnectBackoff = 60
    MaxSessions = 1
CHECK_DEADLOCK FALSE
INVARIANT PromptExit
