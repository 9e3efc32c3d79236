SPECIFICATION Spec
CONSTANTS
    kMaxReconnectBackoff = 60
    MaxSessions = 9
CHECK_DEADLOCK FALSE
INVARIANTS FullBackoff OneFrameAfterStop RunsUntilStopped
PROPERTIES StopExits Reconnects
