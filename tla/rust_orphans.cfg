SPECIFICATION Spec
CONSTANTS
    ComponentIds = {"c1"}
    Pushes = {"shutdown"}
    RegReplies = {"registered"}
    MaxPush = 1
    Reconnect = TRUE
    ReconnectDelay = 3
    MaxReconnectDelay = 60
    MaxReconnectAttempts = 0
    EnvId = "c1"
    MaxDials = 2
INVARIANT ShutdownCancelsWorkers
CHECK_DEADLOCK FALSE
