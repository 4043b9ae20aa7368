SPECIFICATION Spec
CONSTANTS
    ComponentIds = {"c1"}
    Pushes = {"configure", "shutdown"}
    RegReplies = {"registered"}
    MaxPush = 2
    Reconnect = TRUE
    ReconnectDelay = 3
    MaxReconnectDelay = 5
    MaxReconnectAttempts = 0
    MaxDials = 1
INVARIANT JoinedWorkerWasStopped
CHECK_DEADLOCK FALSE
