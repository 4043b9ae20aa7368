SPECIFICATION Spec
CONSTANTS
    ComponentIds = {"c1"}
    Pushes = {"ping"}
    RegReplies = {"registered"}
    MaxPush = 0
    Reconnect = TRUE
    ReconnectDelay = 3
    MaxReconnectDelay = 10
    MaxReconnectAttempts = 0
    CfgId = "c1"
    Coalesce = TRUE
    Cancels = FALSE
    MaxUpdates = 0
    MaxDials = 1
INVARIANT ConfigureArrives
CHECK_DEADLOCK FALSE
