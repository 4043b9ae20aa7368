SPECIFICATION Spec
CONSTANTS
    ComponentIds = {"c1"}
    Pushes = {"ping", "configure", "shutdown", "fatal"}
    RegReplies = {"registered", "rejected", "no_key", "not_string", "undecodable", "silent"}
    MaxPush = 1
    Reconnect = TRUE
    ReconnectDelay = 3
    MaxReconnectDelay = 10
    MaxReconnectAttempts = 0
    CfgId = ""
    Coalesce = TRUE
    Cancels = TRUE
    MaxUpdates = 1
    MaxDials = 2
INVARIANT Conversation
PROPERTY GracefulLeave
CHECK_DEADLOCK FALSE
