SPECIFICATION Spec
CONSTANTS
    ComponentIds = {"c1"}
    Pushes = {"ping", "reborn", "shutdown", "configure"}
    RegReplies = {"registered", "no_key", "not_string"}
    MaxPush = 3
    Reconnect = TRUE
    ReconnectDelay = 3
    MaxReconnectDelay = 60
    MaxReconnectAttempts = 0
    EnvId = "c1"
    MaxDials = 2
INVARIANTS Conversation WorkersMatchRunning CleanExit
PROPERTY ContractSpec
CHECK_DEADLOCK FALSE
