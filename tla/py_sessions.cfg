SPECIFICATION FairSpec
CONSTANTS
    ComponentIds = {"c1"}
    Pushes = {"ping", "reborn", "shutdown", "configure", "recoverable", "fatal", "nack", "odd_lifecycle", "odd_config", "odd_heartbeat", "undecodable"}
    RegReplies = {"registered", "rejected", "no_key", "not_string", "undecodable", "silent"}
    MaxPush = 1
    Reconnect = TRUE
    ReconnectDelay = 1
    MaxReconnectDelay = 3
    MaxReconnectAttempts = 4
    MaxUpdates = 1
    MaxDials = 5
INVARIANTS Conversation GracefulStopsNewest ReconnectBudget
PROPERTIES ContractSpec OnlyHandshakeHangs
CHECK_DEADLOCK FALSE
