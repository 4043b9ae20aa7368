SPECIFICATION FairSpec
CONSTANTS
    ComponentIds = {"c1", "c2"}
    Pushes = {"shutdown", "ping", "recoverable", "fatal", "nack", "odd_lifecycle", "odd_config", "odd_heartbeat", "undecodable"}
    RegReplies = {"registered", "rejected", "no_key", "not_string", "undecodable", "silent"}
    MaxPush = 2
    Reconnect = TRUE
    ReconnectDelay = 3
    MaxReconnectDelay = 5
    MaxReconnectAttempts = 3
    EnvId = ""
    MaxDials = 4
INVARIANT ReconnectBudget
PROPERTIES OneIdentity OnlyRegistrationHangs ShutdownHonoured
CHECK_DEADLOCK FALSE
