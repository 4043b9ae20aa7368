SPECIFICATION ExampleSpec
CONSTANTS
    ComponentIds = {"c1"}
    Pushes = {"ping", "shutdown", "configure", "recoverable", "fatal", "reborn", "nack", "odd_config", "odd_heartbeat", "undecodable"}
    RegReplies = {"registered", "rejected", "silent"}
    MaxPush = 1
    Reconnect = TRUE
    ReconnectDelay = 3
    MaxReconnectDelay = 7
    MaxReconnectAttempts = 3
    CfgId = "c1"
    Coalesce = FALSE
    Cancels = TRUE
    MaxUpdates = 0
    MaxDials = 4
INVARIANTS PongTruthful ReconnectBudget OnShutdownStopsNewest
PROPERTIES ContractSpec CancelStops
CHECK_DEADLOCK FALSE
