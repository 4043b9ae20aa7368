SPECIFICATION WorkersSpec
CONSTANTS
    ComponentIds = {"c1"}
    Pushes = {"shutdown"}
    RegReplies = {"registered"}
    MaxPush = 1
    Reconnect = TRUE
    ReconnectDelay = 3
    MaxReconnectDelay = 60
    MaxReconnectAttempts = 0
    EnvId = "c1"
    MaxDials = 2
    MaxFrames = 2
    StreamDials = 2
INVARIANTS FramesInOrder OnlyShutdownStops
PROPERTIES WorkerSpec NoDialAfterShutdown ShutdownStopsWorker
CHECK_DEADLOCK FALSE
