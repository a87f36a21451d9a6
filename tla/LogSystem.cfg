SPECIFICATION LiveSpec
CONSTANTS
    MaxStarts = 2
    SocketDepth = 1
    MaxLogs = 3
    LogCapacity = 1
    LoggerFaults = {"alloc", "socket", "thread"}
    DaemonCapacity = 1
    MaxCrashes = 1
    DaemonFaults = {"file", "queue", "thread", "bind", "remote", "disk"}
INVARIANTS
    PipelineOrder
    PipelineConserves
    ResourcesAlive
    StoppedIsClean
PROPERTIES
    DeinitReturns
    QueueDrains
CHECK_DEADLOCK FALSE
