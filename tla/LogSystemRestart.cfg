SPECIFICATION Spec
CONSTANTS
    MaxStarts = 2
    SocketDepth = 1
    MaxLogs = 3
    LogCapacity = 1
    LoggerFaults = {}
    DaemonCapacity = 1
    MaxCrashes = 0
    DaemonFaults = {}
INVARIANT RestartIsNoticed
CHECK_DEADLOCK FALSE
