SPECIFICATION LiveSpec
CONSTANTS
    Shells = {s1, s2}
    Pids = {p1, p2}
    None = None
    Void = Void
    Polls = 2
    MaxCommands = 4
INVARIANTS
    OneDaemonRecorded
    StopStops
    AimsAtDaemon
PROPERTY CommandsReturn
