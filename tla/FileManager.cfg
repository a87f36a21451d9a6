CONSTANTS
    Lengths <- MCLengths
    Configs <- MCConfigs
    Settings <- MCSettings
    WordSize = 11
    MaxTime = 1
    SeqTries = 2
    HeapCapacity = 4
    QueueSize = 2
    Faults <- MCFaults
    MaxMishaps = 1
SPECIFICATION LiveSpec
INVARIANTS Accounted StoredOnce CrashWindow SizeTracked SizeBound Chronology Drained
PROPERTIES HistoryKept DeinitReturns
CHECK_DEADLOCK FALSE
