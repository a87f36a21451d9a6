CONSTANTS
    Lengths <- MCLengths
    Configs <- PlainConfigs
    Settings = {}
    WordSize = 11
    MaxTime = 1
    SeqTries = 2
    HeapCapacity = 4
    QueueSize = 2
    Faults = {}
    MaxMishaps = 0
SPECIFICATION Spec
PROPERTY OldestFirst
CHECK_DEADLOCK FALSE
