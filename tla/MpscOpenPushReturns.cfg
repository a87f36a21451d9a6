CONSTANTS
    Producers = {p1, p2}
    Capacity = 2
    WordSize = 8
    MaxPush = 3
    Orderly = FALSE
    Torn = Torn
SPECIFICATION LiveSpec
CHECK_DEADLOCK FALSE
PROPERTY PushReturns
