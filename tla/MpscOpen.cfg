CONSTANTS
    Producers = {p1, p2}
    Capacity = 2
    WordSize = 4
    MaxPush = 3
    Orderly = FALSE
    Torn = Torn
SPECIFICATION Spec
INVARIANT IntactDelivery
CHECK_DEADLOCK FALSE
