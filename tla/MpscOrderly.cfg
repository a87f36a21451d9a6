CONSTANTS
    Producers = {p1, p2}
    Capacity = 2
    WordSize = 4
    MaxPush = 3
    Orderly = TRUE
    Torn = Torn
SPECIFICATION LiveSpec
INVARIANTS TypeOK RingInv FifoDelivery NoOverlap CasSucceeds
PROPERTIES ImplementsFifo PushReturns
CHECK_DEADLOCK FALSE
