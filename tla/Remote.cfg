SPECIFICATION LiveSpec
CONSTANTS
    Viewers = {v1, v2}
    Filtering = {v2}
    ByteBits = 1
    MaxClients = 2
    FrameSize = 2
    Window = 3
    MaxEntries = 3
    MaxConnections = 3
    MaxInits = 2
INVARIANTS
    TableConsistent
    SendsToItsSlot
    ShownInOrder
    ShownAsLogged
PROPERTY BroadcastReturns
CHECK_DEADLOCK FALSE
