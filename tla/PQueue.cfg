CONSTANTS
    Keys = {1, 2, 3}
    Capacities = {4, 7}
    Allocates = {TRUE, FALSE}
SPECIFICATION Spec
INVARIANTS Conservation ShallowHeapOrder
