CONSTANTS
    Keys = {1, 2, 3, 4}
    Capacities = {7}
    Allocates = {TRUE}
SPECIFICATION Spec
INVARIANT TopIsGreatest
