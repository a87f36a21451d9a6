SPECIFICATION Spec
CONSTANTS
    NULL = NULL
    MaxChar = 3
    MaxArray = 4
    MaxLines = 2
    MaxOpens = 2
    MaxFailures = 1
INVARIANTS
    OutputIsLines
    MemoryMovesExactly
    StringsCopyExactly
    SearchesFindFirst
    TokensSplitExactly
