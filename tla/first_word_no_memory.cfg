CONSTANTS
    a = a
    b = b
    Letters <- MCLetters
    NULL = NULL
    FREED = FREED
    Words <- MCFewWords
    Stores = {"LENGTH"}
    Objects = {}
    Ints = {}
    MemoryFails = TRUE
    MaxVersion = 4
SPECIFICATION Spec
INVARIANTS
    EmptyOK
CHECK_DEADLOCK FALSE
