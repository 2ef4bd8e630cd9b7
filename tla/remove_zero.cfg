CONSTANTS
    a = a
    b = b
    Letters <- MCLetters
    NULL = NULL
    FREED = FREED
    Words <- MCFewWords
    Stores = {"INTS"}
    Objects = {}
    Ints = {0}
    MemoryFails = FALSE
    MaxVersion = 4
SPECIFICATION Spec
INVARIANTS
    CountOK
CHECK_DEADLOCK FALSE
