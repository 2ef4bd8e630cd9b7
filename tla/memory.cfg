CONSTANTS
    a = a
    b = b
    Letters <- MCLetters
    NULL = NULL
    FREED = FREED
    Words <- MCFewWords
    Stores = {"ANY", "INTS"}
    Objects = {1, 2}
    Ints = {}
    MemoryFails = TRUE
    MaxVersion = 4
SPECIFICATION Spec
INVARIANTS
    RefsOK
PROPERTIES
    Dictionary
CHECK_DEADLOCK FALSE
