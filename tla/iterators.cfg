CONSTANTS
    a = a
    b = b
    Letters <- MCLetters
    NULL = NULL
    FREED = FREED
    Words <- MCWords
    Stores = {"LENGTH"}
    Objects = {}
    Ints = {}
    MemoryFails = FALSE
    MaxVersion = 4
    Text <- MCText
    MaxFrames = 2
SPECIFICATION SpecIterators
INVARIANTS
    ValidIsSafe
    ValidIsCurrent
    SafeUnlessChanged
CHECK_DEADLOCK FALSE
