CONSTANTS
    a = a
    b = b
    q = q
    Letters <- MCLetters
    NULL = NULL
    FREED = FREED
    nil = nil
    Dictionaries <- MCDictionaries
    Patterns <- MCPatterns
    Wildcards <- MCWildcards
    MemoryFails = TRUE
SPECIFICATION Spec
INVARIANTS
    KeysOK
    NoKeyTwice
    ListOK
CHECK_DEADLOCK FALSE
