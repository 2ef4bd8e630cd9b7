CONSTANTS
    a = a
    b = b
    Letters <- MCLetters
    NULL = NULL
    FREED = FREED
    Dictionaries <- MCDictionaries
    Texts <- MCTexts
    Wide = {a}
    MaxSets = 0
SPECIFICATION Spec
INVARIANTS
    SliceOK
CHECK_DEADLOCK FALSE
