CONSTANTS
    a = a
    b = b
    Letters <- MCLetters
    NULL = NULL
    FREED = FREED
    Dictionaries <- MCDictionaries
    Texts <- MCTexts
    Wide = {a}
    MaxSets = 1
SPECIFICATION Spec
INVARIANTS
    LongestOK
CHECK_DEADLOCK FALSE
