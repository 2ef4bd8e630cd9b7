CONSTANTS
    a = a
    b = b
    w = w
    Letters <- MCLetters
    NULL = NULL
    FREED = FREED
    Dictionaries <- MCDictionaries
    Texts <- MCMixedTexts
    White = w
    Wide = {a}
    MaxSets = 2
SPECIFICATION Spec
INVARIANTS
    InputReleased
CHECK_DEADLOCK FALSE
