CONSTANTS
    a = a
    b = b
    w = w
    Letters <- MCLetters
    NULL = NULL
    FREED = FREED
    Dictionaries <- MCDictionaries
    Texts <- MCTexts
    White = w
    Wide = {a}
    MaxSets = 2
SPECIFICATION Spec
INVARIANTS
    FoundOK
    StateOK
    ReleasedUnlessMixed
PROPERTIES
    NextReturns
CHECK_DEADLOCK FALSE
