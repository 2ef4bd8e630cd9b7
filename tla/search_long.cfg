CONSTANTS
    a = a
    b = b
    Letters <- MCLetters
    NULL = NULL
    FREED = FREED
    Dictionaries <- MCDictionaries
    Texts <- MCTexts
    Wide = {a}
    MaxSets = 1
SPECIFICATION Spec
INVARIANTS
    MatchesOK
    LongestIfNotNested
    ReleasedUnlessMixed
    SliceUnlessNegative
PROPERTIES
    NextReturns
CHECK_DEADLOCK FALSE
