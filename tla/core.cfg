CONSTANTS
    a = a
    b = b
    Letters <- MCLetters
    NULL = NULL
    FREED = FREED
    Words <- MCWords
    Stores = {"LENGTH"}
    Objects = {}
    Ints = {}
    MemoryFails = FALSE
    MaxVersion = 5
SPECIFICATION FairSpec
INVARIANTS
    TypeOK
    TreeOK
    NoDeadBranch
    CountOK
    LongestWordOK
    FailsOK
    WalkOK
    StatsOK
    EmptyOK
    QueriesOK
PROPERTIES
    FreeingBumpsVersion
    MakeAutomatonReturns
    Dictionary
CHECK_DEADLOCK FALSE
