CONSTANTS
    a = a
    b = b
    Letters <- MCLetters
    NULL = NULL
    FREED = FREED
    NODEID = NODEID
    Words <- MCWords
    Stores = {"ANY", "INTS"}
    Objects = {1, 2, 3}
    Ints = {}
    MemoryFails = TRUE
    MaxVersion = 4
    ArraySize = 20
    Capacity = 14
    SerializedSize <- MCSizes
    DiskFails = TRUE
    LaterVersions = 1
    Lost = Lost
SPECIFICATION SpecPersistence
INVARIANTS
    ChunksOK
    RoundTrip
    NothingLeft
    SafeUnlessMisused
    FileOK
    LoadLeavesNothing
    RefsOK
PROPERTIES
    ReduceRestores
    LoadRestores
    StoredDictionary
CHECK_DEADLOCK FALSE
