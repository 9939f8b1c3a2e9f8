CONSTANTS
    t1 = t1
    t2 = t2
    t3 = t3
    Threads = {t1, t2, t3}
    Hash <- SomeHash
    InitialSizes = {2, 8}
    MaxProducers = 3
    MaxTables = 3
    BlockSize = 2
    IndexSize = 2
    PoolSize = 3
    MaxHeap = 1
    MaxHeaders = 2
    Plans <- SomePlans
SPECIFICATION Spec
INVARIANTS
    ClaimsAreBacked
    ReadsWhatWasPut
    OnePlace
    OneWriter
    DestructorFreesOnce
PROPERTIES
    AloneGetsOne
CHECK_DEADLOCK FALSE
