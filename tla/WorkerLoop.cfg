CONSTANTS
    N = 2
    Tasks = {k1, k2, k3}
    NoTask = none
    LocalCapacity = 1
    MaxSpin = 2
    Breakable = {0}
    Watched = {k1}
SPECIFICATION FairSpec
INVARIANTS
    TypeOK
    OnePlace
    SleepersHoldNothing
    OneTaskAfterShutdown
PROPERTIES
    LocalTasksStart
    GlobalTasksStartIfAwake
    ShutdownEndsTheAwake
    IdleWorkersSleep
CHECK_DEADLOCK FALSE
