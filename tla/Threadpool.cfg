CONSTANTS
    N = 1
    Tasks = {k1, k2}
    NoTask = none
    LocalCapacity = 1
    MaxSpin = 1
    Breakable = {}
    Watched = {k1}
    Main = main
    MaxInt = 2
    Configs <- SomeConfigs
SPECIFICATION PoolFairSpec
INVARIANTS
    OnlyAnyIsShared
    BoundTokensName
    ReadyWhenOpen
    IdlePoolsCloseSafely
PROPERTIES
    ConstructorReturns
    DestructorReturns
CHECK_DEADLOCK FALSE
