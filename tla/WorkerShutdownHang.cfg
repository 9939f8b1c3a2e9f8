CONSTANTS
    N = 2
    Tasks = {k1}
    NoTask = none
    LocalCapacity = 1
    MaxSpin = 1
    Breakable = {0}
    Watched = {k1}
SPECIFICATION FairSpec
PROPERTY ShutdownEndsAll
CHECK_DEADLOCK FALSE
