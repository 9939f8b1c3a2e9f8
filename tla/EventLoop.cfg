CONSTANTS
    Clients = {c}
    Loop = loop
    Timers = {t}
    Tasks = {k1, k2}
    Nothing = nothing
    MaxStarts = 2
SPECIFICATION FairSpec
INVARIANTS
    TasksInOrder
    StopIsHeeded
    SafeWhenQuiet
PROPERTIES
    TasksRunUnlessStopped
    RepeatingTimersFire
    ShutdownEndsRun
CHECK_DEADLOCK FALSE
