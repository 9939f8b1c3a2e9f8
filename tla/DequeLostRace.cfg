CONSTANTS
    Owner = owner
    Thieves = {t1}
    Capacity = 2
    Depth = 0
    MaxTasks = 3
    MaxTop = 5
SPECIFICATION Spec
INVARIANT AtMostOnce
CHECK_DEADLOCK FALSE
