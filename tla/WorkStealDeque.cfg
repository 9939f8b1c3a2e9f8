CONSTANTS
    Owner = owner
    Thieves = {t1, t2}
    Capacity = 2
    Depth = 2
    MaxTasks = 3
    MaxTop = 4
SPECIFICATION Spec
INVARIANTS
    TypeOK
    AtMostOnceUntilBroken
    NothingLostUntilBroken
    OnlyOwnerAndThiefCollide
PROPERTY ImplementsTaskDeque
CHECK_DEADLOCK FALSE
