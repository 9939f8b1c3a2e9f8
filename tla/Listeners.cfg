CONSTANTS
    Threads = {t1, t2}
    Funs = {f1, f2, f3}
    Nobody = nobody
    MaxEmits = 1
    MaxClears = 1
SPECIFICATION Spec
INVARIANTS
    AddedIsListed
    RemovedStaySilent
    EmitReachesAll
CHECK_DEADLOCK FALSE
