CONSTANTS
    Clients = {c}
    Loop = loop
    Timers = {t}
    Tasks = {}
    Nothing = nothing
    MaxStarts = 1
SPECIFICATION Spec
INVARIANT HandlersTouchLiveTimers
CHECK_DEADLOCK FALSE
