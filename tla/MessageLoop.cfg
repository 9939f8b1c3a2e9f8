SPECIFICATION Spec
CONSTANTS
    w = w
    Window = w
    NoEvent = NoEvent
    Events <- SomeEvents
    Inputs <- SomeInputs
    Junk <- SomeJunk
    UserTypes = {"MousePress", "MouseWheel", "KeyPress", "Resize"}
    MaxCalls = 5
    MaxTasks = 2
INVARIANTS WindowGoneMeansQuit
PROPERTIES ArrivesAsPosted QuitEndsRun
CHECK_DEADLOCK FALSE
