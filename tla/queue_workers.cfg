\* One worker and one try_pop, three pushes into one place; one pop and one push may be dropped; a close.
CONSTANTS
    i1 = i1
    i2 = i2
    i3 = i3
    p1 = p1
    p2 = p2
    None = None
    Items = {i1, i2, i3}
    Poppers = {p1, p2}
    Prio <- MCPrio
    Capacity = 1
    SeqMod = 3
    Patient = {i1, i2, i3}
    Eager = {p2}
    Hasty = {i1, p1}
    Closing = TRUE
    Urgent = {}
SPECIFICATION WorkerSpec
INVARIANT
    SleepingPushReachable
PROPERTIES
    ItemsAreTaken
    PushReturns
CHECK_DEADLOCK FALSE
