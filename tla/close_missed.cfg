\* A pop that runs into a close.
CONSTANTS
    i1 = i1
    i2 = i2
    p1 = p1
    None = None
    Items = {i1, i2}
    Poppers = {p1}
    Prio <- MCPrio
    Capacity = 1
    SeqMod = 2
    Patient = {i1, i2}
    Eager = {}
    Hasty = {}
    Closing = TRUE
    Urgent = {}
SPECIFICATION FairSpec
PROPERTY
    WaitersSeeClosure
CHECK_DEADLOCK FALSE
