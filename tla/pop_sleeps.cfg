\* Two pops and two items.
CONSTANTS
    i1 = i1
    i2 = i2
    p1 = p1
    p2 = p2
    None = None
    Items = {i1, i2}
    Poppers = {p1, p2}
    Prio <- MCPrio
    Capacity = 2
    SeqMod = 2
    Patient = {i1, i2}
    Eager = {}
    Hasty = {}
    Closing = FALSE
    Urgent = {}
SPECIFICATION FairSpec
PROPERTY
    PopBlocksOnlyWhenEmpty
CHECK_DEADLOCK FALSE
