\* Three items of two priorities, two places, two poppers, a close; one push and one pop may be dropped.
CONSTANTS
    i1 = i1
    i2 = i2
    i3 = i3
    p1 = p1
    p2 = p2
    None = None
    Items = {i1, i2, i3}
    Poppers = {p1, p2}
    Prio <- MCPrio
    Capacity = 2
    SeqMod = 3
    Patient = {i1, i2}
    Eager = {}
    Hasty = {i1, p1}
    Closing = TRUE
    Urgent = {i3}
SPECIFICATION Spec
INVARIANTS
    TypeOK
    NoneIsFinal
    SomebodyTendsItems
PROPERTY
    ImplementsWorkQueue
CHECK_DEADLOCK FALSE
