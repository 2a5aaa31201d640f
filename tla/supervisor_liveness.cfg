\* Two agents, one permit, every error path; a2 may also panic, be cancelled and be blocked.
CONSTANTS
    a1 = a1
    a2 = a2
    v1 = v1
    None = None
    Agents = {a1, a2}
    Values = {v1}
    MaxConcurrency = 1
    Cleanup = FALSE
    Faults = {"mkdir", "failed", "timeout", "serialize"}
    Awaited = {a1, a2}
    Cancellable = {a2}
    Blockable = {a2}
    Removable = {}
    Abandonable = {}
    Panicky = {a2}
SPECIFICATION FairSpec
PROPERTIES
    TasksStop
    WaitEnds
    ImplementsLifecycle
CHECK_DEADLOCK FALSE
