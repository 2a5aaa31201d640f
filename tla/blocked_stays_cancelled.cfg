\* One agent that the guardian blocks while it works.
CONSTANTS
    a1 = a1
    v1 = v1
    None = None
    Agents = {a1}
    Values = {v1}
    MaxConcurrency = 1
    Cleanup = TRUE
    Faults = {}
    Awaited = {}
    Cancellable = {}
    Blockable = {a1}
    Removable = {}
    Abandonable = {}
    Panicky = {}
SPECIFICATION Spec
PROPERTY
    BlockedStaysCancelled
CHECK_DEADLOCK FALSE
