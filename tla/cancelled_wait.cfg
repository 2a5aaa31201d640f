\* One agent that is cancelled and waited for; nothing fails.
CONSTANTS
    a1 = a1
    v1 = v1
    None = None
    Agents = {a1}
    Values = {v1}
    MaxConcurrency = 1
    Cleanup = TRUE
    Faults = {}
    Awaited = {a1}
    Cancellable = {a1}
    Blockable = {}
    Removable = {}
    Abandonable = {}
    Panicky = {}
SPECIFICATION FairSpec
PROPERTY
    WaitReturns
CHECK_DEADLOCK FALSE
