\* Two agents, one permit, every caller; a failed execution is represented by the timeout.
CONSTANTS
    a1 = a1
    a2 = a2
    v1 = v1
    None = None
    Agents = {a1, a2}
    Values = {v1}
    MaxConcurrency = 1
    Cleanup = TRUE
    Faults = {"mkdir", "timeout", "serialize"}
    Awaited = {a1, a2}
    Cancellable = {a1, a2}
    Blockable = {a1, a2}
    Removable = {a1, a2}
    Abandonable = {a1, a2}
    Panicky = {a1, a2}
SPECIFICATION Spec
SYMMETRY Symmetry
INVARIANTS
    TypeOK
    CompletedIsTerminal
    DoneHasResult
    ErrorWindow
    WaitReturnsAfterWork
    LiveTaskHasHandle
    ContextRemoved
PROPERTY
    OutcomeIsFinal
CHECK_DEADLOCK FALSE
