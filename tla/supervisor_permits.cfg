\* Four agents share two permits; two may wait in line while others are cancelled, panic or fail.
CONSTANTS
    a1 = a1
    a2 = a2
    a3 = a3
    a4 = a4
    v1 = v1
    None = None
    Agents = {a1, a2, a3, a4}
    Values = {v1}
    MaxConcurrency = 2
    Cleanup = TRUE
    Faults = {"mkdir", "rmdir"}
    Awaited = {}
    Cancellable = {a1, a2, a3, a4}
    Blockable = {}
    Removable = {}
    Abandonable = {}
    Panicky = {a1, a2, a3, a4}
SPECIFICATION Spec
SYMMETRY Symmetry
INVARIANTS
    ConcurrencyBound
    PermitsAddUp
CHECK_DEADLOCK FALSE
