\* A group of two; one caller makes one of the three calls while a1 is also cancelled singly and a2 may panic.
CONSTANTS
    a1 = a1
    a2 = a2
    v1 = v1
    c1 = c1
    None = None
    Agents = {a1, a2}
    Values = {v1}
    MaxConcurrency = 1
    Cleanup = FALSE
    Faults = {}
    Awaited = {}
    Cancellable = {a1, a2}
    Blockable = {}
    Removable = {}
    Abandonable = {}
    Panicky = {a2}
    Precision = 8
    Group = {a1, a2}
    Singly = {a1}
    Shards = 2
    ShardOf <- MCShardOf
    Callers = {c1}
    Operations = {"wait_for_group", "cancel_group", "await_consensus"}
    Rules <- MCMajority
SPECIFICATION GroupFairSpec
INVARIANTS
    GroupTypeOK
    GroupWaitSound
    VotesStand
    DissentIsFinal
    CancelGroupReaches
PROPERTY
    GroupCallsEnd
CHECK_DEADLOCK FALSE
