\* A group of three that reports two values or fails; one caller awaits consensus.
CONSTANTS
    a1 = a1
    a2 = a2
    a3 = a3
    v1 = v1
    v2 = v2
    c1 = c1
    None = None
    Agents = {a1, a2, a3}
    Values = {v1, v2}
    MaxConcurrency = 1
    Cleanup = FALSE
    Faults = {"mkdir"}
    Awaited = {}
    Cancellable = {}
    Blockable = {}
    Removable = {}
    Abandonable = {}
    Panicky = {}
    Precision = 8
    Group = {a1, a2, a3}
    Singly = {}
    Shards = 1
    ShardOf <- MCShardOf
    Callers = {c1}
    Operations = {"await_consensus"}
    Rules <- MCRules
SPECIFICATION GroupSpec
SYMMETRY Symmetry
INVARIANTS
    AchievedMeansRule
    MajorityStands
CHECK_DEADLOCK FALSE
