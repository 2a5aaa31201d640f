\* Two agents in two shards, a clock that stops at 2, two ports.
CONSTANTS
    a1 = a1
    a2 = a2
    v1 = v1
    None = None
    Agents = {a1, a2}
    Values = {v1}
    Shards = 2
    ShardOf <- MCShardOf
    Written = {"Executing", "Error"}
    MaxTime = 2
    StuckAfter = 1
    Threshold <- MCThreshold
    LastPort = 2
SPECIFICATION Spec
INVARIANTS
    TypeOK
    ScanIsRegular
    ErrorSignalJustified
    StuckSignalsJustified
    HealthBounds
    StartFailsForCause
CHECK_DEADLOCK FALSE
