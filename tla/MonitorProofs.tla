---------------------------- MODULE MonitorProofs ----------------------------
(***************************************************************************)
(* Theorems about Monitor: what a scan of several steps can be relied on   *)
(* for, by any number of agents, shards and writers, and what follows for  *)
(* the signals of the sensor and the numbers of the status server.         *)
(***************************************************************************)
EXTENDS Monitor, FiniteSetTheorems, TLAPS

-----------------------------------------------------------------------------
(* Types                                                                   *)

Aspects == LifecycleStates \cup {"Absent", "overdue", "in time"}

Views == Scans \cup {"idle", "probe", "bind", "started", "no port", "io error"}

\* The clock and the shard of a scan are numbers.
LEMMA Numbers ==
    ASSUME TypeOK
    PROVE  /\ now \in Nat /\ now <= MaxTime /\ 0 \in 0 .. now /\ now \in 0 .. now
           /\ shard \in 1 .. Shards + 1 /\ shard \in Nat /\ Shards \in Nat
<1>1. now \in 0 .. MaxTime /\ shard \in 1 .. Shards + 1
  BY Zenon DEF TypeOK
<1> QED
  BY <1>1, ObserverAssumption, ShardAssumption

LEMMA AspectType ==
    ASSUME RegistryTypeOK, NEW a \in Agents
    PROVE  Aspect(a) \in Aspects
BY DEF RegistryTypeOK, Aspect, Aspects

LEMMA RememberType ==
    ASSUME RegistryTypeOK', ever \in [Agents -> SUBSET Aspects], Remember
    PROVE  ever' \in [Agents -> SUBSET Aspects]
<1>1. \A a \in Agents : Aspect(a)' \in Aspects
  BY DEF RegistryTypeOK, Aspect, Aspects
<1> QED
  BY <1>1 DEF Remember

\* The four writes keep the types of the registry and the time stamps.
LEMMA WriteType ==
    ASSUME TypeOK, NEW a \in Agents, Write(a)
    PROVE  RegistryTypeOK' /\ updated_at' \in [Agents -> 0 .. now]
<1> USE ObserverAssumption DEF TypeOK, RegistryTypeOK
<1>1. 0 \in 0 .. now /\ now \in 0 .. now
  BY Numbers
<1>2. CASE Create(a)
  BY <1>1, <1>2 DEF Create, Register, NewRecord, Stamp, LifecycleStates
<1>3. CASE Change(a)
  BY <1>1, <1>3 DEF Change, UpdateState, Stamp
<1>4. CASE Touch(a)
  BY <1>1, <1>4 DEF Touch, Stamp, registryVars
<1>5. CASE Delete(a)
  BY <1>1, <1>5 DEF Delete, Remove
<1> QED
  BY <1>2, <1>3, <1>4, <1>5 DEF Write

LEMMA TurnType ==
    ASSUME TypeOK, NEW v \in Views, Turn(v)
    PROVE  /\ RegistryTypeOK' /\ now' = now /\ updated_at' = updated_at
           /\ view' = v
           /\ shard' \in 1 .. Shards + 1
           /\ seen' \in [Agents -> Records \cup {None}]
           /\ stamps' \in [Agents -> 0 .. now]
           /\ started' \in 0 .. now
           /\ ever' \in [Agents -> SUBSET Aspects]
<1>1. RegistryTypeOK' /\ now' = now /\ updated_at' = updated_at /\ view' = v
  BY DEF Turn, TypeOK, RegistryTypeOK, registryVars
<1>2. now \in Nat /\ 0 \in 0 .. now /\ now \in 0 .. now
  BY Numbers
<1>8. ever \in [Agents -> SUBSET Aspects]
  BY Zenon DEF TypeOK, Aspects
<1>3. shard' = 1 /\ seen' = Unread /\ stamps' = NoStamps
  BY DEF Turn, StartScan
<1>4. shard' \in 1 .. Shards + 1
  BY <1>3, ShardAssumption
<1>5. seen' \in [Agents -> Records \cup {None}] /\ stamps' \in [Agents -> 0 .. now]
  BY <1>2, <1>3 DEF Unread, NoStamps
<1>6. started' \in 0 .. now
  BY <1>2 DEF Turn
<1>7. ever' \in [Agents -> SUBSET Aspects]
  BY <1>1, <1>8, RememberType DEF Turn
<1> QED
  BY <1>1, <1>4, <1>5, <1>6, <1>7

LEMMA GatherType ==
    ASSUME RegistryTypeOK, NEW old \in [Agents -> Records \cup {None}], NEW k, NEW S
    PROVE  Gather(old, k, S) \in [Agents -> Records \cup {None}]
BY DEF Gather, Record, Records, Registered, RegistryTypeOK

LEMMA ReadShardType ==
    ASSUME TypeOK, ReadShard
    PROVE  /\ shard' \in 1 .. Shards + 1
           /\ seen' \in [Agents -> Records \cup {None}]
           /\ stamps' \in [Agents -> 0 .. now]
<1>1. shard' \in 1 .. Shards + 1
  BY Numbers DEF ReadShard, Scanned
<1>2. seen' \in [Agents -> Records \cup {None}]
  BY GatherType DEF ReadShard, ScanState, ScanAll, TypeOK
<1>3. stamps' \in [Agents -> 0 .. now]
  BY DEF ReadShard, TypeOK
<1> QED
  BY <1>1, <1>2, <1>3

LEMMA CountType ==
    ASSUME IsFiniteSet(Agents), NEW old
    PROVE  /\ CountByState(old) \in [LifecycleStates -> Nat]
           /\ \A s : IsFiniteSet(SeenIn(old, s)) /\ Cardinality(SeenIn(old, s)) \in Nat
<1>1. \A s : SeenIn(old, s) \subseteq Agents
  BY DEF SeenIn, Seen
<1>2. \A s : IsFiniteSet(SeenIn(old, s)) /\ Cardinality(SeenIn(old, s)) \in Nat
  BY <1>1, FS_Subset, FS_CardinalityType
<1> QED
  BY <1>2 DEF CountByState

\* The port never leaves its range while start looks for one.
PortInv == Searching => port \in Ports

LEMMA TypeStep ==
    ASSUME TypeOK, PortInv, [Next]_monitorVars
    PROVE  TypeOK' /\ PortInv'
<1>0. /\ Aspects = LifecycleStates \cup {"Absent", "overdue", "in time"}
      /\ Views = Scans \cup {"idle", "probe", "bind", "started", "no port", "io error"}
      /\ "idle" \in Views /\ Scans \subseteq Views /\ IsFiniteSet(Agents)
  BY ObserverAssumption DEF Aspects, Views
<1>1. CASE UNCHANGED monitorVars
  BY <1>1
  DEF monitorVars, observerVars, registryVars, scanVars, serverVars, TypeOK, RegistryTypeOK,
      PortInv, Searching
<1>2. ASSUME NEW a \in Agents, Write(a), UNCHANGED serverVars
      PROVE  TypeOK' /\ PortInv'
  <2>1. RegistryTypeOK' /\ updated_at' \in [Agents -> 0 .. now]
    BY <1>2, WriteType
  <2>2. ever' \in [Agents -> SUBSET Aspects]
    BY <1>0, <1>2, <2>1, RememberType DEF Write, TypeOK
  <2> QED
    BY <1>0, <1>2, <2>1, <2>2 DEF Write, TypeOK, scanVars, serverVars, PortInv, Searching
<1>3. CASE Tick /\ UNCHANGED serverVars
  <2>1. now' = now + 1 /\ now' \in 0 .. MaxTime /\ 0 .. now \subseteq 0 .. now'
    BY <1>3, Numbers, ObserverAssumption DEF Tick
  <2>2. updated_at' \in [Agents -> 0 .. now'] /\ stamps' \in [Agents -> 0 .. now']
    BY <1>3, <2>1 DEF Tick, TypeOK, scanVars
  <2> QED
    BY <1>3, <2>1, <2>2
    DEF Tick, TypeOK, RegistryTypeOK, registryVars, scanVars, serverVars, PortInv, Searching
<1>4. CASE ReadShard /\ UNCHANGED serverVars
  <2>1. /\ shard' \in 1 .. Shards + 1
        /\ seen' \in [Agents -> Records \cup {None}]
        /\ stamps' \in [Agents -> 0 .. now]
    BY <1>4, ReadShardType
  <2> QED
    BY <1>4, <2>1
    DEF ReadShard, TypeOK, RegistryTypeOK, registryVars, serverVars, PortInv, Searching
<1>5. ASSUME NEW v \in Views, Turn(v), port' \in 0 .. LastPort, unusable' \subseteq Ports,
             busy' \subseteq Ports, counts' \in [LifecycleStates -> Nat],
             v \in {"probe", "bind"} => port' \in Ports
      PROVE  TypeOK' /\ PortInv'
  BY <1>0, <1>5, TurnType DEF TypeOK, PortInv, Searching
<1>6. 0 \in 0 .. LastPort /\ Ports \subseteq 0 .. LastPort /\ 1 \in Ports
  BY PortAssumption DEF Ports
<1>7. NoCounts \in [LifecycleStates -> Nat]
  BY DEF NoCounts
<1>8. CASE GuardianStep /\ UNCHANGED serverVars
  BY <1>0, <1>5, <1>8
  DEF GuardianStep, Detect, DetectStuck, DetectReturn, serverVars, TypeOK, Scans
<1>9. CASE Start \/ StartOnPort
  BY <1>0, <1>5, <1>6, <1>9 DEF Start, StartOnPort, TypeOK
<1>10. CASE Environment
  BY <1>10
  DEF Environment, TypeOK, RegistryTypeOK, observerVars, registryVars, scanVars, PortInv,
      Searching
<1>11. CASE Probe
  <2>1. port \in Ports
    BY <1>11 DEF Probe, PortInv, Searching
  <2>2. CASE Turn("bind") /\ UNCHANGED port
    BY <1>0, <1>5, <1>11, <2>1, <2>2 DEF Probe, TypeOK
  <2>3. CASE Turn("no port") /\ port' = port
    BY <1>0, <1>5, <1>11, <2>1, <2>3 DEF Probe, TypeOK
  <2>4. CASE port < LastPort /\ port' = port + 1 /\ UNCHANGED observerVars
    <3>1. port' \in Ports /\ port' \in 0 .. LastPort
      BY <2>1, <2>4, PortAssumption DEF Ports
    <3> QED
      BY <1>11, <2>4, <3>1
      DEF Probe, TypeOK, RegistryTypeOK, observerVars, registryVars, scanVars, PortInv,
          Searching
  <2> QED
    BY <1>11, <2>2, <2>3, <2>4 DEF Probe
<1>12. CASE Bind
  BY <1>0, <1>5, <1>12 DEF Bind, TypeOK
<1>13. CASE StartReturn
  BY <1>0, <1>5, <1>6, <1>13 DEF StartReturn, TypeOK
<1>14. CASE Health \/ ListAgents
  BY <1>0, <1>5, <1>14 DEF Health, ListAgents, serverVars, TypeOK, Scans
<1>15. CASE RequestReturn
  BY <1>0, <1>5, <1>7, <1>15 DEF RequestReturn, TypeOK
<1>16. CASE HealthTotal
  <2>1. counts' \in [LifecycleStates -> Nat]
    BY <1>0, <1>16, CountType DEF HealthTotal
  <2>2. /\ shard' \in 1 .. Shards + 1 /\ view' = "total"
        /\ seen' \in [Agents -> Records \cup {None}]
        /\ stamps' \in [Agents -> 0 .. now]
    BY <1>16, Numbers DEF HealthTotal, StartScan, Unread, NoStamps
  <2> QED
    BY <1>16, <2>1, <2>2
    DEF HealthTotal, TypeOK, RegistryTypeOK, registryVars, PortInv, Searching, Scans
<1> QED
  BY <1>1, <1>2, <1>3, <1>4, <1>8, <1>9, <1>10, <1>11, <1>12, <1>13, <1>14, <1>15, <1>16
  DEF Next, ServerStep

LEMMA MonitorInitType ==
    ASSUME Init
    PROVE  TypeOK /\ PortInv
<1>1. 0 \in 0 .. MaxTime /\ 0 \in 0 .. 0 /\ 0 \in 0 .. LastPort /\ 1 \in 1 .. Shards + 1
  BY ObserverAssumption, PortAssumption, ShardAssumption
<1> QED
  BY <1>1
  DEF Init, ObserverInit, ServerInit, RegistryInit, TypeOK, RegistryTypeOK, Unread,
      NoStamps, NoCounts, PortInv, Searching

\* Every variable of the observers stays in its domain; no record is newer than
\* the clock, and the port of the server is one of the range.
THEOREM MonitorTypeCorrect == Spec => []TypeOK
<1>1. Init => TypeOK /\ PortInv
  BY MonitorInitType
<1>2. TypeOK /\ PortInv /\ [Next]_monitorVars => TypeOK' /\ PortInv'
  BY TypeStep
<1> QED
  BY <1>1, <1>2, PTL DEF Spec

-----------------------------------------------------------------------------
(* What a scan collects, against the history of the agents                 *)

\* What an agent is now is part of the history of the reader at work.
PresentInv == view \in Scans => \A a \in Agents : Aspect(a) \in ever[a]

\* The scan has clones from the shards it has read, and from no other.
FreshInv == view \in Scans => \A a \in Agents : shard <= ShardOf[a] => seen[a] = None

\* ScanIsRegular for detect_stuck_agents, where the history tells overdue agents
\* from the others.
StuckInv ==
    view = "stuck" =>
        \A a \in Agents :
            /\ seen[a] # None =>
                  IF started - stamps[a] > StuckAfter THEN "overdue" \in ever[a]
                                                     ELSE "in time" \in ever[a]
            /\ ShardOf[a] < shard /\ seen[a] = None => "in time" \in ever[a]

ScanInv == PresentInv /\ FreshInv /\ StuckInv /\ ScanIsRegular

LEMMA ScanTurn ==
    ASSUME TypeOK, NEW v \in Views, Turn(v)
    PROVE  ScanInv'
<1>1. view' = v /\ shard' = 1 /\ seen' = Unread
  BY DEF Turn, StartScan
<1>2. \A a \in Agents : seen'[a] = None /\ ~(ShardOf[a] < shard')
  BY <1>1, ShardAssumption DEF Unread
<1>3. view' \in Scans => \A a \in Agents : Aspect(a)' \in ever'[a]
  BY DEF Turn, Remember
<1> QED
  BY <1>1, <1>2, <1>3 DEF ScanInv, PresentInv, FreshInv, StuckInv, ScanIsRegular

\* A history only grows while its reader is at work.
LEMMA WriteHistory ==
    ASSUME NEW b \in Agents, Write(b), view \in Scans
    PROVE  \A a \in Agents : Aspect(a)' \in ever'[a] /\ ever[a] \subseteq ever'[a]
BY DEF Write, Remember

LEMMA ScanWrite ==
    ASSUME NEW b \in Agents, Write(b), ScanInv
    PROVE  ScanInv'
<1>1. UNCHANGED <<view, shard, seen, stamps, started>>
  BY DEF Write, scanVars
<1>2. view \in Scans => \A a \in Agents : Aspect(a)' \in ever'[a] /\ ever[a] \subseteq ever'[a]
  BY WriteHistory
<1>3. PresentInv' /\ FreshInv'
  BY <1>1, <1>2 DEF ScanInv, PresentInv, FreshInv
<1>4. StuckInv'
  BY <1>1, <1>2 DEF ScanInv, StuckInv, Scans
<1>5. ScanIsRegular'
  BY <1>1, <1>2 DEF ScanInv, ScanIsRegular
<1> QED
  BY <1>3, <1>4, <1>5 DEF ScanInv

\* One shard: who is registered there is cloned as he is, the others are passed over
\* for what they are.
LEMMA ScanRead ==
    ASSUME TypeOK, ReadShard, ScanInv
    PROVE  ScanInv'
<1>1. /\ view \in Scans /\ shard' = shard + 1 /\ shard \in Nat
      /\ UNCHANGED <<state, result, error, updated_at, view, started, ever>>
      /\ \A a \in Agents : ShardOf[a] \in Nat
  BY Numbers, ShardAssumption DEF ReadShard, registryVars
<1>2. ASSUME NEW a \in Agents
      PROVE  seen'[a] = IF /\ view = "stuck" => state[a] = "Executing"
                           /\ ShardOf[a] = shard /\ Registered(a)
                        THEN Record(a) ELSE seen[a]
  BY DEF ReadShard, ScanState, ScanAll, Gather
<1>3. ASSUME NEW a \in Agents
      PROVE  stamps'[a] = IF ShardOf[a] = shard /\ seen'[a] # None THEN updated_at[a]
                                                                  ELSE stamps[a]
  BY DEF ReadShard
<1>4. ASSUME NEW a \in Agents, Registered(a)
      PROVE  Record(a) # None /\ Record(a).state = state[a]
  <2>1. RegistryTypeOK
    BY DEF TypeOK
  <2> QED
    BY <1>4, <2>1, RecordAssumption DEF RegistryTypeOK, Record, Records, Registered
<1>5. \A a \in Agents : Aspect(a)' = Aspect(a)
  BY <1>1 DEF Aspect, Overdue
<1>6. PresentInv'
  BY <1>1, <1>5 DEF ScanInv, PresentInv
<1>7. FreshInv'
  BY <1>1, <1>2 DEF ScanInv, FreshInv
<1>8. ScanIsRegular'
  <2> SUFFICES ASSUME view \in Scans \ {"stuck"}, NEW a \in Agents
               PROVE  /\ seen'[a] # None => seen'[a].state \in ever[a]
                      /\ ShardOf[a] < shard' /\ seen'[a] = None => "Absent" \in ever[a]
    BY <1>1 DEF ScanIsRegular
  <2>1. state[a] \in ever[a]
    BY DEF ScanInv, PresentInv, Aspect
  <2>2. CASE ShardOf[a] = shard /\ Registered(a)
    BY <1>2, <1>4, <2>1, <2>2
  <2>3. CASE ShardOf[a] = shard /\ ~Registered(a)
    BY <1>1, <1>2, <2>1, <2>3 DEF ScanInv, FreshInv, Registered
  <2>4. CASE ShardOf[a] # shard
    <3>1. seen'[a] = seen[a] /\ (ShardOf[a] < shard' => ShardOf[a] < shard)
      BY <1>1, <1>2, <2>4
    <3> QED
      BY <3>1 DEF ScanInv, ScanIsRegular
  <2> QED
    BY <2>2, <2>3, <2>4
<1>9. StuckInv'
  <2> SUFFICES ASSUME view = "stuck", NEW a \in Agents
               PROVE  /\ seen'[a] # None =>
                            IF started - stamps'[a] > StuckAfter THEN "overdue" \in ever[a]
                                                                ELSE "in time" \in ever[a]
                      /\ ShardOf[a] < shard' /\ seen'[a] = None => "in time" \in ever[a]
    BY <1>1 DEF StuckInv
  <2>1. (IF Overdue(a, started) THEN "overdue" ELSE "in time") \in ever[a]
    BY DEF ScanInv, PresentInv, Aspect, Scans
  <2>2. CASE ShardOf[a] = shard /\ state[a] = "Executing"
    BY <1>2, <1>3, <1>4, <2>1, <2>2 DEF Overdue, Registered
  <2>3. CASE ShardOf[a] = shard /\ state[a] # "Executing"
    <3>1. seen'[a] = None
      BY <1>1, <1>2, <2>3 DEF ScanInv, FreshInv
    <3> QED
      BY <2>1, <2>3, <3>1 DEF Overdue
  <2>4. CASE ShardOf[a] # shard
    <3>1. /\ seen'[a] = seen[a] /\ stamps'[a] = stamps[a]
          /\ ShardOf[a] < shard' => ShardOf[a] < shard
      BY <1>1, <1>2, <1>3, <2>4
    <3> QED
      BY <3>1 DEF ScanInv, StuckInv
  <2> QED
    BY <2>2, <2>3, <2>4
<1> QED
  BY <1>6, <1>7, <1>8, <1>9 DEF ScanInv

\* The second scan of a health report starts anew, the history goes on.
LEMMA ScanTotal ==
    ASSUME HealthTotal, ScanInv
    PROVE  ScanInv'
<1>1. /\ view = "health" /\ view' = "total" /\ shard' = 1 /\ seen' = Unread
      /\ UNCHANGED <<state, ever>>
  BY DEF HealthTotal, StartScan, registryVars
<1>2. \A a \in Agents : seen'[a] = None /\ ~(ShardOf[a] < shard')
  BY <1>1, ShardAssumption DEF Unread
<1>3. PresentInv'
  BY <1>1 DEF ScanInv, PresentInv, Aspect, Scans
<1> QED
  BY <1>1, <1>2, <1>3 DEF ScanInv, FreshInv, StuckInv, ScanIsRegular

\* Every step of the readers but those of a scan turns to another view, or leaves
\* the observers alone.
LEMMA ReaderSteps ==
    ASSUME [Next]_monitorVars
    PROVE  \/ UNCHANGED observerVars /\ UNCHANGED counts
           \/ (\E a \in Agents : Write(a)) /\ UNCHANGED counts
           \/ Tick /\ UNCHANGED counts
           \/ ReadShard /\ UNCHANGED counts
           \/ \E v \in Views \ {"total"} : Turn(v)
           \/ HealthTotal
<1>1. {"idle", "errors", "stuck", "health", "list", "probe", "bind", "started", "no port",
       "io error"} \subseteq Views \ {"total"}
  BY DEF Views, Scans
<1>2. CASE UNCHANGED monitorVars
  BY <1>2 DEF monitorVars, serverVars
<1>3. CASE GuardianStep
  BY <1>1, <1>3 DEF GuardianStep, Detect, DetectStuck, DetectReturn
<1>4. CASE Start \/ StartOnPort \/ Probe \/ Bind \/ StartReturn
  BY <1>1, <1>4 DEF Start, StartOnPort, Probe, Bind, StartReturn
<1>5. CASE Environment
  BY <1>5 DEF Environment
<1>6. CASE Health \/ ListAgents \/ RequestReturn
  BY <1>1, <1>6 DEF Health, ListAgents, RequestReturn
<1> QED
  BY <1>2, <1>3, <1>4, <1>5, <1>6 DEF Next, ServerStep, serverVars

LEMMA ScanInvHolds == Spec => []ScanInv
<1>1. Init => ScanInv
  BY DEF Init, ObserverInit, ScanInv, PresentInv, FreshInv, StuckInv, ScanIsRegular, Scans
<1>2. ASSUME TypeOK, ScanInv, [Next]_monitorVars PROVE ScanInv'
  <2>1. CASE UNCHANGED observerVars
    BY <1>2, <2>1
    DEF observerVars, registryVars, scanVars, ScanInv, PresentInv, FreshInv, StuckInv,
        ScanIsRegular, Aspect, Overdue
  <2>2. CASE Tick
    BY <1>2, <2>2
    DEF Tick, registryVars, scanVars, ScanInv, PresentInv, FreshInv, StuckInv,
        ScanIsRegular, Aspect, Overdue
  <2> QED
    BY <1>2, <2>1, <2>2, ReaderSteps, ScanTurn, ScanWrite, ScanRead, ScanTotal
<1> QED
  BY <1>1, <1>2, MonitorTypeCorrect, PTL DEF Spec

\* A scan reports no state that the agent never had while the reader was at work,
\* and passes over nobody who was registered all the time.
THEOREM ScansAreRegular == Spec => []ScanIsRegular
BY ScanInvHolds, PTL DEF ScanInv

\* detect_stuck_agents names only agents that were overdue at some moment, and
\* all that were overdue throughout.
THEOREM StuckSignalsAreJustified == Spec => []StuckSignalsJustified
<1>1. ASSUME TypeOK, ScanInv PROVE StuckSignalsJustified
  <2> SUFFICES ASSUME view = "stuck", Scanned, NEW a \in Agents
               PROVE  /\ a \in StuckSignals => "overdue" \in ever[a]
                      /\ ever[a] = {"overdue"} => a \in StuckSignals
    BY DEF StuckSignalsJustified, Sometimes, Always, StuckSignals, Seen
  <2>1. ShardOf[a] < shard
    BY <1>1, Numbers, ShardAssumption DEF Scanned
  <2> QED
    BY <1>1, <2>1 DEF ScanInv, StuckInv, StuckSignals, Seen
<1> QED
  BY <1>1, ScanInvHolds, MonitorTypeCorrect, PTL

-----------------------------------------------------------------------------
(* Counts                                                                  *)

LEMMA SubsetCount ==
    ASSUME NEW S, S \subseteq Agents, NEW R, R \subseteq S
    PROVE  /\ IsFiniteSet(S) /\ IsFiniteSet(R)
           /\ Cardinality(R) \in Nat /\ Cardinality(S) \in Nat
           /\ Cardinality(R) <= Cardinality(S)
<1>1. IsFiniteSet(S)
  BY ObserverAssumption, FS_Subset
<1> QED
  BY <1>1, FS_Subset, FS_CardinalityType

\* What a finished scan has collected lies between what held throughout and what
\* held at some moment.
LEMMA ScanBetween ==
    ASSUME TypeOK, ScanInv, view \in Scans \ {"stuck"}, Scanned
    PROVE  /\ Agents \ Sometimes("Absent") \subseteq Seen(seen)
           /\ Seen(seen) \subseteq Agents \ Always("Absent")
           /\ \A s \in LifecycleStates :
                 Always(s) \subseteq SeenIn(seen, s) /\ SeenIn(seen, s) \subseteq Sometimes(s)
<1>1. ASSUME NEW a \in Agents
      PROVE  /\ seen[a] = None => "Absent" \in ever[a]
             /\ seen[a] # None => seen[a].state \in ever[a] /\ seen[a].state \in LifecycleStates
  <2>1. ShardOf[a] < shard
    BY Numbers, ShardAssumption DEF Scanned
  <2>2. seen[a] \in Records \cup {None}
    BY Zenon DEF TypeOK
  <2> QED
    BY <2>1, <2>2 DEF ScanInv, ScanIsRegular, Records
<1>2. "Absent" \notin LifecycleStates
  BY DEF LifecycleStates
<1> QED
  BY <1>1, <1>2 DEF Sometimes, Always, Seen, SeenIn

\* The counts of a health report, while its second scan goes on.
CountInv ==
    view = "total" =>
        \A s \in LifecycleStates :
            /\ counts[s] >= Cardinality(Always(s))
            /\ counts[s] <= Cardinality(Sometimes(s))

LEMMA CountWrite ==
    ASSUME NEW b \in Agents, TypeOK, ScanInv, Write(b), UNCHANGED counts, CountInv
    PROVE  CountInv'
<1> SUFFICES ASSUME view' = "total", NEW s \in LifecycleStates
             PROVE  /\ counts[s] >= Cardinality(Always(s)')
                    /\ counts[s] <= Cardinality(Sometimes(s)')
  BY DEF CountInv
<1>1. view = "total" /\ view \in Scans
  BY DEF Write, Scans
<1>2. \A a \in Agents : Aspect(a)' \in ever'[a] /\ ever[a] \subseteq ever'[a]
  BY <1>1, WriteHistory
<1>3. /\ Always(s)' \subseteq Always(s) /\ Always(s) \subseteq Agents
      /\ Sometimes(s) \subseteq Sometimes(s)' /\ Sometimes(s)' \subseteq Agents
  <2>1. \A a \in Agents : ever'[a] = {s} => ever[a] = {s}
    BY <1>1, <1>2 DEF ScanInv, PresentInv
  <2> QED
    BY <1>2, <2>1 DEF Always, Sometimes
<1>4. /\ Cardinality(Always(s)') <= Cardinality(Always(s))
      /\ Cardinality(Sometimes(s)) <= Cardinality(Sometimes(s)')
      /\ Cardinality(Always(s)') \in Nat /\ Cardinality(Always(s)) \in Nat
      /\ Cardinality(Sometimes(s)') \in Nat /\ Cardinality(Sometimes(s)) \in Nat
  BY <1>3, SubsetCount
<1>5. counts[s] \in Nat
  BY Zenon DEF TypeOK
<1> QED
  BY <1>1, <1>4, <1>5 DEF CountInv

LEMMA CountInvHolds == Spec => []CountInv
<1>1. Init => CountInv
  BY DEF Init, ObserverInit, CountInv
<1>2. ASSUME TypeOK, ScanInv, CountInv, [Next]_monitorVars PROVE CountInv'
  <2>1. CASE UNCHANGED observerVars /\ UNCHANGED counts
    BY <1>2, <2>1 DEF observerVars, CountInv, Always, Sometimes
  <2>2. CASE (Tick \/ ReadShard) /\ UNCHANGED counts
    BY <1>2, <2>2 DEF Tick, ReadShard, CountInv, Always, Sometimes
  <2>3. CASE \E v \in Views \ {"total"} : Turn(v)
    BY <2>3 DEF Turn, CountInv
  <2>4. CASE HealthTotal
    <3>1. view \in Scans \ {"stuck"} /\ Scanned /\ ever' = ever /\ counts' = CountByState(seen)
      BY <2>4 DEF HealthTotal, Scans
    <3>2. ASSUME NEW s \in LifecycleStates
          PROVE  /\ Cardinality(SeenIn(seen, s)) >= Cardinality(Always(s))
                 /\ Cardinality(SeenIn(seen, s)) <= Cardinality(Sometimes(s))
      <4>1. /\ Always(s) \subseteq SeenIn(seen, s) /\ SeenIn(seen, s) \subseteq Sometimes(s)
            /\ SeenIn(seen, s) \subseteq Agents /\ Sometimes(s) \subseteq Agents
        BY <1>2, <3>1, ScanBetween DEF SeenIn, Seen, Sometimes
      <4> QED
        BY <4>1, SubsetCount
    <3> QED
      BY <3>1, <3>2 DEF CountInv, CountByState, Always, Sometimes
  <2> QED
    BY <1>2, <2>1, <2>2, <2>3, <2>4, ReaderSteps, CountWrite
<1> QED
  BY <1>1, <1>2, MonitorTypeCorrect, ScanInvHolds, PTL DEF Spec

\* Torn as the numbers of a health report may be, each lies between what was true
\* throughout the request and what was true at some moment of it.
THEOREM HealthIsBounded == Spec => []HealthBounds
<1>1. ASSUME TypeOK, ScanInv, CountInv PROVE HealthBounds
  <2> SUFFICES ASSUME view = "total", Scanned
               PROVE  /\ Cardinality(Seen(seen)) >= Cardinality(Agents \ Sometimes("Absent"))
                      /\ Cardinality(Seen(seen)) <= Cardinality(Agents \ Always("Absent"))
    BY <1>1 DEF HealthBounds, CountInv
  <2>1. /\ Agents \ Sometimes("Absent") \subseteq Seen(seen)
        /\ Seen(seen) \subseteq Agents \ Always("Absent")
    BY <1>1, ScanBetween DEF Scans
  <2>2. Seen(seen) \subseteq Agents /\ Agents \ Always("Absent") \subseteq Agents
    BY DEF Seen
  <2> QED
    BY <2>1, <2>2, SubsetCount
<1> QED
  BY <1>1, MonitorTypeCorrect, ScanInvHolds, CountInvHolds, PTL

\* A rate only rises with its numerator and falls with its denominator.
LEMMA RateMonotone ==
    ASSUME NEW e \in Nat, NEW f \in Nat, NEW t \in Nat, NEW u \in Nat,
           NEW num \in Nat, NEW den \in Nat \ {0},
           e <= f, u <= t, e * den > num * t
    PROVE  f * den > num * u
<1>1. e * den <= f * den
  OBVIOUS
<1>2. num * u <= num * t
  OBVIOUS
<1>3. e * den \in Nat /\ f * den \in Nat /\ num * u \in Nat /\ num * t \in Nat
  OBVIOUS
<1> QED
  BY <1>1, <1>2, <1>3

\* An error signal needs a rate that is high even in the most favourable reading of
\* the history, and a rate that is high in the least favourable one is signalled.
THEOREM ErrorSignalsAreJustified == Spec => []ErrorSignalJustified
<1>1. ASSUME TypeOK, ScanInv PROVE ErrorSignalJustified
  <2> SUFFICES ASSUME view = "errors", Scanned
               PROVE  ErrorSignalJustified
    BY DEF ErrorSignalJustified
  <2> DEFINE e     == Cardinality(SeenIn(seen, "Error"))
             t     == Cardinality(Seen(seen))
             most  == Cardinality(Sometimes("Error"))
             least == Cardinality(Always("Error"))
             few   == Cardinality(Agents \ Sometimes("Absent"))
             many  == Cardinality(Agents \ Always("Absent"))
  <2>1. /\ Agents \ Sometimes("Absent") \subseteq Seen(seen)
        /\ Seen(seen) \subseteq Agents \ Always("Absent")
        /\ Always("Error") \subseteq SeenIn(seen, "Error")
        /\ SeenIn(seen, "Error") \subseteq Sometimes("Error")
        /\ SeenIn(seen, "Error") \subseteq Seen(seen)
    BY <1>1, ScanBetween DEF Scans, LifecycleStates, SeenIn
  <2>2. /\ Seen(seen) \subseteq Agents /\ Agents \ Always("Absent") \subseteq Agents
        /\ Sometimes("Error") \subseteq Agents /\ SeenIn(seen, "Error") \subseteq Agents
    BY DEF Seen, SeenIn, Sometimes
  <2>3. /\ few <= t /\ t <= many /\ least <= e /\ e <= most /\ e <= t
        /\ few \in Nat /\ t \in Nat /\ many \in Nat /\ least \in Nat /\ e \in Nat /\ most \in Nat
    BY <2>1, <2>2, SubsetCount
  <2>4. /\ Threshold.num \in Nat /\ Threshold.den \in Nat \ {0}
        /\ None # "High" /\ None # "Critical"
    BY ThresholdAssumption
  <2> HIDE DEF e, t, most, least, few, many
  <2>5. e * Threshold.den > Threshold.num * t => most * Threshold.den > Threshold.num * few
    BY <2>3, <2>4, RateMonotone
  <2>6. least * Threshold.den > Threshold.num * many =>
          t # 0 /\ e * Threshold.den > Threshold.num * t
    <3>1. least * Threshold.den > Threshold.num * many => e * Threshold.den > Threshold.num * t
      BY <2>3, <2>4, RateMonotone
    <3>2. e * Threshold.den > Threshold.num * t => t # 0
      <4> SUFFICES ASSUME t = 0 PROVE ~(e * Threshold.den > Threshold.num * t)
        OBVIOUS
      <4>1. e = 0
        BY <2>3
      <4> QED
        BY <2>4, <4>1
    <3> QED
      BY <3>1, <3>2
  <2>7. /\ ErrorSignal(e, t) # None => most * Threshold.den > Threshold.num * few
        /\ ErrorSignal(e, t) = "Critical" => 2 * most > few
        /\ least * Threshold.den > Threshold.num * many => ErrorSignal(e, t) # None
        /\ ErrorSignal(e, t) # None /\ 2 * least > many => ErrorSignal(e, t) = "Critical"
    BY <2>3, <2>4, <2>5, <2>6 DEF ErrorSignal, HighRate, CriticalRate
  <2> QED
    BY <2>7 DEF ErrorSignalJustified, e, t, most, least, few, many
<1> QED
  BY <1>1, MonitorTypeCorrect, ScanInvHolds, PTL

-----------------------------------------------------------------------------
(* Without writers the readers are exact                                   *)

\* Nothing that the reader looks at has changed since it began.
Calm == \A a \in Agents : ever[a] = {Aspect(a)}

\* A scan that met no relevant write is a snapshot: it lists who is registered, with
\* the state that he has, the counts of a health report are those of the registry, and
\* the stuck signals name all the agents that are overdue and no other.
CalmReadsAreExact ==
    view \in Scans /\ Scanned /\ Calm =>
        /\ view # "stuck" =>
              \A a \in Agents :
                 /\ seen[a] # None <=> Registered(a)
                 /\ seen[a] # None => seen[a].state = state[a]
        /\ view = "total" =>
              \A s \in LifecycleStates :
                 counts[s] = Cardinality({a \in Agents : state[a] = s})
        /\ view = "stuck" => StuckSignals = {a \in Agents : Overdue(a, started)}

\* What the readers get wrong, they get wrong because of a write in between.
THEOREM CalmScansAreExact == Spec => []CalmReadsAreExact
<1>1. ASSUME TypeOK, ScanInv, CountInv, StuckSignalsJustified PROVE CalmReadsAreExact
  <2> SUFFICES ASSUME view \in Scans, Scanned, Calm
               PROVE  /\ view # "stuck" =>
                            \A a \in Agents :
                               /\ seen[a] # None <=> Registered(a)
                               /\ seen[a] # None => seen[a].state = state[a]
                      /\ view = "total" =>
                            \A s \in LifecycleStates :
                               counts[s] = Cardinality({a \in Agents : state[a] = s})
                      /\ view = "stuck" => StuckSignals = {a \in Agents : Overdue(a, started)}
    BY DEF CalmReadsAreExact
  <2>1. ASSUME view # "stuck", NEW a \in Agents
        PROVE  /\ seen[a] # None <=> Registered(a)
               /\ seen[a] # None => seen[a].state = state[a]
    <3>1. ever[a] = {state[a]}
      BY <2>1 DEF Calm, Aspect
    <3>2. ShardOf[a] < shard
      BY <1>1, Numbers, ShardAssumption DEF Scanned
    <3>3. seen[a] \in Records \cup {None}
      BY <1>1, Zenon DEF TypeOK
    <3> QED
      BY <1>1, <2>1, <3>1, <3>2, <3>3
      DEF ScanInv, ScanIsRegular, Records, Registered, LifecycleStates
  <2>2. ASSUME view = "total", NEW s \in LifecycleStates
        PROVE  counts[s] = Cardinality({a \in Agents : state[a] = s})
    <3> DEFINE S == {a \in Agents : state[a] = s}
    <3>1. Always(s) = S /\ Sometimes(s) = S
      BY <2>2 DEF Calm, Aspect, Always, Sometimes
    <3>2. Cardinality(S) \in Nat /\ counts[s] \in Nat
      <4>1. S \subseteq Agents
        OBVIOUS
      <4>2. Cardinality(S) \in Nat
        BY <4>1, SubsetCount
      <4>3. counts[s] \in Nat
        BY <1>1, Zenon DEF TypeOK
      <4> QED
        BY <4>2, <4>3
    <3> HIDE DEF S
    <3>3. counts[s] >= Cardinality(S) /\ counts[s] <= Cardinality(S)
      BY <1>1, <2>2, <3>1 DEF CountInv
    <3>4. counts[s] = Cardinality(S)
      BY <3>2, <3>3
    <3> QED
      BY <3>4 DEF S
  <2>3. ASSUME view = "stuck" PROVE StuckSignals = {a \in Agents : Overdue(a, started)}
    <3>1. \A a \in Agents : ever[a] = {IF Overdue(a, started) THEN "overdue" ELSE "in time"}
      BY <2>3 DEF Calm, Aspect
    <3>2. StuckSignals \subseteq {a \in Agents : "overdue" \in ever[a]}
      BY <1>1, <2>3 DEF StuckSignalsJustified, Sometimes
    <3>3. {a \in Agents : ever[a] = {"overdue"}} \subseteq StuckSignals
      BY <1>1, <2>3 DEF StuckSignalsJustified, Always
    <3> QED
      BY <3>1, <3>2, <3>3
  <2> QED
    BY <2>1, <2>2, <2>3
<1> QED
  BY <1>1, MonitorTypeCorrect, ScanInvHolds, CountInvHolds, StuckSignalsAreJustified, PTL

-----------------------------------------------------------------------------
(* The search for a port                                                   *)

\* During the search the ports below the one that is tried were unusable when they
\* were tried, and those that are unusable now have been noted.  Before the bind the
\* port has been noted if it is unusable: it was not when it was found.
CauseInv ==
    /\ view = "probe" => unusable \subseteq busy /\ \A p \in Ports : p < port => p \in busy
    /\ view = "bind" /\ port \in unusable => port \in busy
    /\ StartFailsForCause

LEMMA PortRange == \A p \in Ports : ~(p < 1) /\ (p < LastPort \/ p = LastPort)
BY PortAssumption DEF Ports

LEMMA CauseStep ==
    ASSUME TypeOK, PortInv, CauseInv, [Next]_monitorVars
    PROVE  CauseInv'
<1> USE DEF CauseInv, StartFailsForCause
<1>1. CASE UNCHANGED monitorVars
  BY <1>1 DEF monitorVars, observerVars, serverVars
<1>2. CASE /\ (\E a \in Agents : Write(a)) \/ Tick \/ ReadShard
           /\ UNCHANGED serverVars
  BY <1>2 DEF Write, Tick, ReadShard, serverVars
<1>3. ASSUME NEW v \in Views \ {"probe", "bind", "no port", "io error"}, Turn(v)
      PROVE  CauseInv'
  BY <1>3 DEF Turn
<1>4. {"idle", "errors", "stuck", "health", "list", "started"}
        \subseteq Views \ {"probe", "bind", "no port", "io error"}
  BY DEF Views, Scans
<1>5. CASE GuardianStep
  BY <1>3, <1>4, <1>5 DEF GuardianStep, Detect, DetectStuck, DetectReturn
<1>6. CASE StartReturn \/ Health \/ ListAgents \/ RequestReturn
  BY <1>3, <1>4, <1>6 DEF StartReturn, Health, ListAgents, RequestReturn
<1>7. CASE HealthTotal
  BY <1>7 DEF HealthTotal
<1>8. CASE Start \/ StartOnPort
  <2>1. CASE Start
    <3>1. view' = "probe" /\ port' = 1 /\ busy' = unusable'
      BY <2>1 DEF Start, Turn
    <3>2. \A p \in Ports : ~(p < 1)
      BY PortRange
    <3> QED
      BY <3>1, <3>2
  <2>2. CASE StartOnPort
    BY <2>2 DEF StartOnPort, Turn
  <2> QED
    BY <1>8, <2>1, <2>2
<1>9. CASE Environment
  BY <1>9 DEF Environment, observerVars, Searching
<1>10. CASE Probe
  <2>1. view = "probe" /\ port \in Ports /\ UNCHANGED unusable /\ unusable \subseteq busy
    BY <1>10 DEF Probe, PortInv, Searching
  <2>2. busy \subseteq Ports
    BY Zenon DEF TypeOK
  <2>3. CASE port \notin unusable /\ Turn("bind") /\ UNCHANGED port
    <3>1. view' = "bind"
      BY <2>3 DEF Turn
    <3> QED
      BY <2>1, <2>3, <3>1
  <2>4. CASE port \in unusable /\ port' = port + 1 /\ UNCHANGED <<observerVars, busy>>
    <3>1. view' = "probe"
      BY <2>1, <2>4 DEF observerVars
    <3>2. \A p \in Ports : p < port + 1 => p < port \/ p = port
      BY <2>1 DEF Ports
    <3> QED
      BY <2>1, <2>2, <2>4, <3>1, <3>2
  <2>5. CASE port \in unusable /\ port = LastPort /\ Turn("no port") /\ UNCHANGED busy
    <3>1. view' = "no port"
      BY <2>5 DEF Turn
    <3>2. \A p \in Ports : p < LastPort \/ p = LastPort
      BY PortRange
    <3>3. \A p \in Ports : p < LastPort => p \in busy
      BY <2>1, <2>5
    <3>4. LastPort \in busy
      BY <2>1, <2>5
    <3>5. busy = Ports
      BY <2>2, <3>2, <3>3, <3>4
    <3> QED
      BY <2>5, <3>1, <3>5
  <2> QED
    BY <1>10, <2>3, <2>4, <2>5 DEF Probe
<1>11. CASE Bind
  <2>1. CASE Turn("started")
    BY <1>3, <1>4, <2>1
  <2>2. CASE port \in unusable /\ Turn("io error")
    <3>1. view = "bind" /\ view' = "io error" /\ UNCHANGED <<port, busy>>
      BY <1>11, <2>2 DEF Bind, Turn
    <3> QED
      BY <2>2, <3>1
  <2> QED
    BY <1>11, <2>1, <2>2 DEF Bind
<1> QED
  BY <1>1, <1>2, <1>5, <1>6, <1>7, <1>8, <1>9, <1>10, <1>11 DEF Next, ServerStep

\* start reports that there is no port only if each port of the range could not be bound
\* at some moment of the search, and an I/O error only if the port it had found became
\* impossible to bind after it was found.
THEOREM StartFailuresHaveCauses == Spec => []StartFailsForCause
<1>1. Init => TypeOK /\ PortInv /\ CauseInv
  BY MonitorInitType DEF Init, ObserverInit, CauseInv, StartFailsForCause
<1>2. TypeOK /\ PortInv /\ CauseInv /\ [Next]_monitorVars => TypeOK' /\ PortInv' /\ CauseInv'
  BY TypeStep, CauseStep
<1>3. CauseInv => StartFailsForCause
  BY DEF CauseInv
<1> QED
  BY <1>1, <1>2, <1>3, PTL DEF Spec

=============================================================================
