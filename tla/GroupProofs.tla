----------------------------- MODULE GroupProofs -----------------------------
(***************************************************************************)
(* Theorems about GroupSupervision.  Its callers only do what Supervisor   *)
(* lets its own callers do, so everything proved of Supervisor holds with  *)
(* groups as well.  The rest follows from what a clone of a record, old as *)
(* it may be, still says about its agent.                                  *)
(***************************************************************************)
EXTENDS GroupSupervision, ClientProofs, WellFoundedInduction

-----------------------------------------------------------------------------
(* Groups add no behaviour to the supervisor.                              *)

LEMMA GroupStepIsStep ==
    ASSUME [GroupNext]_groupVars
    PROVE  [Next]_vars
<1>1. CASE UNCHANGED groupVars
  BY <1>1 DEF groupVars
<1>2. CASE SupervisorStep
  <2>1. PICK a \in Agents :
          \/ Spawn(a) \/ InsertHandle(a) \/ AbandonSpawn(a) \/ TaskStep(a)
          \/ CancelBegin(a) \/ CancelEnd(a)
          \/ WaitCall(a) \/ WaitPoll(a) \/ WaitReclaim(a)
          \/ Block(a) \/ Purge(a)
    BY <1>2 DEF SupervisorStep, SpawnMember
  <2> QED
    BY <2>1 DEF Next
<1>3. ASSUME NEW c \in Callers, CancelMember(c)
      PROVE  [Next]_vars
  BY <1>3 DEF CancelMember, Next
<1>4. ASSUME NEW c \in Callers, CancelMemberEnd(c)
      PROVE  [Next]_vars
  BY <1>4 DEF CancelMemberEnd, Next
<1>5. ASSUME NEW c \in Callers,
             \/ GroupCall(c) \/ ReadShard(c) \/ WaitDecide(c) \/ JudgeDecide(c)
             \/ CancelGroup(c) \/ CancelReturn(c) \/ Expire(c)
      PROVE  UNCHANGED vars
  BY <1>5 DEF GroupCall, ReadShard, WaitDecide, JudgeDecide, CancelGroup, CancelReturn, Expire
<1> QED
  BY <1>1, <1>2, <1>3, <1>4, <1>5 DEF GroupNext, CallerStep

\* The supervisor of GroupSupervision implements Supervisor: spawn_group, and the
\* cancels that cancel_group makes, are calls that Supervisor allows.
THEOREM GroupsImplementSupervisor == GroupSpec => Spec
<1>1. GroupInit => Init
  BY DEF GroupInit
<1>2. [GroupNext]_groupVars => [Next]_vars
  BY GroupStepIsStep
<1> QED
  BY <1>1, <1>2, PTL DEF GroupSpec, Spec

-----------------------------------------------------------------------------
(* What a terminal record says about the task, if it was not removed.      *)

\* A task that is past its work leaves its record to the others, and those can
\* only mark it Cancelled or remove it.
LEMMA RecordAfterWork ==
    ASSUME TypeOK, SpawnOrder, [Next]_vars, NEW b \in Agents, task[b] \in PastWork
    PROVE  /\ state'[b] \in {state[b], "Cancelled", "Absent"}
           /\ state[b] = "Absent" => state'[b] = "Absent"
           /\ result'[b] = result[b] \/ state'[b] = "Absent"
<1> USE DEF TypeOK, RegistryTypeOK
<1>1. CASE UNCHANGED vars
  BY <1>1 DEF vars, registryVars
<1>2. CASE Next
  <2>1. PICK a \in Agents :
          \/ Spawn(a) \/ InsertHandle(a) \/ AbandonSpawn(a) \/ TaskStep(a)
          \/ CancelBegin(a) \/ CancelEnd(a)
          \/ WaitCall(a) \/ WaitPoll(a) \/ WaitReclaim(a)
          \/ Block(a) \/ Purge(a)
    BY <1>2 DEF Next
  <2>2. CASE Spawn(a)
    BY <2>2 DEF Spawn, Register, SpawnOrder, PastWork, Stopped
  <2>3. CASE CancelEnd(a) \/ Block(a)
    BY <2>3 DEF CancelEnd, Block, UpdateState, Registered
  <2>4. CASE Purge(a)
    BY <2>4 DEF Purge, Remove
  <2>5. CASE Start(a) \/ Enter(a) \/ Report(a) \/ Finish(a) \/ Fail(a)
    BY <2>5 DEF Start, Enter, Report, Finish, Fail, UpdateState, PastWork, Stopped
  <2>6. CASE Serialize(a) \/ FailMessage(a)
    BY <2>6 DEF Serialize, FailMessage, SetResult, SetError, registryVars, PastWork, Stopped
  <2>7. CASE \/ AcquirePermit(a) \/ PermitGranted(a) \/ CreateContext(a) \/ Execute(a)
             \/ Panic(a) \/ CleanUp(a) \/ Exit(a) \/ Drop(a)
    BY <2>7
    DEF AcquirePermit, PermitGranted, CreateContext, Execute, Panic, CleanUp, Exit,
        Drop, registryVars
  <2>8. CASE \/ InsertHandle(a) \/ AbandonSpawn(a) \/ CancelBegin(a)
             \/ WaitCall(a) \/ WaitPoll(a) \/ WaitReclaim(a)
    BY <2>8
    DEF InsertHandle, AbandonSpawn, CancelBegin, WaitCall, WaitPoll, WaitReclaim, registryVars
  <2> QED
    BY <2>1, <2>2, <2>3, <2>4, <2>5, <2>6, <2>7, <2>8 DEF TaskStep
<1> QED
  BY <1>1, <1>2

\* Everything that the following steps use of the supervisor.
SupervisorInv ==
    TypeOK /\ SpawnOrder /\ RecordInv /\ OutsideInv /\ LiveTaskHasHandle

LEMMA SupervisorInvHolds == GroupSpec => []SupervisorInv
BY GroupsImplementSupervisor, TypeCorrect, SpawnOrderHolds, RecordInvHolds,
   OutsideInvHolds, LiveTasksAreReachable, PTL DEF SupervisorInv

-----------------------------------------------------------------------------
(* Types                                                                   *)

LEMMA GatherType ==
    ASSUME RegistryTypeOK, NEW old \in [Agents -> Records \cup {None}], NEW k, NEW S
    PROVE  Gather(old, k, S) \in [Agents -> Records \cup {None}]
BY DEF Gather, Record, Records, Registered, RegistryTypeOK

LEMMA VotersInGroup ==
    ASSUME NEW old \in [Agents -> Records \cup {None}], Seen(old) \subseteq Group
    PROVE  /\ Voters(old) \subseteq Group
           /\ \A v : /\ Supporters(old, v) \subseteq Voters(old)
                     /\ IsFiniteSet(Supporters(old, v))
                     /\ Votes(old, v) \in Nat
<1>1. Voters(old) \subseteq Group /\ \A v : Supporters(old, v) \subseteq Voters(old)
  BY DEF Voters, Supporters, Seen
<1>2. ASSUME NEW v PROVE IsFiniteSet(Supporters(old, v)) /\ Votes(old, v) \in Nat
  BY <1>1, GroupAssumption, FS_Subset, FS_CardinalityType DEF Votes
<1> QED
  BY <1>1, <1>2

LEMMA VerdictTypes ==
    ASSUME NEW old \in [Agents -> Records \cup {None}], Seen(old) \subseteq Group,
           NEW rule \in Rules, NEW v \in Verdicts(old, rule)
    PROVE  v \in VerdictType
<1>1. PICK w \in Winners(old) :
        v = [rule |-> rule,
             achieved |-> Satisfied(rule, Votes(old, w), Cardinality(Seen(old))),
             winning_value |-> w,
             agreement_count |-> Votes(old, w),
             total_participants |-> Cardinality(Voters(old)),
             dissenting |-> Seen(old) \ Supporters(old, w)]
  BY DEF Verdicts
<1>2. w \in Values \cup {None}
  BY DEF Winners
<1>3. Votes(old, w) \in Nat /\ Cardinality(Voters(old)) \in Nat
  BY VotersInGroup, GroupAssumption, FS_Subset, FS_CardinalityType
<1>4. Satisfied(rule, Votes(old, w), Cardinality(Seen(old))) \in BOOLEAN
  BY DEF Satisfied
<1> QED
  BY <1>1, <1>2, <1>3, <1>4 DEF VerdictType

CallerTypeOK ==
    /\ call \in [Callers -> Operations \cup {None}]
    /\ at \in [Callers -> {"idle", "scan", "decide", "cancel", "cancelling",
                           "returned", "notfound", "timeout"}]
    /\ shard \in [Callers -> 1 .. Shards + 1]
    /\ seen \in [Callers -> [Agents -> Records \cup {None}]]
    /\ \A c \in Callers : Seen(seen[c]) \subseteq Group
    /\ todo \in [Callers -> SUBSET Group]
    /\ cancelled \in [Callers -> SUBSET Group]
    /\ expired \in [Callers -> BOOLEAN]
    /\ verdict \in [Callers -> VerdictType \cup {None}]
    /\ known \in [Callers -> SUBSET Group]

\* A scan ends after the last shard.
ScanBound == \A c \in Callers : at[c] = "scan" => shard[c] <= Shards

\* While cancel_group holds the mutex, it does so for one of its members, and no
\* other caller holds it.
LockOwner ==
    /\ \A c \in Callers : HoldsLock(c) => lock \in Group
    /\ \A c, d \in Callers : HoldsLock(c) /\ HoldsLock(d) => c = d

GroupTypeInv == CallerTypeOK /\ ScanBound /\ LockOwner

LEMMA StartScanType ==
    ASSUME CallerTypeOK, ScanBound, NEW c \in Callers, NEW op, StartScan(c, op)
    PROVE  /\ shard' \in [Callers -> 1 .. Shards + 1]
           /\ at' = [at EXCEPT ![c] = "scan"]
           /\ ScanBound'
           /\ seen' \in [Callers -> [Agents -> Records \cup {None}]]
           /\ \A d \in Callers : Seen(seen'[d]) \subseteq Group
           /\ known' \in [Callers -> SUBSET Group]
<1>1. Unread \in [Agents -> Records \cup {None}] /\ Seen(Unread) = {}
  BY DEF Unread, Seen
<1>2. seen' = [seen EXCEPT ![c] = Unread] /\ shard' = [shard EXCEPT ![c] = 1]
  BY DEF StartScan
<1>3. \A d \in Callers : Seen(seen'[d]) \subseteq Group
  BY <1>1, <1>2 DEF CallerTypeOK
<1>4. at' = [at EXCEPT ![c] = "scan"]
  BY DEF StartScan, MoveTo
<1>5. known' \in [Callers -> SUBSET Group]
  BY DEF StartScan, CallerTypeOK
<1>6. 1 \in 1 .. Shards + 1 /\ 1 <= Shards
  BY ShardAssumption
<1>7. shard' \in [Callers -> 1 .. Shards + 1]
  BY <1>2, <1>6 DEF CallerTypeOK
<1>8. ScanBound'
  BY <1>2, <1>4, <1>6 DEF CallerTypeOK, ScanBound
<1>9. seen' \in [Callers -> [Agents -> Records \cup {None}]]
  BY <1>1, <1>2 DEF CallerTypeOK
<1> QED
  BY <1>3, <1>4, <1>5, <1>7, <1>8, <1>9

LEMMA ReadShardType ==
    ASSUME RegistryTypeOK, CallerTypeOK, ScanBound, NEW c \in Callers, ReadShard(c)
    PROVE  CallerTypeOK' /\ ScanBound'
<1>1. shard[c] \in 1 .. Shards /\ shard' = [shard EXCEPT ![c] = shard[c] + 1]
  BY ShardAssumption DEF ReadShard, CallerTypeOK, ScanBound
<1>2. shard' \in [Callers -> 1 .. Shards + 1]
  <2>1. shard[c] + 1 \in 1 .. Shards + 1
    BY <1>1, ShardAssumption
  <2> QED
    BY <1>1, <2>1 DEF CallerTypeOK
<1>3. at' = [at EXCEPT ![c] = IF shard[c] = Shards THEN "decide" ELSE "scan"]
  BY DEF ReadShard, MoveTo
<1>4. ScanBound'
  <2>1. shard[c] # Shards => shard[c] + 1 <= Shards
    BY <1>1, ShardAssumption
  <2> QED
    BY <1>1, <1>3, <2>1 DEF ScanBound, CallerTypeOK
<1>5. seen' = [seen EXCEPT ![c] = Gather(seen[c], shard[c], Group)]
  BY DEF ReadShard, ScanGroup
<1>6. /\ Gather(seen[c], shard[c], Group) \in [Agents -> Records \cup {None}]
      /\ Seen(Gather(seen[c], shard[c], Group)) \subseteq Group
  <2>1. seen[c] \in [Agents -> Records \cup {None}] /\ Seen(seen[c]) \subseteq Group
    BY DEF CallerTypeOK
  <2>2. Gather(seen[c], shard[c], Group) \in [Agents -> Records \cup {None}]
    BY <2>1, GatherType
  <2>3. Seen(Gather(seen[c], shard[c], Group)) \subseteq Group
    BY <2>1 DEF Gather, Seen
  <2> QED
    BY <2>2, <2>3
<1>7. seen' \in [Callers -> [Agents -> Records \cup {None}]]
  BY <1>5, <1>6 DEF CallerTypeOK
<1>8. \A d \in Callers : Seen(seen'[d]) \subseteq Group
  BY <1>5, <1>6 DEF CallerTypeOK
<1> QED
  BY <1>2, <1>3, <1>4, <1>7, <1>8 DEF ReadShard, CallerTypeOK

\* Nobody else ends the cancel of a member while cancel_group holds the mutex.
LEMMA LockIsKept ==
    ASSUME TypeOK, LockOwner, SupervisorStep, NEW c \in Callers, HoldsLock(c)
    PROVE  lock' = lock
<1>1. lock \in Group /\ lock # None
  BY GroupAssumption, SupervisorAssumption DEF LockOwner
<1>2. PICK a \in Agents :
        \/ Spawn(a) \/ InsertHandle(a) \/ AbandonSpawn(a) \/ TaskStep(a)
        \/ CancelBegin(a) \/ WaitCall(a) \/ WaitPoll(a) \/ WaitReclaim(a)
        \/ Block(a) \/ Purge(a)
  BY DEF SupervisorStep, SpawnMember
<1> QED
  BY <1>1, <1>2
  DEF Spawn, InsertHandle, AbandonSpawn, CancelBegin, WaitCall, WaitPoll, WaitReclaim,
      Block, Purge, TaskStep, Start, AcquirePermit, PermitGranted, CreateContext, Enter,
      Execute, Panic, Report, Serialize, Finish, Fail, FailMessage, CleanUp, Exit, Drop,
      clientVars

LEMMA GroupTypeStep ==
    ASSUME TypeOK, GroupTypeInv, [GroupNext]_groupVars
    PROVE  GroupTypeInv'
<1> USE DEF GroupTypeInv
<1>1. CASE UNCHANGED groupVars
  BY <1>1 DEF groupVars, vars, clientVars, callerVars, CallerTypeOK, ScanBound, LockOwner, HoldsLock
<1>2. CASE SupervisorStep
  <2>1. CallerTypeOK' /\ ScanBound'
    BY <1>2 DEF SupervisorStep, callerVars, CallerTypeOK, ScanBound
  <2>2. at' = at
    BY <1>2 DEF SupervisorStep, callerVars
  <2>3. ASSUME NEW c \in Callers, HoldsLock(c) PROVE lock' = lock
    BY <1>2, <2>3, LockIsKept
  <2> QED
    BY <2>1, <2>2, <2>3 DEF LockOwner, HoldsLock
<1>3. ASSUME NEW c \in Callers, CancelMember(c) PROVE GroupTypeInv'
  <2>1. PICK a \in Agents :
          /\ a \in todo[c]
          /\ todo' = [todo EXCEPT ![c] = @ \ {a}]
          /\ \/ CancelBegin(a) /\ at' = [at EXCEPT ![c] = "cancelling"]
             \/ UNCHANGED <<vars, at>>
    BY <1>3 DEF CancelMember, NextTodo, MoveTo
  <2>2. a \in Group
    BY <2>1 DEF CallerTypeOK
  <2>3. \A d \in Callers : ~HoldsLock(d)
    BY <1>3, GroupAssumption, SupervisorAssumption DEF CancelMember, LockOwner
  <2>4. LockOwner'
    BY <2>1, <2>2, <2>3 DEF LockOwner, HoldsLock, CancelBegin, CallerTypeOK, vars, clientVars
  <2>5. CallerTypeOK' /\ ScanBound'
    BY <1>3, <2>1 DEF CancelMember, CallerTypeOK, ScanBound
  <2> QED
    BY <2>4, <2>5
<1>4. ASSUME NEW c \in Callers, CancelMemberEnd(c) PROVE GroupTypeInv'
  <2>1. PICK a \in Agents :
          /\ CancelEnd(a)
          /\ cancelled' = [cancelled EXCEPT ![c] = IF Registered(a) THEN @ \cup {a} ELSE @]
    BY <1>4 DEF CancelMemberEnd
  <2>2. HoldsLock(c) /\ at' = [at EXCEPT ![c] = "cancel"]
    BY <1>4 DEF CancelMemberEnd, HoldsLock, MoveTo
  <2>3. a \in Group
    BY <2>1, <2>2 DEF CancelEnd, LockOwner
  <2>4. \A d \in Callers : at'[d] # "cancelling"
    BY <2>2 DEF LockOwner, HoldsLock, CallerTypeOK
  <2>5. cancelled' \in [Callers -> SUBSET Group]
    BY <2>1, <2>3 DEF CallerTypeOK
  <2>6. CallerTypeOK' /\ ScanBound'
    BY <1>4, <2>2, <2>5 DEF CancelMemberEnd, CallerTypeOK, ScanBound
  <2> QED
    BY <2>4, <2>6 DEF LockOwner, HoldsLock
<1>5. ASSUME NEW c \in Callers,
             \/ GroupCall(c) \/ ReadShard(c) \/ WaitDecide(c) \/ JudgeDecide(c)
             \/ CancelGroup(c) \/ CancelReturn(c) \/ Expire(c)
      PROVE  CallerTypeOK' /\ ScanBound'
  <2>1. CASE ReadShard(c)
    BY <2>1, ReadShardType DEF TypeOK
  <2>2. CASE GroupCall(c)
    <3>1. PICK op \in Operations : call' = [call EXCEPT ![c] = op] /\ StartScan(c, op)
      BY <2>2 DEF GroupCall
    <3>2. /\ shard' \in [Callers -> 1 .. Shards + 1]
          /\ at' = [at EXCEPT ![c] = "scan"]
          /\ ScanBound'
          /\ seen' \in [Callers -> [Agents -> Records \cup {None}]]
          /\ \A d \in Callers : Seen(seen'[d]) \subseteq Group
          /\ known' \in [Callers -> SUBSET Group]
      BY <3>1, StartScanType
    <3> QED
      BY <2>2, <3>1, <3>2 DEF GroupCall, CallerTypeOK
  <2>3. ASSUME StartScan(c, call[c]), UNCHANGED <<call, todo, cancelled, expired, verdict>>
        PROVE  CallerTypeOK' /\ ScanBound'
    <3>1. /\ shard' \in [Callers -> 1 .. Shards + 1]
          /\ at' = [at EXCEPT ![c] = "scan"]
          /\ ScanBound'
          /\ seen' \in [Callers -> [Agents -> Records \cup {None}]]
          /\ \A d \in Callers : Seen(seen'[d]) \subseteq Group
          /\ known' \in [Callers -> SUBSET Group]
      BY <2>3, StartScanType
    <3> QED
      BY <2>3, <3>1 DEF CallerTypeOK
  <2>4. CASE WaitDecide(c)
    BY <2>3, <2>4 DEF WaitDecide, MoveTo, CallerTypeOK, ScanBound
  <2>5. CASE JudgeDecide(c)
    <3>1. ASSUME NEW rule \in Rules, NEW v \in Verdicts(seen[c], rule)
          PROVE  v \in VerdictType
      BY VerdictTypes DEF CallerTypeOK
    <3>2. CASE StartScan(c, call[c]) /\ UNCHANGED verdict
      BY <2>3, <2>5, <3>2 DEF JudgeDecide
    <3>3. CASE UNCHANGED <<shard, seen, known>>
      <4>1. verdict' \in [Callers -> VerdictType \cup {None}]
        BY <2>5, <3>1, <3>2, <3>3 DEF JudgeDecide, CallerTypeOK
      <4>2. CASE \E p \in {"returned", "notfound", "timeout"} : MoveTo(c, p)
        BY <2>5, <3>3, <4>1, <4>2 DEF JudgeDecide, MoveTo, CallerTypeOK, ScanBound
      <4> QED
        BY <2>5, <3>2, <4>2 DEF JudgeDecide
    <3> QED
      BY <2>5, <3>2, <3>3 DEF JudgeDecide
  <2>6. CASE CancelGroup(c)
    BY <2>6 DEF CancelGroup, MoveTo, CallerTypeOK, ScanBound
  <2>7. CASE CancelReturn(c) \/ Expire(c)
    BY <2>7 DEF CancelReturn, Expire, MoveTo, CallerTypeOK, ScanBound
  <2> QED
    BY <1>5, <2>1, <2>2, <2>4, <2>5, <2>6, <2>7
<1>6. ASSUME NEW c \in Callers,
             \/ GroupCall(c) \/ ReadShard(c) \/ WaitDecide(c) \/ JudgeDecide(c)
             \/ CancelGroup(c) \/ CancelReturn(c) \/ Expire(c)
      PROVE  LockOwner'
  <2>1. UNCHANGED vars /\ \E p : p # "cancelling" /\ at' \in {at, [at EXCEPT ![c] = p]}
    BY <1>6
    DEF GroupCall, ReadShard, WaitDecide, JudgeDecide, CancelGroup, CancelReturn, Expire,
        StartScan, MoveTo
  <2> QED
    BY <2>1 DEF LockOwner, HoldsLock, CallerTypeOK, vars, clientVars
<1> QED
  BY <1>1, <1>2, <1>3, <1>4, <1>5, <1>6 DEF GroupNext, CallerStep

LEMMA GroupTypeInvHolds == GroupSpec => []GroupTypeInv
<1>1. GroupInit => GroupTypeInv
  <2>1. Unread \in [Agents -> Records \cup {None}] /\ Seen(Unread) = {}
    BY DEF Unread, Seen
  <2> QED
    BY <2>1, ShardAssumption
    DEF GroupInit, GroupTypeInv, CallerTypeOK, ScanBound, LockOwner, HoldsLock
<1>2. TypeOK /\ GroupTypeInv /\ [GroupNext]_groupVars => GroupTypeInv'
  BY GroupTypeStep
<1> QED
  BY <1>1, <1>2, GroupsImplementSupervisor, TypeCorrect, PTL DEF GroupSpec

\* Every variable of a group call stays in its domain: what a scan collects, what
\* cancel_group cancels and what a verdict names are members of the group.
THEOREM GroupTypeCorrect == GroupSpec => []GroupTypeOK
<1>1. TypeOK /\ GroupTypeInv => GroupTypeOK
  BY Zenon DEF GroupTypeInv, CallerTypeOK, GroupTypeOK
<1> QED
  BY <1>1, GroupTypeInvHolds, GroupsImplementSupervisor, TypeCorrect, PTL

-----------------------------------------------------------------------------
(* The invariant of a group call                                           *)

\* A clone is old, but what it says of a finished agent lasts.
CloneOK(c) ==
    \A a \in Agents : seen[c][a] # None =>
        /\ SeenTerminal(seen[c], a) =>
              IF seen[c][a].state = "Cancelled" THEN a \in Outside ELSE task[a] \in PastWork
        /\ seen[c][a].state = "Done" =>
              /\ seen[c][a].result # None
              /\ task[a] \in PastWork
              /\ Registered(a) =>
                    state[a] \in {"Done", "Cancelled"} /\ result[a] = seen[c][a].result

\* The members a scan cannot have missed are where it has been.
ScanOK(c) ==
    /\ \A a \in known[c] \ Removable : Registered(a)
    /\ at[c] = "scan" =>
          \A a \in known[c] \ Removable : ShardOf[a] < shard[c] => seen[c][a] # None
    /\ at[c] \notin {"idle", "scan"} =>
          \A a \in known[c] \ Removable : seen[c][a] # None

\* What a call that has returned had found.
ReturnOK(c) ==
    /\ at[c] \in {"cancel", "cancelling"} => call[c] = "cancel_group"
    /\ at[c] = "returned" /\ call[c] = "wait_for_group" => AllTerminal(c)
    /\ verdict[c] # None =>
          /\ at[c] = "returned" /\ ~Empty(c)
          /\ AllTerminal(c) \/ verdict[c].achieved
          /\ \E rule \in Rules : verdict[c] \in Verdicts(seen[c], rule)

Reached(a) == a \in aborted \/ task[a] \in PastWork

\* cancel_group has dealt with every member it knows of, or still has it to do.
CancelOK(c) ==
    call[c] = "cancel_group" =>
        /\ \A a \in known[c] : spawner[a] = "returned"
        /\ at[c] \in {"cancel", "cancelling", "returned"} =>
              \A a \in known[c] \ (Removable \cup Blockable) : a \in todo[c] \/ Reached(a)
        /\ at[c] = "returned" => todo[c] = {}

CallInv == \A c \in Callers : CloneOK(c) /\ ScanOK(c) /\ ReturnOK(c) /\ CancelOK(c)

\* A step leaves alone what a caller keeps, or is a step of that caller.
Idle(c) ==
    /\ call'[c] = call[c] /\ at'[c] = at[c] /\ shard'[c] = shard[c] /\ seen'[c] = seen[c]
    /\ todo'[c] = todo[c] /\ verdict'[c] = verdict[c] /\ known'[c] = known[c]

LEMMA WhoMoves ==
    ASSUME CallerTypeOK, [GroupNext]_groupVars, NEW c \in Callers
    PROVE  \/ Idle(c)
           \/ GroupCall(c) \/ ReadShard(c) \/ WaitDecide(c) \/ JudgeDecide(c)
           \/ CancelGroup(c) \/ CancelMember(c) \/ CancelMemberEnd(c) \/ CancelReturn(c)
<1> USE DEF Idle
<1>1. CASE UNCHANGED groupVars \/ SupervisorStep
  BY <1>1 DEF groupVars, callerVars, SupervisorStep
<1>2. ASSUME NEW d \in Callers, d # c,
             GroupCall(d) \/ ReadShard(d) \/ WaitDecide(d) \/ JudgeDecide(d) \/ Expire(d)
      PROVE  Idle(c)
  BY <1>2
  DEF CallerTypeOK, GroupCall, ReadShard, WaitDecide, JudgeDecide, Expire, StartScan, MoveTo
<1>3. ASSUME NEW d \in Callers, d # c,
             CancelGroup(d) \/ CancelMember(d) \/ CancelMemberEnd(d) \/ CancelReturn(d)
      PROVE  Idle(c)
  BY <1>3
  DEF CallerTypeOK, CancelGroup, CancelMember, CancelMemberEnd, CancelReturn, MoveTo
<1>4. CASE Expire(c)
  BY <1>4 DEF Expire
<1> QED
  BY <1>1, <1>2, <1>3, <1>4 DEF GroupNext, CallerStep

\* With a new scan the call knows nothing yet.
LEMMA NewScan ==
    ASSUME SupervisorInv, CallerTypeOK, NEW c \in Callers, NEW op, StartScan(c, op),
           UNCHANGED vars, verdict[c] = None, verdict'[c] = None, call'[c] = op
    PROVE  CloneOK(c)' /\ ScanOK(c)' /\ ReturnOK(c)' /\ CancelOK(c)'
<1>1. /\ at'[c] = "scan" /\ shard'[c] = 1 /\ seen'[c] = Unread
      /\ known'[c] = {a \in Group : IF op = "cancel_group" THEN spawner[a] = "returned"
                                                          ELSE Registered(a)}
  BY DEF StartScan, MoveTo, CallerTypeOK
<1>2. UNCHANGED <<state, spawner, task>>
  BY DEF vars, registryVars, taskVars, clientVars
<1>3. \A a \in Agents : seen'[c][a] = None
  BY <1>1 DEF Unread
<1>4. CloneOK(c)'
  BY <1>3 DEF CloneOK
<1>5. \A a \in known'[c] \ Removable : Registered(a)'
  <2> SUFFICES ASSUME NEW a \in known'[c] \ Removable PROVE Registered(a)
    BY <1>2 DEF Registered
  <2>1. a \in Agents
    BY <1>1, GroupAssumption
  <2>2. spawner[a] = "returned" => task[a] # "none"
    BY <2>1 DEF SupervisorInv, SpawnOrder
  <2> QED
    BY <1>1, <2>1, <2>2 DEF SupervisorInv, OutsideInv
<1>6. ScanOK(c)'
  <2>1. \A a \in known'[c] : ~(ShardOf[a] < shard'[c])
    BY <1>1, GroupAssumption, ShardAssumption
  <2> QED
    BY <1>1, <1>5, <2>1 DEF ScanOK
<1>7. ReturnOK(c)'
  BY <1>1 DEF ReturnOK
<1>8. CancelOK(c)'
  BY <1>1, <1>2 DEF CancelOK
<1> QED
  BY <1>4, <1>6, <1>7, <1>8

\* Old clones stay right whatever the supervisor does.
LEMMA ClonesLast ==
    ASSUME SupervisorInv, [Next]_vars, NEW c \in Callers, CloneOK(c), seen'[c] = seen[c]
    PROVE  CloneOK(c)'
<1> SUFFICES ASSUME NEW a \in Agents, seen[c][a] # None
             PROVE  /\ SeenTerminal(seen[c], a) =>
                          IF seen[c][a].state = "Cancelled" THEN a \in Outside'
                          ELSE task'[a] \in PastWork
                    /\ seen[c][a].state = "Done" =>
                          /\ seen[c][a].result # None
                          /\ task'[a] \in PastWork
                          /\ Registered(a)' =>
                                /\ state'[a] \in {"Done", "Cancelled"}
                                /\ result'[a] = seen[c][a].result
  BY DEF CloneOK, SeenTerminal, PastWork, Stopped
<1>1. aborted \subseteq aborted' /\ (task[a] \in PastWork => task'[a] \in PastWork)
  BY Lasting, PastWorkStays DEF SupervisorInv
<1>2. task[a] \in PastWork =>
        /\ state'[a] \in {state[a], "Cancelled", "Absent"}
        /\ state[a] = "Absent" => state'[a] = "Absent"
        /\ result'[a] = result[a] \/ state'[a] = "Absent"
  BY RecordAfterWork DEF SupervisorInv
<1> QED
  BY <1>1, <1>2 DEF CloneOK, Outside, Registered

LEMMA ClonesRead ==
    ASSUME SupervisorInv, CallerTypeOK, NEW c \in Callers, CloneOK(c), ReadShard(c)
    PROVE  CloneOK(c)'
<1>1. UNCHANGED <<state, result, error, task, aborted>>
  BY DEF ReadShard, vars, registryVars, taskVars
<1>2. seen'[c] = Gather(seen[c], shard[c], Group)
  BY DEF ReadShard, ScanGroup, CallerTypeOK
<1> SUFFICES ASSUME NEW a \in Agents, seen'[c][a] # None
             PROVE  /\ SeenTerminal(seen'[c], a) =>
                          IF seen'[c][a].state = "Cancelled" THEN a \in Outside
                          ELSE task[a] \in PastWork
                    /\ seen'[c][a].state = "Done" =>
                          /\ seen'[c][a].result # None
                          /\ task[a] \in PastWork
                          /\ Registered(a) =>
                                /\ state[a] \in {"Done", "Cancelled"}
                                /\ result[a] = seen'[c][a].result
  BY <1>1 DEF CloneOK, SeenTerminal, PastWork, Stopped, Outside, Registered
<1>3. CASE seen'[c][a] = Record(a)
  <2>1. seen'[c][a].state = state[a] /\ seen'[c][a].result = result[a]
    BY <1>3 DEF Record
  <2>2. Terminal(a) => IF state[a] = "Cancelled" THEN a \in Outside ELSE task[a] \in PastWork
    <3>1. state[a] = "Cancelled" => a \in Outside
      BY DEF SupervisorInv, OutsideInv
    <3>2. state[a] \in {"Done", "Error"} => task[a] \in PastWork
      BY DEF SupervisorInv, RecordInv, StateMatchesTask, StatesAt, PastWork, Stopped
    <3> QED
      BY <3>1, <3>2 DEF Terminal, TerminalStates
  <2>3. state[a] = "Done" => result[a] # None /\ task[a] \in PastWork
    BY DEF SupervisorInv, RecordInv, ResultOrder, StateMatchesTask, StatesAt, PastWork, Stopped
  <2> QED
    BY <2>1, <2>2, <2>3 DEF SeenTerminal, Terminal
<1>4. CASE seen'[c][a] = seen[c][a]
  BY <1>4 DEF CloneOK, SeenTerminal
<1> QED
  BY <1>2, <1>3, <1>4 DEF Gather

\* What is known of a member stays so.
LEMMA KnownLasts ==
    ASSUME SupervisorInv, CallerTypeOK, [Next]_vars, NEW c \in Callers
    PROVE  \A a \in known[c] : /\ Registered(a) /\ a \notin Removable => Registered(a)'
                               /\ Reached(a) => Reached(a)'
                               /\ spawner[a] = "returned" => spawner'[a] = "returned"
<1> SUFFICES ASSUME NEW a \in Agents
             PROVE  /\ Registered(a) /\ a \notin Removable => Registered(a)'
                    /\ Reached(a) => Reached(a)'
                    /\ spawner[a] = "returned" => spawner'[a] = "returned"
  BY GroupAssumption DEF CallerTypeOK
<1> QED
  BY Lasting, PastWorkStays DEF SupervisorInv, Reached, PastWork, Stopped

\* A caller that does not move keeps its invariant.
LEMMA IdleStep ==
    ASSUME SupervisorInv, CallerTypeOK, [Next]_vars, NEW c \in Callers, Idle(c),
           CloneOK(c), ScanOK(c), ReturnOK(c), CancelOK(c)
    PROVE  CloneOK(c)' /\ ScanOK(c)' /\ ReturnOK(c)' /\ CancelOK(c)'
<1> USE DEF Idle
<1>1. CloneOK(c)'
  BY ClonesLast
<1>2. \A a \in known[c] : /\ Registered(a) /\ a \notin Removable => Registered(a)'
                          /\ Reached(a) => Reached(a)'
                          /\ spawner[a] = "returned" => spawner'[a] = "returned"
  BY KnownLasts
<1>3. ScanOK(c)'
  BY <1>2 DEF ScanOK
<1>4. ReturnOK(c)'
  BY DEF ReturnOK, AllTerminal, SeenTerminal, Empty
<1>5. CancelOK(c)'
  BY <1>2 DEF CancelOK
<1> QED
  BY <1>1, <1>3, <1>4, <1>5

LEMMA ReadShardStep ==
    ASSUME SupervisorInv, CallerTypeOK, ScanBound, NEW c \in Callers, ReadShard(c),
           CloneOK(c), ScanOK(c), ReturnOK(c), CancelOK(c)
    PROVE  CloneOK(c)' /\ ScanOK(c)' /\ ReturnOK(c)' /\ CancelOK(c)'
<1>1. CloneOK(c)'
  BY ClonesRead
<1>2. /\ at[c] = "scan" /\ at'[c] = (IF shard[c] = Shards THEN "decide" ELSE "scan")
      /\ shard'[c] = shard[c] + 1 /\ shard[c] \in 1 .. Shards
      /\ seen'[c] = Gather(seen[c], shard[c], Group)
      /\ call'[c] = call[c] /\ verdict'[c] = verdict[c] /\ known'[c] = known[c]
      /\ UNCHANGED <<state, spawner>>
  <2>1. shard[c] \in 1 .. Shards
    BY ShardAssumption DEF ReadShard, CallerTypeOK, ScanBound
  <2> QED
    BY <2>1 DEF ReadShard, ScanGroup, MoveTo, CallerTypeOK, vars, registryVars, clientVars
<1>3. ASSUME NEW a \in known[c] \ Removable
      PROVE  /\ Registered(a) /\ Registered(a)'
             /\ ShardOf[a] <= shard[c] => seen'[c][a] # None
  <2>1. a \in Agents /\ a \in Group /\ Registered(a)
    BY GroupAssumption DEF CallerTypeOK, ScanOK
  <2>2. Record(a) # None
    BY <2>1, RecordAssumption
    DEF SupervisorInv, TypeOK, RegistryTypeOK, Record, Records, Registered
  <2>3. ShardOf[a] \in 1 .. Shards
    BY <2>1, ShardAssumption
  <2>4. CASE ShardOf[a] = shard[c]
    BY <1>2, <2>1, <2>2, <2>4 DEF Gather, Registered
  <2>5. CASE ShardOf[a] < shard[c]
    BY <1>2, <2>1, <2>2, <2>5 DEF Gather, ScanOK, Registered
  <2> QED
    BY <1>2, <2>1, <2>3, <2>4, <2>5, ShardAssumption DEF Registered
<1>4. ScanOK(c)'
  <2>1. \A a \in known[c] \ Removable : ShardOf[a] \in 1 .. Shards
    BY GroupAssumption, ShardAssumption DEF CallerTypeOK
  <2>2. \A a \in known[c] \ Removable : ShardOf[a] < shard'[c] => ShardOf[a] <= shard[c]
    BY <1>2, <2>1, ShardAssumption
  <2>3. shard[c] = Shards => \A a \in known[c] \ Removable : ShardOf[a] <= shard[c]
    BY <1>2, <2>1, ShardAssumption
  <2> QED
    BY <1>2, <1>3, <2>2, <2>3 DEF ScanOK
<1>5. ReturnOK(c)'
  BY <1>2 DEF ReturnOK
<1>6. CancelOK(c)'
  BY <1>2 DEF CancelOK
<1> QED
  BY <1>1, <1>4, <1>5, <1>6

LEMMA GroupCallStep ==
    ASSUME SupervisorInv, CallerTypeOK, NEW c \in Callers, GroupCall(c), ReturnOK(c)
    PROVE  CloneOK(c)' /\ ScanOK(c)' /\ ReturnOK(c)' /\ CancelOK(c)'
<1>1. PICK op \in Operations : call' = [call EXCEPT ![c] = op] /\ StartScan(c, op)
  BY DEF GroupCall
<1>2. UNCHANGED vars /\ verdict[c] = None /\ verdict'[c] = None /\ call'[c] = op
  BY <1>1 DEF GroupCall, ReturnOK, CallerTypeOK
<1> QED
  BY <1>1, <1>2, NewScan

\* A decision that leaves the clones alone only has to be justified.
LEMMA DecideStep ==
    ASSUME SupervisorInv, CallerTypeOK, NEW c \in Callers, at[c] = "decide",
           at'[c] \in {"returned", "notfound", "timeout"}, call[c] # "cancel_group",
           UNCHANGED <<vars, call, shard, seen, known>>,
           CloneOK(c), ScanOK(c), ReturnOK(c)'
    PROVE  CloneOK(c)' /\ ScanOK(c)' /\ ReturnOK(c)' /\ CancelOK(c)'
<1>1. UNCHANGED <<state, result, task, aborted>>
  BY DEF vars, registryVars, taskVars
<1>2. CloneOK(c)'
  BY <1>1 DEF CloneOK, SeenTerminal, Outside, Registered
<1>3. ScanOK(c)'
  BY <1>1 DEF ScanOK, Registered
<1>4. CancelOK(c)'
  BY DEF CancelOK
<1> QED
  BY <1>2, <1>3, <1>4

LEMMA WaitDecideStep ==
    ASSUME SupervisorInv, CallerTypeOK, NEW c \in Callers, WaitDecide(c),
           CloneOK(c), ScanOK(c), ReturnOK(c)
    PROVE  CloneOK(c)' /\ ScanOK(c)' /\ ReturnOK(c)' /\ CancelOK(c)'
<1>1. /\ at[c] = "decide" /\ call[c] = "wait_for_group" /\ verdict[c] = None
      /\ UNCHANGED <<vars, call, verdict>>
  BY DEF WaitDecide, ReturnOK
<1>2. CASE StartScan(c, call[c])
  BY <1>1, <1>2, NewScan
<1>3. CASE /\ UNCHANGED <<shard, seen, known>>
           /\ MoveTo(c, "notfound") \/ (AllTerminal(c) /\ MoveTo(c, "returned"))
  <2>1. at'[c] = "notfound" \/ (AllTerminal(c) /\ at'[c] = "returned")
    BY <1>3 DEF MoveTo, CallerTypeOK
  <2>2. ReturnOK(c)'
    BY <1>1, <1>3, <2>1 DEF ReturnOK, AllTerminal, SeenTerminal
  <2> QED
    BY <1>1, <1>3, <2>1, <2>2, DecideStep
<1> QED
  BY <1>2, <1>3 DEF WaitDecide

LEMMA JudgeDecideStep ==
    ASSUME SupervisorInv, CallerTypeOK, NEW c \in Callers, JudgeDecide(c),
           CloneOK(c), ScanOK(c), ReturnOK(c)
    PROVE  CloneOK(c)' /\ ScanOK(c)' /\ ReturnOK(c)' /\ CancelOK(c)'
<1>1. /\ at[c] = "decide" /\ call[c] = "await_consensus" /\ verdict[c] = None
      /\ UNCHANGED <<vars, call>>
  BY DEF JudgeDecide, ReturnOK
<1>2. CASE StartScan(c, call[c]) /\ UNCHANGED verdict
  BY <1>1, <1>2, NewScan
<1>3. CASE /\ UNCHANGED <<shard, seen, known, verdict>>
           /\ MoveTo(c, "notfound") \/ MoveTo(c, "timeout")
  <2>1. at'[c] \in {"notfound", "timeout"}
    BY <1>3 DEF MoveTo, CallerTypeOK
  <2>2. ReturnOK(c)'
    BY <1>1, <1>3, <2>1 DEF ReturnOK
  <2> QED
    BY <1>1, <1>3, <2>1, <2>2, DecideStep
<1>4. CASE /\ UNCHANGED <<shard, seen, known>>
           /\ MoveTo(c, "returned") /\ ~Empty(c)
           /\ \E rule \in Rules : \E v \in Verdicts(seen[c], rule) :
                 (AllTerminal(c) \/ v.achieved) /\ verdict' = [verdict EXCEPT ![c] = v]
  <2>1. \E rule \in Rules :
          /\ verdict'[c] \in Verdicts(seen[c], rule)
          /\ AllTerminal(c) \/ verdict'[c].achieved
    BY <1>4 DEF CallerTypeOK
  <2>2. at'[c] = "returned"
    BY <1>4 DEF MoveTo, CallerTypeOK
  <2>3. ReturnOK(c)'
    BY <1>1, <1>4, <2>1, <2>2 DEF ReturnOK, AllTerminal, SeenTerminal, Empty
  <2> QED
    BY <1>1, <1>4, <2>2, <2>3, DecideStep
<1> QED
  BY <1>2, <1>3, <1>4 DEF JudgeDecide

LEMMA CancelGroupStep ==
    ASSUME SupervisorInv, CallerTypeOK, NEW c \in Callers, CancelGroup(c),
           CloneOK(c), ScanOK(c), ReturnOK(c), CancelOK(c)
    PROVE  CloneOK(c)' /\ ScanOK(c)' /\ ReturnOK(c)' /\ CancelOK(c)'
<1>1. /\ at[c] = "decide" /\ at'[c] = "cancel" /\ call[c] = "cancel_group"
      /\ todo'[c] = {a \in Seen(seen[c]) : ~SeenTerminal(seen[c], a)}
      /\ UNCHANGED <<vars, call, shard, seen, verdict, known>>
  BY DEF CancelGroup, MoveTo, CallerTypeOK
<1>2. UNCHANGED <<state, result, task, aborted, spawner>>
  BY <1>1 DEF vars, registryVars, taskVars, clientVars
<1>3. CloneOK(c)'
  BY <1>1, <1>2 DEF CloneOK, SeenTerminal, Outside, Registered
<1>4. ScanOK(c)'
  BY <1>1, <1>2 DEF ScanOK, Registered
<1>5. ReturnOK(c)'
  BY <1>1 DEF ReturnOK
<1>6. CancelOK(c)'
  <2>1. ASSUME NEW a \in known[c] \ (Removable \cup Blockable)
        PROVE  a \in todo'[c] \/ Reached(a)'
    <3>1. a \in Agents /\ seen[c][a] # None
      BY <1>1, GroupAssumption DEF CallerTypeOK, ScanOK
    <3>2. SeenTerminal(seen[c], a) => Reached(a)
      BY <3>1 DEF CloneOK, Outside, Reached
    <3> QED
      BY <1>1, <1>2, <3>1, <3>2 DEF Seen, Reached
  <2> QED
    BY <1>1, <1>2, <2>1 DEF CancelOK
<1> QED
  BY <1>3, <1>4, <1>5, <1>6

\* An agent without a handle is out of reach for a reason.
LEMMA NoHandle ==
    ASSUME SupervisorInv, NEW a \in Agents, spawner[a] = "returned", a \notin handles,
           a \notin Blockable
    PROVE  Reached(a)
BY DEF SupervisorInv, LiveTaskHasHandle, OutsideInv, Outside, Reached, PastWork, Stopped

LEMMA CancelMemberStep ==
    ASSUME SupervisorInv, CallerTypeOK, [Next]_vars, NEW c \in Callers, CancelMember(c),
           CloneOK(c), ScanOK(c), ReturnOK(c), CancelOK(c)
    PROVE  CloneOK(c)' /\ ScanOK(c)' /\ ReturnOK(c)' /\ CancelOK(c)'
<1>1. PICK b \in Agents :
        /\ todo'[c] = todo[c] \ {b}
        /\ \/ CancelBegin(b) /\ at'[c] = "cancelling"
           \/ b \notin handles /\ at'[c] = "cancel"
  BY DEF CancelMember, MoveTo, CallerTypeOK
<1>2. /\ at[c] = "cancel"
      /\ UNCHANGED <<call, shard, seen, verdict, known>>
  BY DEF CancelMember
<1>3. CloneOK(c)'
  BY <1>2, ClonesLast
<1>4. \A a \in known[c] : /\ Registered(a) /\ a \notin Removable => Registered(a)'
                          /\ Reached(a) => Reached(a)'
                          /\ spawner[a] = "returned" => spawner'[a] = "returned"
  BY KnownLasts
<1>5. ScanOK(c)'
  BY <1>1, <1>2, <1>4 DEF ScanOK
<1>6. ReturnOK(c)'
  BY <1>1, <1>2 DEF ReturnOK
<1>7. b \in known[c] \ (Removable \cup Blockable) => Reached(b)'
  <2>1. CASE CancelBegin(b)
    BY <2>1 DEF CancelBegin, Reached
  <2>2. CASE b \notin handles
    BY <1>2, <1>4, <2>2, NoHandle DEF CancelOK, ReturnOK
  <2> QED
    BY <1>1, <2>1, <2>2
<1>8. CancelOK(c)'
  BY <1>1, <1>2, <1>4, <1>7 DEF CancelOK, ReturnOK
<1> QED
  BY <1>3, <1>5, <1>6, <1>8

\* Neither the end of a single cancel nor the end of the list changes what is known.
LEMMA CancelEndStep ==
    ASSUME SupervisorInv, CallerTypeOK, [Next]_vars, NEW c \in Callers,
           CancelMemberEnd(c) \/ CancelReturn(c),
           CloneOK(c), ScanOK(c), ReturnOK(c), CancelOK(c)
    PROVE  CloneOK(c)' /\ ScanOK(c)' /\ ReturnOK(c)' /\ CancelOK(c)'
<1>1. /\ at[c] \in {"cancel", "cancelling"}
      /\ at'[c] = "cancel" \/ (at'[c] = "returned" /\ todo[c] = {})
      /\ UNCHANGED <<call, shard, seen, todo, verdict, known>>
  BY DEF CancelMemberEnd, CancelReturn, MoveTo, CallerTypeOK
<1>2. CloneOK(c)'
  BY <1>1, ClonesLast
<1>3. \A a \in known[c] : /\ Registered(a) /\ a \notin Removable => Registered(a)'
                          /\ Reached(a) => Reached(a)'
                          /\ spawner[a] = "returned" => spawner'[a] = "returned"
  BY KnownLasts
<1>4. ScanOK(c)'
  BY <1>1, <1>3 DEF ScanOK
<1>5. ReturnOK(c)'
  BY <1>1 DEF ReturnOK
<1>6. CancelOK(c)'
  BY <1>1, <1>3 DEF CancelOK
<1> QED
  BY <1>2, <1>4, <1>5, <1>6

LEMMA CallInvHolds == GroupSpec => []CallInv
<1>1. GroupInit => CallInv
  BY DEF GroupInit, CallInv, CloneOK, ScanOK, ReturnOK, CancelOK, Unread
<1>2. ASSUME SupervisorInv, GroupTypeInv, CallInv, [GroupNext]_groupVars
      PROVE  CallInv'
  <2> SUFFICES ASSUME NEW c \in Callers
               PROVE  CloneOK(c)' /\ ScanOK(c)' /\ ReturnOK(c)' /\ CancelOK(c)'
    BY DEF CallInv
  <2>1. CallerTypeOK /\ ScanBound /\ [Next]_vars
    BY <1>2, GroupStepIsStep DEF GroupTypeInv
  <2>2. CloneOK(c) /\ ScanOK(c) /\ ReturnOK(c) /\ CancelOK(c)
    BY <1>2 DEF CallInv
  <2>3. CASE Idle(c)
    BY <1>2, <2>1, <2>2, <2>3, IdleStep
  <2>4. CASE GroupCall(c)
    BY <1>2, <2>1, <2>2, <2>4, GroupCallStep
  <2>5. CASE ReadShard(c)
    BY <1>2, <2>1, <2>2, <2>5, ReadShardStep
  <2>6. CASE WaitDecide(c)
    BY <1>2, <2>1, <2>2, <2>6, WaitDecideStep
  <2>7. CASE JudgeDecide(c)
    BY <1>2, <2>1, <2>2, <2>7, JudgeDecideStep
  <2>8. CASE CancelGroup(c)
    BY <1>2, <2>1, <2>2, <2>8, CancelGroupStep
  <2>9. CASE CancelMember(c)
    BY <1>2, <2>1, <2>2, <2>9, CancelMemberStep
  <2>10. CASE CancelMemberEnd(c) \/ CancelReturn(c)
    BY <1>2, <2>1, <2>2, <2>10, CancelEndStep
  <2> QED
    BY <1>2, <2>1, <2>3, <2>4, <2>5, <2>6, <2>7, <2>8, <2>9, <2>10, WhoMoves
<1> QED
  BY <1>1, <1>2, SupervisorInvHolds, GroupTypeInvHolds, PTL DEF GroupSpec

-----------------------------------------------------------------------------
(* What group calls promise                                                *)

\* A group call that has ended had seen every member that kept its record through
\* the last scan, and wait_for_group comes back only when those members are past
\* their work or were declared terminal from outside.
THEOREM GroupWaitsAreSound == GroupSpec => []GroupWaitSound
<1>1. ASSUME CallerTypeOK, CallInv PROVE GroupWaitSound
  <2> SUFFICES ASSUME NEW c \in Callers
               PROVE  /\ at[c] \in {"returned", "notfound", "timeout"} =>
                            known[c] \ Removable \subseteq Seen(seen[c])
                      /\ at[c] = "returned" /\ call[c] = "wait_for_group" =>
                            \A a \in known[c] \ (Removable \cup Blockable \cup aborted) :
                                task[a] \in PastWork
    BY DEF GroupWaitSound
  <2>1. CloneOK(c) /\ ScanOK(c) /\ ReturnOK(c) /\ known[c] \subseteq Agents
    BY <1>1, GroupAssumption DEF CallInv, CallerTypeOK
  <2> QED
    BY <2>1 DEF CloneOK, ScanOK, ReturnOK, AllTerminal, Seen, Outside
<1> QED
  BY <1>1, GroupTypeInvHolds, CallInvHolds, PTL DEF GroupTypeInv

\* No vote that went into a verdict is taken back: the agent keeps the result it
\* was counted with, and its record is Done, or Cancelled from outside, or gone.
THEOREM VotesAreKept == GroupSpec => []VotesStand
<1>1. CallInv => VotesStand
  BY DEF CallInv, CloneOK, VotesStand, Voters, Seen
<1> QED
  BY <1>1, CallInvHolds, PTL

\* await_consensus returns "not achieved" only when it has seen every member that
\* the scan cannot have missed, and each one is past its work or was seen Cancelled,
\* which it can only be from outside.
THEOREM DissentFinal == GroupSpec => []DissentIsFinal
<1>1. ASSUME CallerTypeOK, CallInv PROVE DissentIsFinal
  <2> SUFFICES ASSUME NEW c \in Callers, verdict[c] # None, ~verdict[c].achieved
               PROVE  /\ known[c] \ Removable \subseteq Seen(seen[c])
                      /\ \A a \in Seen(seen[c]) :
                            IF seen[c][a].state = "Cancelled" THEN a \in aborted \cup Blockable
                            ELSE task[a] \in PastWork
    BY DEF DissentIsFinal
  <2>1. CloneOK(c) /\ ScanOK(c) /\ ReturnOK(c) /\ known[c] \subseteq Agents
    BY <1>1, GroupAssumption DEF CallInv, CallerTypeOK
  <2>2. at[c] = "returned" /\ AllTerminal(c)
    BY <2>1 DEF ReturnOK
  <2>3. known[c] \ Removable \subseteq Seen(seen[c])
    BY <2>1, <2>2 DEF ScanOK, Seen
  <2>4. ASSUME NEW a \in Seen(seen[c])
        PROVE  IF seen[c][a].state = "Cancelled" THEN a \in Outside ELSE task[a] \in PastWork
    BY <2>1, <2>2 DEF CloneOK, AllTerminal, Seen
  <2> QED
    BY <2>3, <2>4 DEF Outside
<1> QED
  BY <1>1, GroupTypeInvHolds, CallInvHolds, PTL DEF GroupTypeInv

\* cancel_group flags or finds past its work every member whose spawn had returned
\* when it was called, unless the record was removed or blocked.
THEOREM CancelsReachTheGroup == GroupSpec => []CancelGroupReaches
<1>1. CallInv => CancelGroupReaches
  BY DEF CallInv, CancelOK, CancelGroupReaches, Reached
<1> QED
  BY <1>1, CallInvHolds, PTL

-----------------------------------------------------------------------------
(* The arithmetic of the consensus rules                                   *)

LEMMA CeilCovers ==
    ASSUME NEW m \in Nat, NEW den \in Nat \ {0}, NEW k \in Nat,
           k >= (m + den - 1) \div den
    PROVE  k * den >= m
<1> DEFINE q == (m + den - 1) \div den
<1>1. q \in Nat /\ q * den > m - 1
  OBVIOUS
<1>2. k * den >= q * den
  BY <1>1
<1> QED
  BY <1>1, <1>2

\* One less than the integer above a product, where the product is that close to the
\* integer below, falls short by one part in Precision.
LEMMA FloorNearlyCovers ==
    ASSUME NEW m \in Nat, NEW den \in Nat \ {0}, NEW k \in Nat,
           m % den > 0, (m % den) * Precision <= m,
           k >= (m + den - 1) \div den - 1
    PROVE  k * den * Precision >= m * (Precision - 1)
<1> DEFINE rest == m % den
           q == m \div den
           P == Precision
<1>1. /\ q \in Nat /\ rest \in 1 .. den - 1 /\ m = q * den + rest
      /\ rest * P <= m
  OBVIOUS
<1>2. (m + den - 1) \div den = q + 1
  OBVIOUS
<1>3. P \in Nat \ {0}
  BY ConsensusAssumption
<1> HIDE DEF rest, q, P
<1>4. k >= q
  BY <1>1, <1>2
<1>5. k * den >= m - rest
  <2>1. k * den >= q * den
    BY <1>1, <1>4
  <2> QED
    BY <1>1, <2>1
<1>6. k * den * P >= (m - rest) * P
  <2> DEFINE x == k * den
             y == m - rest
  <2>1. x \in Int /\ y \in Int /\ x >= y
    BY <1>1, <1>5
  <2> HIDE DEF x, y
  <2>2. x * P >= y * P
    BY <1>3, <2>1
  <2> QED
    BY <2>2 DEF x, y
<1>7. (m - rest) * P = m * P - rest * P /\ m * (P - 1) = m * P - m
  BY <1>1, <1>3
<1>8. m * P \in Int /\ rest * P \in Int /\ k * den * P \in Int
  BY <1>1, <1>3
<1> QED
  BY <1>1, <1>6, <1>7, <1>8 DEF P

\* is_satisfied never holds with less support than the rule asks for, up to the
\* precision of the product.
LEMMA SatisfiedMeansNear ==
    ASSUME NEW rule, IsRule(rule), NEW k \in Nat, NEW n \in Nat, Satisfied(rule, k, n)
    PROVE  NearAgreement(rule, k, n)
<1> USE DEF Satisfied, NearAgreement, Agreement
<1>1. CASE rule = Majority
  BY <1>1 DEF Majority
<1>2. CASE rule = Unanimous
  BY <1>2 DEF Unanimous
<1>3. CASE rule = Any
  BY <1>3 DEF Any
<1>4. CASE rule.kind = "MinAgree" /\ rule.n \in Nat
  BY <1>4
<1>5. CASE rule.kind = "Quorum" /\ rule.num <= 0 /\ rule.num \in Int /\ rule.den \in Nat
  <2>1. rule.num * n <= 0 /\ k * rule.den >= 0
    BY <1>5
  <2>2. rule.num * n \in Int /\ k * rule.den \in Int
    BY <1>5
  <2> QED
    BY <1>5, <2>1, <2>2
<1>6. CASE /\ rule.kind = "Quorum" /\ rule.num \in Nat \ {0} /\ rule.den \in Nat
           /\ \A total \in rule.down : MayRoundDown(rule, total)
  <2>1. rule.den \in Nat \ {0} /\ k >= Required(rule, n) /\ rule.num * n \in Nat
    BY <1>6 DEF QuorumReached
  <2>2. CASE n \in rule.down
    <3>1. (rule.num * n) % rule.den > 0 /\ ((rule.num * n) % rule.den) * Precision <= rule.num * n
      BY <1>6, <2>2 DEF MayRoundDown
    <3>2. k >= (rule.num * n + rule.den - 1) \div rule.den - 1
      BY <2>1, <2>2 DEF Required
    <3>3. k * rule.den * Precision >= rule.num * n * (Precision - 1)
      BY <2>1, <3>1, <3>2, FloorNearlyCovers
    <3> QED
      BY <1>6, <3>3
  <2>3. CASE n \notin rule.down
    <3>1. k >= (rule.num * n + rule.den - 1) \div rule.den
      BY <2>1, <2>3 DEF Required
    <3>2. k * rule.den >= rule.num * n
      BY <2>1, <3>1, CeilCovers
    <3> QED
      BY <1>6, <3>2
  <2> QED
    BY <2>2, <2>3
<1>7. CASE /\ rule.kind = "Quorum" /\ rule.num \in Int /\ rule.den \in Nat
           /\ \A total \in rule.down : MayRoundDown(rule, total)
  <2>1. rule.num <= 0 \/ rule.num \in Nat \ {0}
    BY <1>7
  <2> QED
    BY <1>5, <1>6, <1>7, <2>1
<1> QED
  BY <1>1, <1>2, <1>3, <1>4, <1>7 DEF IsRule

LEMMA CeilIsExact ==
    ASSUME NEW m \in Nat, NEW den \in Nat \ {0}, NEW k \in Nat, k * den >= m
    PROVE  k >= (m + den - 1) \div den
<1> DEFINE q == (m + den - 1) \div den
<1>1. q \in Nat /\ q * den <= m + den - 1
  OBVIOUS
<1>2. ASSUME q >= k + 1 PROVE FALSE
  <2>1. q * den >= (k + 1) * den
    BY <1>1, <1>2
  <2>2. (k + 1) * den = k * den + den
    OBVIOUS
  <2>3. k * den \in Nat /\ q * den \in Nat
    BY <1>1
  <2> QED
    BY <1>1, <2>1, <2>2, <2>3
<1> QED
  BY <1>1, <1>2

\* Nor does it ask for more.
LEMMA AgreementMeansSatisfied ==
    ASSUME NEW rule, IsRule(rule), NEW n \in Nat \ {0}, NEW k \in 0 .. n, Agreement(rule, k, n)
    PROVE  Satisfied(rule, k, n)
<1> USE DEF Satisfied, Agreement
<1>1. CASE rule = Majority
  BY <1>1 DEF Majority
<1>2. CASE rule = Unanimous
  BY <1>2 DEF Unanimous
<1>3. CASE rule = Any
  BY <1>3 DEF Any
<1>4. CASE rule.kind = "MinAgree" /\ rule.n \in Nat
  BY <1>4
<1>5. CASE rule.kind = "Quorum" /\ rule.num <= 0
  BY <1>5 DEF QuorumReached
<1>6. CASE rule.kind = "Quorum" /\ rule.num \in Nat \ {0} /\ rule.den \in Nat
  <2> DEFINE m == rule.num * n
  <2>1. k * rule.den >= m /\ m \in Nat \ {0} /\ k \in Nat
    BY <1>6
  <2>2. rule.den # 0
    <3>1. rule.den = 0 => k * rule.den = 0
      BY <2>1
    <3> QED
      BY <2>1, <3>1
  <2>3. k >= (m + rule.den - 1) \div rule.den
    <3> HIDE DEF m
    <3> QED
      BY <1>6, <2>1, <2>2, CeilIsExact
  <2>4. k >= Required(rule, n)
    <3>1. (m + rule.den - 1) \div rule.den \in Int
      BY <1>6, <2>1, <2>2
    <3> QED
      BY <2>1, <2>3, <3>1 DEF Required
  <2> QED
    BY <1>6, <2>2, <2>4 DEF QuorumReached
<1>7. CASE /\ rule.kind = "Quorum" /\ rule.num \in Int /\ rule.den \in Nat
           /\ \A total \in rule.down : MayRoundDown(rule, total)
  <2>1. rule.num <= 0 \/ rule.num \in Nat \ {0}
    BY <1>7
  <2> QED
    BY <1>5, <1>6, <1>7, <2>1
<1> QED
  BY <1>1, <1>2, <1>3, <1>4, <1>7 DEF IsRule

\* More support never hurts.
LEMMA AgreementGrows ==
    ASSUME NEW rule, IsRule(rule), NEW n \in Nat, NEW k \in Nat, NEW l \in Nat, k <= l,
           Agreement(rule, k, n)
    PROVE  Agreement(rule, l, n)
<1> USE DEF Agreement
<1>1. CASE rule = Majority
  BY <1>1 DEF Majority
<1>2. CASE rule = Unanimous
  BY <1>2 DEF Unanimous
<1>3. CASE rule = Any
  BY <1>3 DEF Any
<1>4. CASE rule.kind = "MinAgree" /\ rule.n \in Nat
  BY <1>4
<1>5. CASE rule.kind = "Quorum" /\ rule.num \in Int /\ rule.den \in Nat
  <2>1. k * rule.den <= l * rule.den
    BY <1>5
  <2>2. k * rule.den \in Nat /\ l * rule.den \in Nat /\ rule.num * n \in Int
    BY <1>5
  <2> QED
    BY <1>5, <2>1, <2>2
<1> QED
  BY <1>1, <1>2, <1>3, <1>4, <1>5 DEF IsRule

\* What exceeds one half by more than the rounding takes is more than half.
LEMMA NearHalf ==
    ASSUME NEW num \in Nat, NEW den \in Nat \ {0}, NEW n \in Nat \ {0}, NEW k \in Nat,
           NEW d \in Nat \ {0}, NEW e \in Nat,
           2 * num * e > den * d, k * den * d >= num * n * e
    PROVE  2 * k > n
<1> DEFINE x == den * d
           y == num * e
<1>1. x \in Nat \ {0} /\ y \in Nat
  OBVIOUS
<1>2. k * den * d = k * x /\ num * n * e = n * y /\ 2 * num * e = 2 * y
  OBVIOUS
<1>3. 2 * y > x /\ k * x >= n * y
  BY <1>2
<1> HIDE DEF x, y
<1>4. n * (2 * y) > n * x
  BY <1>1, <1>3
<1>5. n * (2 * y) = 2 * (n * y) /\ (2 * k) * x = 2 * (k * x)
  BY <1>1
<1>6. (2 * k) * x > n * x
  BY <1>1, <1>3, <1>4, <1>5
<1>7. ASSUME 2 * k <= n PROVE FALSE
  <2>1. (2 * k) * x <= n * x
    BY <1>1, <1>7
  <2> QED
    BY <1>1, <1>6, <2>1
<1> QED
  BY <1>7

\* The rules that need more than half of a group of any size: of the quorums, those
\* above one half by more than the rounding takes.
LEMMA DecisiveRules ==
    ASSUME NEW rule, Group # {},
           \/ rule \in {Majority, Unanimous}
           \/ /\ rule.kind = "Quorum" /\ rule.num \in Nat /\ rule.den \in Nat \ {0}
              /\ 2 * rule.num * (Precision - 1) > rule.den * Precision
    PROVE  Decisive(rule)
<1> DEFINE n == Cardinality(Group)
<1>1. n \in Nat \ {0}
  BY GroupAssumption, FS_CardinalityType, FS_EmptySet
<1> HIDE DEF n
<1>2. ASSUME NEW k \in 0 .. n, NearAgreement(rule, k, n) PROVE 2 * k > n
  <2>1. CASE rule = Majority
    BY <1>2, <2>1 DEF NearAgreement, Agreement, Majority
  <2>2. CASE rule = Unanimous
    BY <1>1, <1>2, <2>2 DEF NearAgreement, Agreement, Unanimous
  <2>3. CASE /\ rule.kind = "Quorum" /\ rule.num \in Nat /\ rule.den \in Nat \ {0}
             /\ 2 * rule.num * (Precision - 1) > rule.den * Precision
    <3> DEFINE num == rule.num
               den == rule.den
               d == Precision
               e == Precision - 1
    <3>1. num \in Nat /\ den \in Nat \ {0} /\ d \in Nat \ {0} /\ e \in Nat /\ e = d - 1
          /\ 2 * num * e > den * d
      BY <2>3, ConsensusAssumption
    <3>2. k * den >= num * n \/ k * den * d >= num * n * e
      BY <1>2, <2>3 DEF NearAgreement, Agreement
    <3> HIDE DEF num, den, d, e
    <3>3. CASE k * den * d >= num * n * e
      BY <1>1, <1>2, <3>1, <3>3, NearHalf
    <3>4. CASE k * den >= num * n
      <4>1. 2 * num * d > den * d
        <5>1. 2 * num * e <= 2 * num * d
          BY <3>1
        <5> QED
          BY <3>1, <5>1
      <4>2. 2 * num * 1 > den * 1
        BY <3>1, <4>1
      <4>3. k * den * 1 >= num * n * 1
        BY <1>1, <1>2, <3>1, <3>4
      <4> QED
        BY <1>1, <1>2, <3>1, <4>2, <4>3, NearHalf
    <3> QED
      BY <3>2, <3>3, <3>4
  <2> QED
    BY <1>2, <2>1, <2>2, <2>3
<1> QED
  BY <1>2 DEF Decisive, n

\* What a verdict says of the clones it was made from.
LEMMA VerdictMeaning ==
    ASSUME CallerTypeOK, CallInv, NEW c \in Callers, verdict[c] # None
    PROVE  LET w == verdict[c].winning_value
               S == Supporters(seen[c], w)
           IN  /\ verdict[c].rule \in Rules
               /\ w \in Winners(seen[c])
               /\ IsFiniteSet(S) /\ S \subseteq Group
               /\ IsFiniteSet(Seen(seen[c])) /\ Seen(seen[c]) # {}
               /\ verdict[c].agreement_count = Cardinality(S)
               /\ verdict[c].dissenting = Seen(seen[c]) \ S
               /\ verdict[c].achieved <=>
                     Satisfied(verdict[c].rule, Cardinality(S), Cardinality(Seen(seen[c])))
<1>1. PICK rule \in Rules : verdict[c] \in Verdicts(seen[c], rule)
  BY DEF CallInv, ReturnOK
<1>2. PICK w \in Winners(seen[c]) :
        verdict[c] = [rule |-> rule,
             achieved |-> Satisfied(rule, Votes(seen[c], w), Cardinality(Seen(seen[c]))),
             winning_value |-> w,
             agreement_count |-> Votes(seen[c], w),
             total_participants |-> Cardinality(Voters(seen[c])),
             dissenting |-> Seen(seen[c]) \ Supporters(seen[c], w)]
  BY <1>1 DEF Verdicts
<1>3. /\ seen[c] \in [Agents -> Records \cup {None}] /\ Seen(seen[c]) \subseteq Group
      /\ IsFiniteSet(Seen(seen[c])) /\ Seen(seen[c]) # {}
  BY GroupAssumption, FS_Subset DEF CallerTypeOK, CallInv, ReturnOK, Empty
<1>4. IsFiniteSet(Supporters(seen[c], w)) /\ Supporters(seen[c], w) \subseteq Group
  BY <1>3, VotersInGroup
<1> QED
  BY <1>2, <1>3, <1>4 DEF Votes

\* Nobody has more votes than a winner; where nobody voted at all, no value has any.
LEMMA WinnersLead ==
    ASSUME NEW old \in [Agents -> Records \cup {None}], Seen(old) \subseteq Group,
           NEW w \in Winners(old), NEW v \in Values
    PROVE  /\ Votes(old, w) \in Nat /\ Votes(old, v) \in Nat
           /\ Votes(old, v) <= Votes(old, w)
<1>1. Votes(old, w) \in Nat /\ Votes(old, v) \in Nat
  BY VotersInGroup
<1>2. CASE Voters(old) = {}
  <2>1. Supporters(old, v) = {}
    BY <1>2 DEF Supporters
  <2>2. Votes(old, v) = 0
    BY <2>1, FS_EmptySet DEF Votes
  <2> QED
    BY <1>1, <2>2
<1>3. CASE Voters(old) # {}
  BY <1>1, <1>3 DEF Winners
<1> QED
  BY <1>1, <1>2, <1>3

\* When enough agents are Done with one value, in the words of the rule, consensus is
\* declared; it is never declared with less, a quorum being taken up to the precision
\* of f64; and the dissenting agents are the others.
THEOREM AchievedByRule == GroupSpec => []AchievedMeansRule
<1>1. ASSUME CallerTypeOK, CallInv PROVE AchievedMeansRule
  <2> SUFFICES ASSUME NEW c \in Callers, verdict[c] # None
               PROVE  LET agree(v) == {a \in Agents : /\ seen[c][a] # None
                                                      /\ seen[c][a].state = "Done"
                                                      /\ seen[c][a].result = v}
                          total == Cardinality(Seen(seen[c]))
                          rule == verdict[c].rule
                      IN  IF verdict[c].achieved
                          THEN /\ NearAgreement(rule,
                                       Cardinality(agree(verdict[c].winning_value)), total)
                               /\ verdict[c].dissenting =
                                    Seen(seen[c]) \ agree(verdict[c].winning_value)
                          ELSE \A v \in Values : ~Agreement(rule, Cardinality(agree(v)), total)
    BY DEF AchievedMeansRule
  <2> DEFINE agree(v) == {a \in Agents : /\ seen[c][a] # None
                                         /\ seen[c][a].state = "Done"
                                         /\ seen[c][a].result = v}
             total == Cardinality(Seen(seen[c]))
             rule == verdict[c].rule
             w == verdict[c].winning_value
  <2>1. \A v : agree(v) = Supporters(seen[c], v)
    BY <1>1 DEF Supporters, Voters, Seen, CallInv, CloneOK
  <2> HIDE DEF agree
  <2>2. /\ rule \in Rules /\ w \in Winners(seen[c])
        /\ IsFiniteSet(agree(w)) /\ IsFiniteSet(Seen(seen[c])) /\ Seen(seen[c]) # {}
        /\ verdict[c].dissenting = Seen(seen[c]) \ agree(w)
        /\ verdict[c].achieved <=> Satisfied(rule, Cardinality(agree(w)), total)
    BY <1>1, <2>1, VerdictMeaning
  <2>3. agree(w) \subseteq Seen(seen[c])
    BY <2>1 DEF Supporters, Voters
  <2>4. total \in Nat \ {0} /\ Cardinality(agree(w)) \in 0 .. total
    BY <2>2, <2>3, FS_CardinalityType, FS_EmptySet, FS_Subset
  <2>5. IsRule(rule)
    BY <2>2, GroupAssumption
  <2> HIDE DEF total, rule, w
  <2>6. CASE verdict[c].achieved
    <3>1. NearAgreement(rule, Cardinality(agree(w)), total)
      BY <2>2, <2>4, <2>5, <2>6, SatisfiedMeansNear
    <3> QED
      BY <2>2, <2>6, <3>1 DEF total, rule, w, agree
  <2>7. CASE ~verdict[c].achieved
    <3>1. ASSUME NEW v \in Values, Agreement(rule, Cardinality(agree(v)), total)
          PROVE  FALSE
      <4>1. seen[c] \in [Agents -> Records \cup {None}] /\ Seen(seen[c]) \subseteq Group
        BY <1>1 DEF CallerTypeOK
      <4>2. /\ Cardinality(agree(v)) \in Nat /\ Cardinality(agree(w)) \in Nat
            /\ Cardinality(agree(v)) <= Cardinality(agree(w))
        BY <2>1, <2>2, <4>1, WinnersLead DEF Votes
      <4>3. Agreement(rule, Cardinality(agree(w)), total)
        BY <2>4, <2>5, <3>1, <4>2, AgreementGrows
      <4>4. Satisfied(rule, Cardinality(agree(w)), total)
        BY <2>4, <2>5, <3>1, <4>3, AgreementMeansSatisfied
      <4> QED
        BY <2>2, <2>7, <4>4
    <3> QED
      BY <2>7, <3>1 DEF total, rule, agree
  <2> QED
    BY <2>6, <2>7
<1> QED
  BY <1>1, GroupTypeInvHolds, CallInvHolds, PTL DEF GroupTypeInv

-----------------------------------------------------------------------------
(* Majorities                                                              *)

\* A decisive rule that holds for the whole group has more than half of it behind
\* the winning value.
LEMMA DecisiveVerdict ==
    ASSUME CallerTypeOK, CallInv, NEW c \in Callers, verdict[c] # None,
           Decisive(verdict[c].rule), verdict[c].achieved, Seen(seen[c]) = Group
    PROVE  LET S == Supporters(seen[c], verdict[c].winning_value)
           IN  /\ IsFiniteSet(S) /\ S \subseteq Group
               /\ 2 * Cardinality(S) > Cardinality(Group)
<1> DEFINE S == Supporters(seen[c], verdict[c].winning_value)
           rule == verdict[c].rule
<1>1. /\ rule \in Rules /\ IsFiniteSet(S) /\ S \subseteq Group
      /\ Satisfied(rule, Cardinality(S), Cardinality(Group))
  BY VerdictMeaning
<1> HIDE DEF S, rule
<1>2. /\ Cardinality(Group) \in Nat /\ Cardinality(S) \in Nat
      /\ Cardinality(S) <= Cardinality(Group)
  BY <1>1, GroupAssumption, FS_CardinalityType, FS_Subset
<1>3. NearAgreement(rule, Cardinality(S), Cardinality(Group))
  BY <1>1, <1>2, GroupAssumption, SatisfiedMeansNear
<1>4. 2 * Cardinality(S) > Cardinality(Group)
  BY <1>2, <1>3 DEF Decisive, rule
<1> QED
  BY <1>1, <1>4 DEF S

\* Two sets that are more than half of the group meet.
LEMMA MajoritiesMeet ==
    ASSUME NEW S, NEW T, S \subseteq Group, T \subseteq Group,
           2 * Cardinality(S) > Cardinality(Group), S \cap T = {}
    PROVE  2 * Cardinality(T) < Cardinality(Group)
<1>1. IsFiniteSet(Group) /\ IsFiniteSet(S) /\ IsFiniteSet(Group \ S) /\ Group \cap S = S
  BY GroupAssumption, FS_Subset
<1>2. Cardinality(Group \ S) = Cardinality(Group) - Cardinality(S)
  <2>1. Cardinality(Group \ S) = Cardinality(Group) - Cardinality(Group \cap S)
    BY <1>1, FS_Difference
  <2> QED
    BY <1>1, <2>1
<1>3. T \subseteq Group \ S
  OBVIOUS
<1>4. Cardinality(T) <= Cardinality(Group \ S) /\ IsFiniteSet(T)
  BY <1>1, <1>3, FS_Subset
<1>5. Cardinality(T) \in Nat /\ Cardinality(S) \in Nat /\ Cardinality(Group) \in Nat
  BY <1>1, <1>4, FS_CardinalityType
<1> QED
  BY <1>2, <1>4, <1>5

\* What a decisive rule has found for the whole group can never be overturned.
THEOREM MajorityIsFinal == GroupSpec => []MajorityStands
<1>1. ASSUME CallerTypeOK, CallInv PROVE MajorityStands
  <2> SUFFICES ASSUME NEW c \in Callers, verdict[c] # None, Decisive(verdict[c].rule),
                      verdict[c].achieved, Seen(seen[c]) = Group,
                      NEW v \in Values \ {verdict[c].winning_value}
               PROVE  2 * Cardinality({a \in Group : state[a] = "Done" /\ result[a] = v})
                        < Cardinality(Group)
    BY DEF MajorityStands
  <2> DEFINE S == Supporters(seen[c], verdict[c].winning_value)
             D == {a \in Group : state[a] = "Done" /\ result[a] = v}
  <2>1. S \subseteq Group /\ 2 * Cardinality(S) > Cardinality(Group)
    BY <1>1, DecisiveVerdict
  <2>2. S \cap D = {}
    <3> SUFFICES ASSUME NEW a \in D, a \in S PROVE FALSE
      OBVIOUS
    <3>1. seen[c][a].state = "Done" /\ seen[c][a].result = verdict[c].winning_value
      BY DEF Supporters, Voters
    <3>2. a \in Agents /\ seen[c][a] # None /\ Registered(a)
      BY GroupAssumption DEF Supporters, Voters, Seen, Registered
    <3>3. result[a] = seen[c][a].result
      BY <1>1, <3>1, <3>2 DEF CallInv, CloneOK
    <3> QED
      BY <3>1, <3>3
  <2>3. D \subseteq Group
    OBVIOUS
  <2> HIDE DEF S, D
  <2>4. 2 * Cardinality(D) < Cardinality(Group)
    BY <2>1, <2>2, <2>3, MajoritiesMeet
  <2> QED
    BY <2>4 DEF D
<1> QED
  BY <1>1, GroupTypeInvHolds, CallInvHolds, PTL DEF GroupTypeInv

-----------------------------------------------------------------------------
(* Several callers                                                         *)

\* Whatever two callers saw of one agent that was Done, and whenever they saw it,
\* they saw the same result.
ClonesAgree ==
    \A c, d \in Callers : \A a \in Agents :
        /\ seen[c][a] # None /\ seen[c][a].state = "Done"
        /\ seen[d][a] # None /\ seen[d][a].state = "Done"
        => seen[c][a].result = seen[d][a].result

\* A scan begins with nothing, goes on with one shard, or stands still.
LEMMA ScansMove ==
    ASSUME CallerTypeOK, [GroupNext]_groupVars
    PROVE  \/ UNCHANGED seen
           \/ \E c \in Callers : seen' = [seen EXCEPT ![c] = Unread]
           \/ \E c \in Callers : ReadShard(c)
<1>1. CASE UNCHANGED groupVars \/ SupervisorStep
  BY <1>1 DEF groupVars, callerVars, SupervisorStep
<1>2. ASSUME NEW c \in Callers,
             GroupCall(c) \/ WaitDecide(c) \/ JudgeDecide(c) \/ Expire(c)
      PROVE  seen' = seen \/ seen' = [seen EXCEPT ![c] = Unread]
  BY <1>2 DEF GroupCall, WaitDecide, JudgeDecide, Expire, StartScan
<1>3. ASSUME NEW c \in Callers,
             CancelGroup(c) \/ CancelMember(c) \/ CancelMemberEnd(c) \/ CancelReturn(c)
      PROVE  UNCHANGED seen
  BY <1>3 DEF CancelGroup, CancelMember, CancelMemberEnd, CancelReturn
<1> QED
  BY <1>1, <1>2, <1>3 DEF GroupNext, CallerStep

LEMMA ClonesAgreeHolds == GroupSpec => []ClonesAgree
<1>1. GroupInit => ClonesAgree
  BY DEF GroupInit, ClonesAgree, Unread
<1>2. ASSUME CallerTypeOK, CallInv, ClonesAgree, [GroupNext]_groupVars
      PROVE  ClonesAgree'
  <2>1. CASE UNCHANGED seen
    BY <1>2, <2>1 DEF ClonesAgree
  <2>2. ASSUME NEW c \in Callers, seen' = [seen EXCEPT ![c] = Unread]
        PROVE  ClonesAgree'
    <3>1. \A a \in Agents : seen'[c][a] = None
      BY <1>2, <2>2 DEF CallerTypeOK, Unread
    <3>2. \A d \in Callers \ {c} : seen'[d] = seen[d]
      BY <1>2, <2>2 DEF CallerTypeOK
    <3> QED
      BY <1>2, <3>1, <3>2 DEF ClonesAgree
  <2>3. ASSUME NEW c \in Callers, ReadShard(c)
        PROVE  ClonesAgree'
    <3>1. /\ seen'[c] = Gather(seen[c], shard[c], Group)
          /\ \A d \in Callers \ {c} : seen'[d] = seen[d]
      BY <1>2, <2>3 DEF ReadShard, ScanGroup, CallerTypeOK
    <3>2. ASSUME NEW d \in Callers \ {c}, NEW a \in Agents,
                 seen'[c][a] # None, seen'[c][a].state = "Done",
                 seen[d][a] # None, seen[d][a].state = "Done"
          PROVE  seen'[c][a].result = seen[d][a].result
      <4>1. CASE seen'[c][a] = seen[c][a]
        BY <1>2, <3>2, <4>1 DEF ClonesAgree
      <4>2. CASE seen'[c][a] = Record(a)
        <5>1. state[a] = "Done" /\ seen'[c][a].result = result[a] /\ Registered(a)
          BY <3>2, <4>2 DEF Record, Registered
        <5> QED
          BY <1>2, <3>2, <5>1 DEF CallInv, CloneOK
      <4> QED
        BY <3>1, <4>1, <4>2 DEF Gather
    <3> QED
      BY <1>2, <3>1, <3>2 DEF ClonesAgree
  <2> QED
    BY <1>2, <2>1, <2>2, <2>3, ScansMove
<1> QED
  BY <1>1, <1>2, GroupTypeInvHolds, CallInvHolds, PTL DEF GroupSpec, GroupTypeInv

\* Two calls of await_consensus, made at any two times with any two decisive rules,
\* never declare different values for one complete group.
DecisionsAgree ==
    \A c, d \in Callers :
        /\ verdict[c] # None /\ verdict[c].achieved /\ Decisive(verdict[c].rule)
        /\ verdict[d] # None /\ verdict[d].achieved /\ Decisive(verdict[d].rule)
        /\ Seen(seen[c]) = Group /\ Seen(seen[d]) = Group
        => verdict[c].winning_value = verdict[d].winning_value

\* Two majorities of one group have a member in common, and ClonesAgree.
THEOREM ConsensusIsConsistent == GroupSpec => []DecisionsAgree
<1>1. ASSUME CallerTypeOK, CallInv, ClonesAgree PROVE DecisionsAgree
  <2> SUFFICES ASSUME NEW c \in Callers, NEW d \in Callers,
                      verdict[c] # None, verdict[c].achieved, Decisive(verdict[c].rule),
                      verdict[d] # None, verdict[d].achieved, Decisive(verdict[d].rule),
                      Seen(seen[c]) = Group, Seen(seen[d]) = Group
               PROVE  verdict[c].winning_value = verdict[d].winning_value
    BY DEF DecisionsAgree
  <2> DEFINE S == Supporters(seen[c], verdict[c].winning_value)
             T == Supporters(seen[d], verdict[d].winning_value)
  <2>1. S \subseteq Group /\ 2 * Cardinality(S) > Cardinality(Group)
    BY <1>1, DecisiveVerdict
  <2>2. /\ T \subseteq Group /\ 2 * Cardinality(T) > Cardinality(Group)
        /\ Cardinality(T) \in Nat /\ Cardinality(Group) \in Nat
    BY <1>1, DecisiveVerdict, GroupAssumption, FS_CardinalityType
  <2>3. PICK a \in Group : a \in S /\ a \in T
    <3>1. S \cap T # {}
      BY <2>1, <2>2, MajoritiesMeet
    <3> QED
      BY <2>1, <3>1
  <2>4. /\ seen[c][a] # None /\ seen[c][a].state = "Done"
        /\ seen[c][a].result = verdict[c].winning_value
        /\ seen[d][a] # None /\ seen[d][a].state = "Done"
        /\ seen[d][a].result = verdict[d].winning_value
    BY <2>3 DEF Supporters, Voters, Seen
  <2> QED
    BY <1>1, <2>3, <2>4, GroupAssumption DEF ClonesAgree
<1> QED
  BY <1>1, GroupTypeInvHolds, CallInvHolds, ClonesAgreeHolds, PTL DEF GroupTypeInv

\* A value with more than half of the agents seen behind it is the only result that
\* evaluate can return for these clones: the order of the map decides among equals
\* only, and there are none.
VerdictIsUnambiguous ==
    \A c \in Callers :
        verdict[c] # None /\ 2 * verdict[c].agreement_count > Cardinality(Seen(seen[c])) =>
            Verdicts(seen[c], verdict[c].rule) = {verdict[c]}

\* The supporters of another value are among the rest, which is less than half.
THEOREM MajoritiesAreUnambiguous == GroupSpec => []VerdictIsUnambiguous
<1>1. ASSUME CallerTypeOK, CallInv PROVE VerdictIsUnambiguous
  <2> SUFFICES ASSUME NEW c \in Callers, verdict[c] # None,
                      2 * verdict[c].agreement_count > Cardinality(Seen(seen[c]))
               PROVE  Verdicts(seen[c], verdict[c].rule) = {verdict[c]}
    BY DEF VerdictIsUnambiguous
  <2> DEFINE old == seen[c]
             w == verdict[c].winning_value
             S == Supporters(old, w)
  <2>1. /\ w \in Winners(old) /\ IsFiniteSet(S) /\ IsFiniteSet(Seen(old))
        /\ verdict[c].agreement_count = Cardinality(S)
    BY <1>1, VerdictMeaning
  <2>2. /\ old \in [Agents -> Records \cup {None}] /\ Seen(old) \subseteq Group
        /\ \A v : Supporters(old, v) \subseteq Voters(old) /\ Votes(old, v) \in Nat
    BY <1>1, VotersInGroup DEF CallerTypeOK
  <2>3. \A v \in Winners(old) : v = w
    <3> SUFFICES ASSUME NEW v \in Winners(old), v # w PROVE FALSE
      OBVIOUS
    <3>1. Cardinality(S) \in Nat /\ Cardinality(Seen(old)) \in Nat /\ Cardinality(S) # 0
      BY <2>1, FS_CardinalityType
    <3>2. Voters(old) # {}
      BY <2>1, <2>2, <3>1, FS_EmptySet
    <3>3. w \in Values /\ v \in Values /\ Votes(old, w) <= Votes(old, v)
      BY <2>1, <3>2 DEF Winners
    <3>4. Supporters(old, v) \subseteq Seen(old) \ S
      BY DEF Supporters, Voters
    <3>5. /\ IsFiniteSet(Seen(old) \ S) /\ S \subseteq Seen(old)
          /\ Cardinality(Supporters(old, v)) <= Cardinality(Seen(old) \ S)
      BY <2>1, <3>4, FS_Subset DEF Supporters, Voters
    <3>6. Cardinality(Seen(old) \ S) = Cardinality(Seen(old)) - Cardinality(S)
      <4>1. Cardinality(Seen(old) \ S) = Cardinality(Seen(old)) - Cardinality(Seen(old) \cap S)
        BY <2>1, FS_Difference
      <4>2. Seen(old) \cap S = S
        BY <3>5
      <4> QED
        BY <4>1, <4>2
    <3>7. Cardinality(S) <= Cardinality(Supporters(old, v)) /\ Cardinality(Supporters(old, v)) \in Nat
      BY <2>2, <3>3 DEF Votes
    <3> QED
      BY <2>1, <3>1, <3>5, <3>6, <3>7
  <2>4. PICK rule \in Rules : verdict[c] \in Verdicts(old, rule)
    BY <1>1 DEF CallInv, ReturnOK
  <2>5. verdict[c].rule = rule
    BY <2>4 DEF Verdicts
  <2>6. \A u \in Verdicts(old, rule) : u = verdict[c]
    BY <2>3, <2>4 DEF Verdicts
  <2> QED
    BY <2>4, <2>5, <2>6
<1> QED
  BY <1>1, GroupTypeInvHolds, CallInvHolds, PTL DEF GroupTypeInv

\* Every set of naturals has a least element.
LEMMA LeastNatural ==
    ASSUME NEW T, T \subseteq Nat, T # {}
    PROVE  \E m \in T : \A n \in T : m <= n
<1>1. \E m \in T : \A n \in T : ~(<<n, m>> \in OpToRel(<, Nat))
  BY NatLessThanWellFounded, WFMin
<1>2. PICK m \in T : \A n \in T : ~(<<n, m>> \in OpToRel(<, Nat))
  BY <1>1
<1>3. \A n \in T : ~(n < m)
  BY <1>2 DEF OpToRel
<1> QED
  BY <1>3

\* Whatever a scan has collected, some value leads, or nobody has voted.
LEMMA SomebodyLeads ==
    ASSUME NEW old \in [Agents -> Records \cup {None}], Seen(old) \subseteq Group
    PROVE  Winners(old) # {}
<1>1. CASE Voters(old) = {}
  BY <1>1 DEF Winners
<1>2. CASE Voters(old) # {}
  <2> DEFINE n == Cardinality(Group)
             T == {n - Votes(old, v) : v \in Values}
  <2>1. n \in Nat /\ \A v \in Values : Votes(old, v) \in Nat /\ Votes(old, v) <= n
    <3>1. \A v : Supporters(old, v) \subseteq Group /\ Votes(old, v) \in Nat
      BY VotersInGroup
    <3> QED
      BY <3>1, GroupAssumption, FS_CardinalityType, FS_Subset DEF Votes
  <2>2. T \subseteq Nat
    BY <2>1
  <2>3. Values # {}
    BY <1>2 DEF Voters, Seen, Records
  <2>4. PICK v \in Values : \A w \in Values : n - Votes(old, v) <= n - Votes(old, w)
    <3>1. T # {}
      BY <2>3
    <3>2. PICK m \in T : \A k \in T : m <= k
      BY <2>2, <3>1, LeastNatural
    <3> QED
      BY <3>2
  <2>5. \A w \in Values : Votes(old, w) <= Votes(old, v)
    <3> HIDE DEF n
    <3> QED
      BY <2>1, <2>4
  <2> QED
    BY <1>2, <2>5 DEF Winners
<1> QED
  BY <1>1, <1>2

\* evaluate always has an answer, and where several values lead, the order in which the
\* map lists them decides which one is named, but neither whether there is a consensus
\* nor how many agree.
AnswersAgree ==
    \A c \in Callers : \A rule \in Rules :
        /\ Verdicts(seen[c], rule) # {}
        /\ \A u, v \in Verdicts(seen[c], rule) :
              /\ u.achieved = v.achieved
              /\ u.agreement_count = v.agreement_count
              /\ u.total_participants = v.total_participants

\* Leaders have the same support.
THEOREM TiesAreHarmless == GroupSpec => []AnswersAgree
<1>1. ASSUME CallerTypeOK PROVE AnswersAgree
  <2> SUFFICES ASSUME NEW c \in Callers, NEW rule \in Rules
               PROVE  /\ Verdicts(seen[c], rule) # {}
                      /\ \A u, v \in Verdicts(seen[c], rule) :
                            /\ u.achieved = v.achieved
                            /\ u.agreement_count = v.agreement_count
                            /\ u.total_participants = v.total_participants
    BY DEF AnswersAgree
  <2> DEFINE old == seen[c]
  <2>1. old \in [Agents -> Records \cup {None}] /\ Seen(old) \subseteq Group
    BY <1>1 DEF CallerTypeOK
  <2>2. Verdicts(old, rule) # {}
    BY <2>1, SomebodyLeads DEF Verdicts
  <2>3. ASSUME NEW v \in Winners(old), NEW w \in Winners(old)
        PROVE  Votes(old, v) = Votes(old, w)
    <3>1. CASE Voters(old) = {}
      BY <2>3, <3>1 DEF Winners
    <3>2. CASE Voters(old) # {}
      <4>1. Votes(old, v) <= Votes(old, w) /\ Votes(old, w) <= Votes(old, v)
        BY <2>3, <3>2 DEF Winners
      <4>2. Votes(old, v) \in Nat /\ Votes(old, w) \in Nat
        BY <2>1, VotersInGroup
      <4> QED
        BY <4>1, <4>2
    <3> QED
      BY <3>1, <3>2
  <2>4. \A u, v \in Verdicts(old, rule) :
          /\ u.achieved = v.achieved
          /\ u.agreement_count = v.agreement_count
          /\ u.total_participants = v.total_participants
    BY <2>3 DEF Verdicts
  <2> QED
    BY <2>2, <2>4
<1> QED
  BY <1>1, GroupTypeInvHolds, PTL DEF GroupTypeInv

-----------------------------------------------------------------------------
(* The count of cancel_group                                               *)

\* The members whose clone showed a state that is not terminal.
SeenLive(c) == {a \in Seen(seen[c]) : ~SeenTerminal(seen[c], a)}

\* cancel_group works off what its scan found alive, and counts what it flagged itself.
CountOK(c) ==
    /\ at[c] \in {"cancel", "cancelling"} => todo[c] \subseteq SeenLive(c)
    /\ HoldsLock(c) => lock \in SeenLive(c)
    /\ at[c] \notin {"cancel", "cancelling", "returned"} => cancelled[c] = {}
    /\ cancelled[c] \subseteq SeenLive(c) \cap aborted

CountInv ==
    /\ \A c \in Callers : CountOK(c)
    /\ \A c, d \in Callers : HoldsLock(c) => lock \notin cancelled[d]
    /\ \A c, d \in Callers : c # d => cancelled[c] \cap cancelled[d] = {}

\* A task that has been flagged keeps its flag.
LEMMA FlagsAreKept ==
    ASSUME TypeOK, [Next]_vars
    PROVE  aborted \subseteq aborted'
<1>1. CASE UNCHANGED vars
  BY <1>1 DEF vars, taskVars
<1>2. CASE Next
  <2>1. PICK a \in Agents :
          \/ Spawn(a) \/ InsertHandle(a) \/ AbandonSpawn(a) \/ TaskStep(a)
          \/ CancelBegin(a) \/ CancelEnd(a)
          \/ WaitCall(a) \/ WaitPoll(a) \/ WaitReclaim(a)
          \/ Block(a) \/ Purge(a)
    BY <1>2 DEF Next
  <2>2. CASE CancelBegin(a) \/ CancelEnd(a)
    BY <2>2 DEF CancelBegin, CancelEnd, taskVars
  <2>3. CASE TaskStep(a)
    BY <2>3
    DEF TaskStep, Start, AcquirePermit, PermitGranted, CreateContext, Enter, Execute,
        Panic, Report, Serialize, Finish, Fail, FailMessage, CleanUp, Exit, Drop
  <2>4. CASE \/ Spawn(a) \/ InsertHandle(a) \/ AbandonSpawn(a)
             \/ WaitCall(a) \/ WaitPoll(a) \/ WaitReclaim(a) \/ Block(a) \/ Purge(a)
    BY <2>4
    DEF Spawn, InsertHandle, AbandonSpawn, WaitCall, WaitPoll, WaitReclaim, Block, Purge,
        taskVars
  <2> QED
    BY <2>1, <2>2, <2>3, <2>4
<1> QED
  BY <1>1, <1>2

LEMMA CountStep ==
    ASSUME SupervisorInv, HandleInv, GroupTypeInv, CallInv, CountInv, [GroupNext]_groupVars
    PROVE  CountInv'
<1> USE DEF SupervisorInv, GroupTypeInv
<1>0. aborted \subseteq aborted'
  BY GroupStepIsStep, FlagsAreKept
\* A step that moves no caller.
<1>1. ASSUME UNCHANGED <<at, seen, todo, cancelled>>,
             \A c \in Callers : HoldsLock(c) => lock' = lock
      PROVE  CountInv'
  <2>1. \A c \in Callers : SeenLive(c)' = SeenLive(c) /\ HoldsLock(c)' = HoldsLock(c)
    BY <1>1 DEF SeenLive, HoldsLock
  <2> QED
    BY <1>0, <1>1, <2>1 DEF CountInv, CountOK
<1>2. CASE UNCHANGED groupVars
  BY <1>1, <1>2 DEF groupVars, callerVars, vars, clientVars
<1>3. CASE SupervisorStep
  BY <1>1, <1>3, LockIsKept DEF SupervisorStep, callerVars
\* A step of one caller that cancels nothing; its scan has counted nothing yet.
<1>4. ASSUME NEW c \in Callers, UNCHANGED <<vars, todo, cancelled>>,
             cancelled[c] = {}, at[c] \notin {"cancel", "cancelling"}, \E p : MoveTo(c, p),
             at'[c] \notin {"cancel", "cancelling"},
             \A d \in Callers \ {c} : seen'[d] = seen[d]
      PROVE  CountInv'
  <2>1. \A d \in Callers \ {c} :
          /\ at'[d] = at[d] /\ SeenLive(d)' = SeenLive(d) /\ HoldsLock(d)' = HoldsLock(d)
    BY <1>4 DEF SeenLive, HoldsLock, MoveTo, CallerTypeOK
  <2>2. ~HoldsLock(c)'
    BY <1>4 DEF HoldsLock
  <2>3. CountOK(c)'
    BY <1>4, <2>2 DEF CountOK
  <2>4. lock' = lock
    BY <1>4 DEF vars, clientVars
  <2>5. \A d \in Callers : CountOK(d)'
    BY <1>0, <1>4, <2>1, <2>3, <2>4 DEF CountInv, CountOK
  <2> QED
    BY <1>4, <2>1, <2>2, <2>4, <2>5 DEF CountInv
<1>5. ASSUME NEW c \in Callers,
             GroupCall(c) \/ ReadShard(c) \/ WaitDecide(c) \/ JudgeDecide(c)
      PROVE  CountInv'
  <2>1. at[c] \in {"idle", "scan", "decide"} /\ UNCHANGED <<vars, todo, cancelled>>
    BY <1>5 DEF GroupCall, ReadShard, WaitDecide, JudgeDecide
  <2>2. cancelled[c] = {}
    BY <2>1 DEF CountInv, CountOK
  <2>3. /\ \E p \in {"scan", "decide", "returned", "notfound", "timeout"} : MoveTo(c, p)
        /\ \A d \in Callers \ {c} : seen'[d] = seen[d]
    BY <1>5 DEF GroupCall, ReadShard, WaitDecide, JudgeDecide, StartScan, CallerTypeOK
  <2>4. at'[c] \notin {"cancel", "cancelling"}
    BY <2>3 DEF MoveTo, CallerTypeOK
  <2> QED
    BY <1>4, <2>1, <2>2, <2>3, <2>4
<1>6. ASSUME NEW c \in Callers, CancelGroup(c) \/ CancelReturn(c)
      PROVE  CountInv'
  <2>1. /\ UNCHANGED <<vars, seen, cancelled>> /\ at[c] # "cancelling" /\ at'[c] # "cancelling"
        /\ at'[c] \in {"cancel", "returned"}
        /\ at'[c] = "cancel" => todo'[c] = SeenLive(c)
        /\ \A d \in Callers \ {c} : at'[d] = at[d] /\ todo'[d] = todo[d]
    BY <1>6 DEF CancelGroup, CancelReturn, MoveTo, CallerTypeOK, SeenLive
  <2>2. /\ \A d \in Callers : SeenLive(d)' = SeenLive(d) /\ HoldsLock(d)' = HoldsLock(d)
        /\ lock' = lock
    BY <2>1 DEF SeenLive, HoldsLock, vars, clientVars
  <2>3. \A d \in Callers : CountOK(d)'
    BY <1>0, <2>1, <2>2 DEF CountInv, CountOK, HoldsLock
  <2> QED
    BY <2>1, <2>2, <2>3 DEF CountInv
<1>7. ASSUME NEW c \in Callers, CancelMember(c)
      PROVE  CountInv'
  <2>1. PICK a \in Agents :
          /\ a \in todo[c]
          /\ todo' = [todo EXCEPT ![c] = @ \ {a}]
          /\ \/ CancelBegin(a) /\ at' = [at EXCEPT ![c] = "cancelling"]
             \/ UNCHANGED <<vars, at>>
    BY <1>7 DEF CancelMember, NextTodo, MoveTo
  <2>2. /\ at[c] = "cancel" /\ UNCHANGED <<seen, cancelled>>
        /\ \A d \in Callers : ~HoldsLock(d)
    BY <1>7, GroupAssumption, SupervisorAssumption DEF CancelMember, LockOwner
  <2>3. \A d \in Callers : SeenLive(d)' = SeenLive(d) /\ todo'[d] \subseteq todo[d]
    BY <2>1, <2>2 DEF SeenLive, CallerTypeOK
  <2>4. a \in SeenLive(c)
    BY <2>1, <2>2 DEF CountInv, CountOK
  <2>5. CASE CancelBegin(a) /\ at' = [at EXCEPT ![c] = "cancelling"]
    <3>1. /\ lock' = a /\ a \notin aborted
          /\ \A d \in Callers : at'[d] = IF d = c THEN "cancelling" ELSE at[d]
      BY <2>5 DEF CancelBegin, HandleInv, CallerTypeOK
    <3>2. \A d \in Callers : HoldsLock(d)' => d = c
      BY <2>2, <3>1 DEF HoldsLock
    <3>3. \A d \in Callers : a \notin cancelled'[d]
      BY <2>2, <3>1 DEF CountInv, CountOK
    <3>4. \A d \in Callers : CountOK(d)'
      BY <1>0, <2>2, <2>3, <2>4, <3>1, <3>2 DEF CountInv, CountOK
    <3> QED
      BY <2>2, <3>1, <3>3, <3>4 DEF CountInv
  <2>6. CASE UNCHANGED <<vars, at>>
    <3>1. \A d \in Callers : ~HoldsLock(d)'
      BY <2>2, <2>6 DEF HoldsLock
    <3>2. \A d \in Callers : CountOK(d)'
      BY <1>0, <2>2, <2>3, <2>6, <3>1 DEF CountInv, CountOK
    <3> QED
      BY <2>2, <3>1, <3>2 DEF CountInv
  <2> QED
    BY <2>1, <2>5, <2>6
<1>8. ASSUME NEW c \in Callers, CancelMemberEnd(c)
      PROVE  CountInv'
  <2>1. PICK a \in Agents :
          /\ CancelEnd(a)
          /\ cancelled' = [cancelled EXCEPT ![c] = IF Registered(a) THEN @ \cup {a} ELSE @]
    BY <1>8 DEF CancelMemberEnd
  <2>2. /\ HoldsLock(c) /\ at' = [at EXCEPT ![c] = "cancel"]
        /\ UNCHANGED <<seen, todo>> /\ lock = a
    BY <1>8, <2>1 DEF CancelMemberEnd, HoldsLock, MoveTo, CancelEnd
  <2>3. /\ a \in SeenLive(c) /\ a \in aborted
        /\ \A d \in Callers : a \notin cancelled[d]
    <3>1. a # None
      BY SupervisorAssumption
    <3> QED
      BY <2>2, <3>1 DEF CountInv, CountOK, OutsideInv
  <2>4. \A d \in Callers :
          /\ SeenLive(d)' = SeenLive(d) /\ ~HoldsLock(d)'
          /\ at'[d] = IF d = c THEN "cancel" ELSE at[d]
    BY <2>2 DEF SeenLive, HoldsLock, LockOwner, CallerTypeOK
  <2>5. \A d \in Callers : cancelled'[d] \in {cancelled[d], IF d = c THEN cancelled[d] \cup {a}
                                                              ELSE cancelled[d]}
    BY <2>1 DEF CallerTypeOK
  <2>6. \A d \in Callers : CountOK(d)'
    <3> SUFFICES ASSUME NEW d \in Callers PROVE CountOK(d)'
      OBVIOUS
    <3>1. cancelled'[d] \subseteq SeenLive(d) \cap aborted'
      BY <1>0, <2>3, <2>5 DEF CountInv, CountOK
    <3>2. at'[d] \in {"cancel", "cancelling"} => todo'[d] \subseteq SeenLive(d)
      BY <2>2, <2>4 DEF CountInv, CountOK, HoldsLock
    <3>3. at'[d] \notin {"cancel", "cancelling", "returned"} => cancelled'[d] = {}
      BY <2>4, <2>5 DEF CountInv, CountOK
    <3> QED
      BY <2>4, <3>1, <3>2, <3>3 DEF CountOK
  <2>7. \A d, e \in Callers : d # e => cancelled'[d] \cap cancelled'[e] = {}
    BY <2>3, <2>5 DEF CountInv
  <2> QED
    BY <2>4, <2>6, <2>7 DEF CountInv
<1>9. ASSUME NEW c \in Callers, Expire(c) PROVE CountInv'
  BY <1>1, <1>9 DEF Expire, vars, clientVars
<1> QED
  BY <1>2, <1>3, <1>5, <1>6, <1>7, <1>8, <1>9 DEF GroupNext, CallerStep

\* The number that cancel_group returns counts members that it saw at work and flagged
\* itself: no other caller's count has them, although all of them walk the same list.
CountsAreDisjoint ==
    /\ \A c \in Callers : cancelled[c] \subseteq SeenLive(c) \cap aborted
    /\ \A c, d \in Callers : c # d => cancelled[c] \cap cancelled[d] = {}

\* A handle leaves the map once, so of two calls only one finds it.
THEOREM CancelsAreCountedOnce == GroupSpec => []CountsAreDisjoint
<1>1. GroupInit => CountInv
  <2> SUFFICES ASSUME GroupInit PROVE CountInv
    OBVIOUS
  <2>1. \A c \in Callers : at[c] = "idle" /\ cancelled[c] = {} /\ ~HoldsLock(c)
    BY DEF GroupInit, HoldsLock
  <2> QED
    BY <2>1 DEF CountInv, CountOK
<1>2. SupervisorInv /\ HandleInv /\ GroupTypeInv /\ CallInv /\ CountInv
        /\ [GroupNext]_groupVars => CountInv'
  BY CountStep
<1>3. CountInv => CountsAreDisjoint
  BY DEF CountInv, CountOK, CountsAreDisjoint
<1> QED
  BY <1>1, <1>2, <1>3, SupervisorInvHolds, HandleInvHolds, GroupsImplementSupervisor,
     GroupTypeInvHolds, CallInvHolds, PTL DEF GroupSpec

=============================================================================
