-------------------------- MODULE GroupSupervision --------------------------
(***************************************************************************)
(* The group operations of AgentSupervisor, and ConsensusEngine::          *)
(* await_consensus, on one task group, next to everything that Supervisor  *)
(* lets happen.                                                            *)
(*                                                                         *)
(* spawn_group spawns the members one after the other.  Each caller makes  *)
(* one call of wait_for_group, cancel_group or await_consensus; all three  *)
(* work on the clones that a scan of the registry collects shard by shard, *)
(* so the group they decide on may be incomplete, out of date, or one that *)
(* never existed.                                                          *)
(***************************************************************************)
EXTENDS Supervisor, Consensus

CONSTANTS
    Group,          \* agents that spawn_group makes; the others are spawned alone
    Singly,         \* agents that callers of cancel may name
    Callers,
    Operations,     \* the calls they make, a subset of GroupOperations
    Rules           \* consensus rules they ask for

GroupOperations == {"wait_for_group", "cancel_group", "await_consensus"}

ASSUME GroupAssumption ==
    /\ Group \subseteq Agents
    /\ IsFiniteSet(Group)
    /\ Operations \subseteq GroupOperations
    /\ \A rule \in Rules : IsRule(rule)
    /\ Singly \subseteq Cancellable
    /\ "cancel_group" \in Operations => Group \subseteq Cancellable

VARIABLES
    call,       \* the call each caller has made, None before
    at,         \* where it stands
    shard,      \* shard its scan reads next
    seen,       \* records its last scan has collected
    todo,       \* cancel_group: agents still to be cancelled
    cancelled,  \* cancel_group: agents counted as cancelled
    expired,    \* await_consensus: the deadline has passed
    verdict,    \* await_consensus: the result of evaluate, when it is returned
    known       \* history: members that the last scan cannot have missed

callerVars == <<call, at, shard, seen, todo, cancelled, expired, verdict, known>>
groupVars == <<vars, callerVars>>

GroupInit ==
    /\ Init
    /\ call = [c \in Callers |-> None]
    /\ at = [c \in Callers |-> "idle"]
    /\ shard = [c \in Callers |-> 1]
    /\ seen = [c \in Callers |-> Unread]
    /\ todo = [c \in Callers |-> {}]
    /\ cancelled = [c \in Callers |-> {}]
    /\ expired = [c \in Callers |-> FALSE]
    /\ verdict = [c \in Callers |-> None]
    /\ known = [c \in Callers |-> {}]

MoveTo(c, p) == at' = [at EXCEPT ![c] = p]

-----------------------------------------------------------------------------
(* spawn_group                                                             *)

\* The next call of spawn, when the one before has returned.  If one is dropped
\* then so is the future of spawn_group, and the remaining tasks with it.
SpawnMember(a) ==
    /\ a \in Group
    /\ \A b \in Group : spawner[b] \in {"idle", "returned"}
    /\ Spawn(a)

-----------------------------------------------------------------------------
(* Scans of the group                                                      *)

\* An iteration over the registry begins.  It meets every member that has its
\* record now and keeps it; of those cancel_group can cancel the ones whose spawn
\* has returned.
StartScan(c, op) ==
    /\ shard' = [shard EXCEPT ![c] = 1]
    /\ seen' = [seen EXCEPT ![c] = Unread]
    /\ known' = [known EXCEPT ![c] =
          {a \in Group : IF op = "cancel_group" THEN spawner[a] = "returned" ELSE Registered(a)}]
    /\ MoveTo(c, "scan")

GroupCall(c) ==
    /\ at[c] = "idle"
    /\ \E op \in Operations :
          /\ call' = [call EXCEPT ![c] = op]
          /\ StartScan(c, op)
    /\ UNCHANGED <<vars, todo, cancelled, expired, verdict>>

\* Fault: one shard too many.
ReadShardPastEnd(c) ==
    /\ at[c] = "scan"
    /\ seen' = [seen EXCEPT ![c] = ScanGroup(seen[c], shard[c], Group)]
    /\ shard' = [shard EXCEPT ![c] = shard[c] + 1]
    /\ MoveTo(c, IF shard[c] > Shards THEN "decide" ELSE "scan")
    /\ UNCHANGED <<vars, call, todo, cancelled, expired, verdict, known>>

\* One shard of get_group
ReadShard(c) ==
    /\ at[c] = "scan"
    /\ seen' = [seen EXCEPT ![c] = ScanGroup(seen[c], shard[c], Group)]
    /\ shard' = [shard EXCEPT ![c] = shard[c] + 1]
    /\ MoveTo(c, IF shard[c] = Shards THEN "decide" ELSE "scan")
    /\ UNCHANGED <<vars, call, todo, cancelled, expired, verdict, known>>

Empty(c) == Seen(seen[c]) = {}

\* agents.iter().all(|a| a.state.is_terminal())
AllTerminal(c) == \A a \in Seen(seen[c]) : SeenTerminal(seen[c], a)

-----------------------------------------------------------------------------
(* wait_for_group                                                          *)

\* Fault: any for all.
WaitDecideAny(c) ==
    /\ at[c] = "decide"
    /\ call[c] = "wait_for_group"
    /\ \/ Empty(c) /\ MoveTo(c, "notfound") /\ UNCHANGED <<shard, seen, known>>
       \/ /\ \E a \in Seen(seen[c]) : SeenTerminal(seen[c], a)
          /\ MoveTo(c, "returned")
          /\ UNCHANGED <<shard, seen, known>>
       \/ /\ ~Empty(c) /\ \A a \in Seen(seen[c]) : ~SeenTerminal(seen[c], a)
          /\ StartScan(c, call[c])
    /\ UNCHANGED <<vars, call, todo, cancelled, expired, verdict>>

\* The group is empty: GroupNotFound.  All have ended: their records are returned.
\* Otherwise the caller sleeps and looks again.
WaitDecide(c) ==
    /\ at[c] = "decide"
    /\ call[c] = "wait_for_group"
    /\ \/ Empty(c) /\ MoveTo(c, "notfound") /\ UNCHANGED <<shard, seen, known>>
       \/ ~Empty(c) /\ AllTerminal(c) /\ MoveTo(c, "returned") /\ UNCHANGED <<shard, seen, known>>
       \/ ~AllTerminal(c) /\ StartScan(c, call[c])
    /\ UNCHANGED <<vars, call, todo, cancelled, expired, verdict>>

-----------------------------------------------------------------------------
(* cancel_group                                                            *)

CancelGroup(c) ==
    /\ at[c] = "decide"
    /\ call[c] = "cancel_group"
    /\ todo' = [todo EXCEPT ![c] = {a \in Seen(seen[c]) : ~SeenTerminal(seen[c], a)}]
    /\ MoveTo(c, "cancel")
    /\ UNCHANGED <<vars, call, shard, seen, cancelled, expired, verdict, known>>

\* The agent whose turn it is: the list has the order of the scan.
NextTodo(c, a) ==
    /\ a \in todo[c]
    /\ \A b \in todo[c] : ShardOf[a] <= ShardOf[b]

\* Fault: `?` on the result of cancel.
CancelMemberBail(c) ==
    /\ at[c] = "cancel"
    /\ lock = None
    /\ \E a \in Agents :
          /\ NextTodo(c, a)
          /\ \/ /\ CancelBegin(a)
                /\ todo' = [todo EXCEPT ![c] = @ \ {a}]
                /\ MoveTo(c, "cancelling")
             \/ /\ a \notin handles
                /\ todo' = [todo EXCEPT ![c] = {}]
                /\ UNCHANGED <<vars, at>>
    /\ UNCHANGED <<call, shard, seen, cancelled, expired, verdict, known>>

\* self.cancel(&agent.id).await, once the mutex is free: an agent without a
\* handle is AgentNotFound, which is ignored.
CancelMember(c) ==
    /\ at[c] = "cancel"
    /\ lock = None
    /\ \E a \in Agents :
          /\ NextTodo(c, a)
          /\ todo' = [todo EXCEPT ![c] = @ \ {a}]
          /\ \/ CancelBegin(a) /\ MoveTo(c, "cancelling")
             \/ a \notin handles /\ UNCHANGED <<vars, at>>
    /\ UNCHANGED <<call, shard, seen, cancelled, expired, verdict, known>>

\* cancel is Ok unless the record is gone; then the count goes up.
CancelMemberEnd(c) ==
    /\ at[c] = "cancelling"
    /\ \E a \in Agents :
          /\ CancelEnd(a)
          /\ cancelled' = [cancelled EXCEPT ![c] = IF Registered(a) THEN @ \cup {a} ELSE @]
    /\ MoveTo(c, "cancel")
    /\ UNCHANGED <<call, shard, seen, todo, expired, verdict, known>>

CancelReturn(c) ==
    /\ at[c] = "cancel"
    /\ todo[c] = {}
    /\ MoveTo(c, "returned")
    /\ UNCHANGED <<vars, call, shard, seen, todo, cancelled, expired, verdict, known>>

\* Somebody cancels group members one by one: the lock is his.
HoldsLock(c) == at[c] = "cancelling"

-----------------------------------------------------------------------------
(* await_consensus                                                         *)

\* The deadline passes.
Expire(c) ==
    /\ call[c] = "await_consensus"
    /\ at[c] \in {"scan", "decide"}
    /\ ~expired[c]
    /\ expired' = [expired EXCEPT ![c] = TRUE]
    /\ UNCHANGED <<vars, call, at, shard, seen, todo, cancelled, verdict, known>>

\* Fault: after the deadline every result is returned, achieved or not.
JudgeDecideLenient(c) ==
    /\ at[c] = "decide"
    /\ call[c] = "await_consensus"
    /\ \/ /\ Empty(c)
          /\ MoveTo(c, "notfound")
          /\ UNCHANGED <<shard, seen, verdict, known>>
       \/ /\ ~Empty(c) /\ (AllTerminal(c) \/ expired[c])
          /\ \E rule \in Rules : \E v \in Verdicts(seen[c], rule) :
                verdict' = [verdict EXCEPT ![c] = v]
          /\ MoveTo(c, "returned")
          /\ UNCHANGED <<shard, seen, known>>
       \/ /\ ~AllTerminal(c) /\ ~expired[c]
          /\ StartScan(c, call[c])
          /\ UNCHANGED verdict
    /\ UNCHANGED <<vars, call, todo, cancelled, expired>>

\* Fault: the deadline is only looked at when all have ended.
JudgeDecidePatient(c) ==
    /\ at[c] = "decide"
    /\ call[c] = "await_consensus"
    /\ \/ /\ Empty(c)
          /\ MoveTo(c, "notfound")
          /\ UNCHANGED <<shard, seen, verdict, known>>
       \/ /\ ~Empty(c) /\ AllTerminal(c)
          /\ \E rule \in Rules : \E v \in Verdicts(seen[c], rule) :
                verdict' = [verdict EXCEPT ![c] = v]
          /\ MoveTo(c, "returned")
          /\ UNCHANGED <<shard, seen, known>>
       \/ /\ ~AllTerminal(c)
          /\ StartScan(c, call[c])
          /\ UNCHANGED verdict
    /\ UNCHANGED <<vars, call, todo, cancelled, expired>>

\* The caller's rule is used once, here.  All have ended: the result is returned
\* whatever it is.  The deadline has passed: only if the rule holds already, else
\* the call ends in ConsensusTimeout.  Otherwise the caller sleeps and looks again.
JudgeDecide(c) ==
    /\ at[c] = "decide"
    /\ call[c] = "await_consensus"
    /\ \/ /\ Empty(c)
          /\ MoveTo(c, "notfound")
          /\ UNCHANGED <<shard, seen, verdict, known>>
       \/ /\ ~Empty(c) /\ (AllTerminal(c) \/ expired[c])
          /\ \E rule \in Rules : \E v \in Verdicts(seen[c], rule) :
                IF AllTerminal(c) \/ v.achieved
                THEN verdict' = [verdict EXCEPT ![c] = v] /\ MoveTo(c, "returned")
                ELSE UNCHANGED verdict /\ MoveTo(c, "timeout")
          /\ UNCHANGED <<shard, seen, known>>
       \/ /\ ~AllTerminal(c) /\ ~expired[c]
          /\ StartScan(c, call[c])
          /\ UNCHANGED verdict
    /\ UNCHANGED <<vars, call, todo, cancelled, expired>>

-----------------------------------------------------------------------------

CallerStep(c) ==
    \/ ReadShard(c)
    \/ WaitDecide(c) \/ JudgeDecide(c)
    \/ CancelGroup(c) \/ CancelMember(c) \/ CancelMemberEnd(c) \/ CancelReturn(c)

\* What Supervisor lets agents and single callers do.
SupervisorStep ==
    /\ \E a \in Agents :
          \/ SpawnMember(a)
          \/ a \notin Group /\ Spawn(a)
          \/ InsertHandle(a) \/ AbandonSpawn(a)
          \/ TaskStep(a)
          \/ a \in Singly /\ CancelBegin(a)
          \/ (\A c \in Callers : ~HoldsLock(c)) /\ CancelEnd(a)
          \/ WaitCall(a) \/ WaitPoll(a) \/ WaitReclaim(a)
          \/ Block(a) \/ Purge(a)
    /\ UNCHANGED callerVars

GroupNext ==
    \/ SupervisorStep
    \/ \E c \in Callers : GroupCall(c) \/ CallerStep(c) \/ Expire(c)

GroupSpec == GroupInit /\ [][GroupNext]_groupVars

\* The caller's task is polled, the clock goes on, and the rest of the supervisor
\* is as fair as before.  Nobody has to make a call.
GroupFairSpec ==
    /\ GroupSpec
    /\ Fairness
    /\ \A c \in Callers : WF_groupVars(CallerStep(c)) /\ WF_groupVars(Expire(c))

-----------------------------------------------------------------------------
(* Types                                                                   *)

VerdictType ==
    [rule : Rules, achieved : BOOLEAN, winning_value : Values \cup {None},
     agreement_count : Nat, total_participants : Nat, dissenting : SUBSET Group]

\* Every variable stays in its domain: scans and lists hold group members only.
GroupTypeOK ==
    /\ TypeOK
    /\ call \in [Callers -> Operations \cup {None}]
    /\ at \in [Callers -> {"idle", "scan", "decide", "cancel", "cancelling",
                           "returned", "notfound", "timeout"}]
    /\ shard \in [Callers -> 1 .. Shards + 1]
    /\ seen \in [Callers -> [Agents -> Records \cup {None}]]
    /\ \A c \in Callers : Seen(seen[c]) \subseteq Group
    /\ todo \in [Callers -> SUBSET Group]
    /\ cancelled \in [Callers -> SUBSET Group]
    /\ expired \in [Callers -> BOOLEAN]
    /\ verdict \in [Callers -> VerdictType \cup {None}]
    /\ known \in [Callers -> SUBSET Group]

-----------------------------------------------------------------------------
(* Safety                                                                  *)

\* No scan misses a member that has its record from the beginning of the scan to
\* its end, so GroupNotFound means that there was none, and wait_for_group comes
\* back only when the members it knows of are past their work, unless a cancel or
\* a Block declared them terminal from outside.  Members whose spawn comes after
\* the beginning of the last scan are waited for by nobody.
GroupWaitSound ==
    \A c \in Callers :
        /\ at[c] \in {"returned", "notfound", "timeout"} =>
              known[c] \ Removable \subseteq Seen(seen[c])
        /\ at[c] = "returned" /\ call[c] = "wait_for_group" =>
              \A a \in known[c] \ (Removable \cup Blockable \cup aborted) : task[a] \in PastWork

\* The votes behind a verdict stand: whatever members, cancels and the guardian
\* do after the scan, an agent that was counted for a value keeps that result,
\* and its record is Done, or Cancelled from outside, or gone.
VotesStand ==
    \A c \in Callers : verdict[c] # None =>
        \A a \in Voters(seen[c]) : Registered(a) =>
            state[a] \in {"Done", "Cancelled"} /\ result[a] = seen[c][a].result

\* The agreement that a rule asks for, as the documentation of ConsensusRule words
\* it: of n agents k have reported the same value.
Agreement(rule, k, n) ==
    CASE rule.kind = "MinAgree"  -> k >= rule.n
      [] rule.kind = "Majority"  -> 2 * k > n
      [] rule.kind = "Unanimous" -> k >= n
      [] rule.kind = "Any"       -> k >= 1
      [] rule.kind = "Quorum"    -> k * rule.den >= rule.num * n

\* The same up to the precision of f64: a quorum may fall short by one part in Precision.
NearAgreement(rule, k, n) ==
    \/ Agreement(rule, k, n)
    \/ rule.kind = "Quorum" /\ k * rule.den * Precision >= rule.num * n * (Precision - 1)

\* Consensus is declared if and only if the agents that are Done with some value,
\* counted afresh, come to what the rule asks of the members seen: halving, rounding
\* and the order of values hold nothing back, whatever the quorum, and take nothing
\* off but the last bit of a product.  The others are listed as dissenting.
AchievedMeansRule ==
    \A c \in Callers : verdict[c] # None =>
        LET agree(v) == {a \in Agents : /\ seen[c][a] # None
                                        /\ seen[c][a].state = "Done"
                                        /\ seen[c][a].result = v}
            total == Cardinality(Seen(seen[c]))
            rule == verdict[c].rule
        IN  IF verdict[c].achieved
            THEN /\ NearAgreement(rule, Cardinality(agree(verdict[c].winning_value)), total)
                 /\ verdict[c].dissenting = Seen(seen[c]) \ agree(verdict[c].winning_value)
            ELSE \A v \in Values : ~Agreement(rule, Cardinality(agree(v)), total)

\* A rule that asks for more than half of the group: Majority, Unanimous, and every
\* quorum above 1/2.
Decisive(rule) ==
    \A k \in 0 .. Cardinality(Group) :
        NearAgreement(rule, k, Cardinality(Group)) => 2 * k > Cardinality(Group)

\* A majority of the whole group is never overturned: no other value comes to
\* half of the votes, now or later.  (Of a group that spawn_group has filled in
\* part, a majority can be.)
MajorityStands ==
    \A c \in Callers :
        verdict[c] # None /\ Decisive(verdict[c].rule) /\ verdict[c].achieved
            /\ Seen(seen[c]) = Group =>
        \A v \in Values \ {verdict[c].winning_value} :
            2 * Cardinality({a \in Group : state[a] = "Done" /\ result[a] = v}) < Cardinality(Group)

\* A verdict of no consensus is returned as a result only when every member that the
\* last scan cannot have missed has been seen, and each one seen is past its work or
\* was Cancelled from outside when it was seen; before that the deadline turns it into
\* ConsensusTimeout.  For the Cancelled ones the verdict is a guess: a member that was
\* cancelled during a poll, or that the guardian blocked, can go on, become Done and
\* hold the result that would have made the agreement.
DissentIsFinal ==
    \A c \in Callers :
        verdict[c] # None /\ ~verdict[c].achieved =>
            /\ known[c] \ Removable \subseteq Seen(seen[c])
            /\ \A a \in Seen(seen[c]) :
                  IF seen[c][a].state = "Cancelled" THEN a \in aborted \cup Blockable
                  ELSE task[a] \in PastWork

\* cancel_group passes no member by whose spawn had returned when it was called:
\* on return its task has the abort flag or is past its work, although the list
\* is out of date and single cancels fail.  Members without a handle yet (or
\* ever, if spawn was dropped) and those the guardian marked Cancelled before are
\* not reached.
CancelGroupReaches ==
    \A c \in Callers :
        at[c] = "returned" /\ call[c] = "cancel_group" =>
            \A a \in known[c] \ (Removable \cup Blockable) : a \in aborted \/ task[a] \in PastWork

-----------------------------------------------------------------------------
(* Liveness                                                                *)

Ended(c) == at[c] \in {"returned", "notfound", "timeout"}

\* Every group call ends: cancel_group although single cancels and wait_for take the
\* mutex, await_consensus by its deadline whatever the members do, and wait_for_group
\* unless no task ever gets a permit or a member's record is stranded, by an abort or a
\* panic: for such a record it polls for ever.
GroupCallsEnd ==
    \A c \in Callers :
        at[c] = "scan" ~>
            \/ Ended(c)
            \/ call[c] = "wait_for_group" /\ (MaxConcurrency = 0 \/ \E a \in Group : Stranded(a))

=============================================================================
