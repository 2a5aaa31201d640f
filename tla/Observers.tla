----------------------------- MODULE Observers ------------------------------
(***************************************************************************)
(* Readers of the whole registry, next to its writers.  OrchestrationSensor*)
(* and the requests of the status server are sequences of scans, while     *)
(* anybody who shares the registry registers, updates and removes agents.  *)
(*                                                                         *)
(* Readers change nothing that another reader sees, so one of them is at   *)
(* work at a time.  Of a record they use the state and updated_at: what    *)
(* set_result and set_error store is not looked at, that they refresh      *)
(* updated_at is.                                                          *)
(***************************************************************************)
EXTENDS RegistryScan

CONSTANTS
    Written,        \* states that update_state is called with
    MaxTime,        \* bound on the clock
    StuckAfter      \* stuck_threshold of the sensor, in ticks of the clock

ASSUME ObserverAssumption ==
    /\ IsFiniteSet(Agents)
    /\ Written \subseteq LifecycleStates
    /\ MaxTime \in Nat
    /\ StuckAfter \in Nat

VARIABLES
    now,
    updated_at,     \* AgentRecord::updated_at, 0 when there is no record
    view,           \* the reader at work
    shard,          \* shard its scan reads next
    seen,           \* records the scan has collected
    stamps,         \* their updated_at
    started,        \* time that detect_stuck_agents took first, 0 for the others
    ever            \* history: what each agent has been since the reader began

\* The readers, by what they scan for.
Scans == {"errors", "stuck", "health", "total", "list"}

scanVars == <<shard, seen, stamps>>
observerVars == <<registryVars, now, updated_at, view, scanVars, started, ever>>

NoStamps == [a \in Agents |-> 0]

ObserverInit ==
    /\ RegistryInit
    /\ now = 0
    /\ updated_at = NoStamps
    /\ view = "idle"
    /\ shard = 1
    /\ seen = Unread
    /\ stamps = NoStamps
    /\ started = 0
    /\ ever = [a \in Agents |-> {}]

-----------------------------------------------------------------------------
(* The history of a reader                                                 *)

\* Executing, and not updated for longer than StuckAfter before time t.
Overdue(a, t) == state[a] = "Executing" /\ t - updated_at[a] > StuckAfter

\* What the reader is after: overdue agents, or the states.
Aspect(a) ==
    IF view = "stuck" THEN (IF Overdue(a, started) THEN "overdue" ELSE "in time")
    ELSE state[a]

\* A reader starts with what is; a writer adds what it makes of an agent.
Remember ==
    ever' = [a \in Agents |->
        IF view' \notin Scans THEN {}
        ELSE {Aspect(a)'} \cup (IF view' = view THEN ever[a] ELSE {})]

Sometimes(s) == {a \in Agents : s \in ever[a]}

Always(s) == {a \in Agents : ever[a] = {s}}

-----------------------------------------------------------------------------
(* The writers                                                             *)

Stamp(a) == updated_at' = [updated_at EXCEPT ![a] = now]

Create(a) == Register(a) /\ Stamp(a)

Change(a) ==
    /\ Registered(a)
    /\ \E s \in Written : UpdateState(a, s)
    /\ Stamp(a)

\* set_result and set_error
Touch(a) ==
    /\ Registered(a)
    /\ Stamp(a)
    /\ UNCHANGED registryVars

Delete(a) ==
    /\ Remove(a)
    /\ updated_at' = [updated_at EXCEPT ![a] = 0]

Write(a) ==
    /\ Create(a) \/ Change(a) \/ Touch(a) \/ Delete(a)
    /\ UNCHANGED <<now, view, scanVars, started>>
    /\ Remember

Tick ==
    /\ now < MaxTime
    /\ now' = now + 1
    /\ UNCHANGED <<registryVars, updated_at, view, scanVars, started, ever>>

-----------------------------------------------------------------------------
(* Scans                                                                   *)

Scanned == shard > Shards

\* Fault: what the scan before collected is still there.
StartScanDirty ==
    /\ shard' = 1
    /\ UNCHANGED <<seen, stamps>>

StartScan ==
    /\ shard' = 1
    /\ seen' = Unread
    /\ stamps' = NoStamps

\* One shard: by_state(Executing) for detect_stuck_agents, every record otherwise.
ReadShard ==
    /\ view \in Scans
    /\ ~Scanned
    /\ seen' = IF view = "stuck" THEN ScanState(seen, shard, "Executing")
               ELSE ScanAll(seen, shard)
    /\ stamps' = [a \in Agents |->
           IF ShardOf[a] = shard /\ seen'[a] # None THEN updated_at[a] ELSE stamps[a]]
    /\ shard' = shard + 1
    /\ UNCHANGED <<registryVars, now, updated_at, view, started, ever>>

\* The reader turns to v with a new scan, and to a new history with a new name.
Turn(v) ==
    /\ view' = v
    /\ StartScan
    /\ started' = IF v = "stuck" THEN now ELSE 0
    /\ UNCHANGED <<registryVars, now, updated_at>>
    /\ Remember

-----------------------------------------------------------------------------

\* A scan is no snapshot, but every record in it was the agent's record at some
\* moment since the reader began, and an agent is missing only if it was absent at
\* some moment: nobody who is registered all the time is passed over, nobody who
\* never was is listed, and no state is reported that the agent never had.
ScanIsRegular ==
    view \in Scans \ {"stuck"} =>
        \A a \in Agents :
            /\ seen[a] # None => seen[a].state \in ever[a]
            /\ ShardOf[a] < shard /\ seen[a] = None => "Absent" \in ever[a]

=============================================================================
