---------------------------- MODULE ClientProofs ----------------------------
(***************************************************************************)
(* What the callers of wait_for and cancel can rely on, and what is left   *)
(* on the file system.                                                     *)
(***************************************************************************)
EXTENDS RecordProofs

-----------------------------------------------------------------------------
(* wait_for                                                                *)

\* Agents that somebody may have declared terminal from outside.
Outside == Blockable \cup aborted

\* A record says Cancelled only of those: cancel has flagged the task by the time it
\* writes.  A record is gone only if somebody may remove it.
OutsideInv ==
    /\ lock # None => lock \in aborted
    /\ \A a \in Agents :
          /\ state[a] = "Cancelled" => a \in Outside
          /\ task[a] # "none" /\ a \notin Removable => Registered(a)

LEMMA TerminalMeansPastWork ==
    ASSUME TypeOK, RecordInv, OutsideInv, NEW a \in Agents, Terminal(a)
    PROVE  task[a] \in PastWork \/ a \in Outside
<1>1. CASE state[a] = "Cancelled"
  BY <1>1 DEF OutsideInv
<1>2. CASE state[a] \in {"Done", "Error"}
  <2>1. state[a] \in StatesAt(task[a])
    BY <1>2 DEF RecordInv, StateMatchesTask
  <2> QED
    BY <1>2, <2>1 DEF StatesAt, PastWork, Stopped
<1> QED
  BY <1>1, <1>2 DEF Terminal, TerminalStates

LEMMA OutsideInvStep ==
    ASSUME TypeOK, OutsideInv, [Next]_vars
    PROVE  OutsideInv'
<1> USE DEF TypeOK, RegistryTypeOK
<1>1. CASE UNCHANGED vars
  BY <1>1 DEF vars, registryVars, taskVars, clientVars, OutsideInv, Outside, Registered
<1>2. CASE Next
  <2>1. PICK a \in Agents :
          \/ Spawn(a) \/ InsertHandle(a) \/ AbandonSpawn(a) \/ TaskStep(a)
          \/ CancelBegin(a) \/ CancelEnd(a)
          \/ WaitCall(a) \/ WaitPoll(a) \/ WaitReclaim(a)
          \/ Block(a) \/ Purge(a)
    BY <1>2 DEF Next
  <2> USE DEF OutsideInv, Outside, Registered, Goto
  <2>2. CASE Spawn(a)
    BY <2>2 DEF Spawn, Register, NewRecord
  <2>3. CASE CancelBegin(a)
    BY <2>3 DEF CancelBegin, registryVars
  <2>4. CASE CancelEnd(a)
    BY <2>4, SupervisorAssumption DEF CancelEnd, UpdateState, taskVars
  <2>5. CASE Block(a)
    BY <2>5 DEF Block, UpdateState, taskVars, clientVars
  <2>6. CASE Purge(a)
    BY <2>6 DEF Purge, Remove, taskVars, clientVars
  <2>7. CASE Start(a) \/ Enter(a) \/ Report(a) \/ Finish(a) \/ Fail(a)
    BY <2>7 DEF Start, Enter, Report, Finish, Fail, UpdateState, clientVars
  <2>8. CASE Serialize(a) \/ FailMessage(a)
    BY <2>8 DEF Serialize, FailMessage, SetResult, SetError, registryVars, clientVars
  <2>9. CASE \/ AcquirePermit(a) \/ PermitGranted(a) \/ CreateContext(a) \/ Execute(a)
              \/ Panic(a) \/ CleanUp(a) \/ Exit(a) \/ Drop(a)
    BY <2>9
    DEF AcquirePermit, PermitGranted, CreateContext, Execute, Panic, CleanUp, Exit,
        Drop, registryVars, clientVars, AwaitPoints, UserCode
  <2>10. CASE \/ InsertHandle(a) \/ AbandonSpawn(a)
              \/ WaitCall(a) \/ WaitPoll(a) \/ WaitReclaim(a)
    BY <2>10
    DEF InsertHandle, AbandonSpawn, WaitCall, WaitPoll, WaitReclaim, registryVars, taskVars
  <2> QED
    BY <2>1, <2>2, <2>3, <2>4, <2>5, <2>6, <2>7, <2>8, <2>9, <2>10 DEF TaskStep
<1> QED
  BY <1>1, <1>2

LEMMA OutsideInvHolds == Spec => []OutsideInv
<1>1. Init => OutsideInv
  BY DEF Init, RegistryInit, OutsideInv, Outside, Registered
<1>2. TypeOK /\ OutsideInv /\ [Next]_vars => OutsideInv'
  BY OutsideInvStep
<1> QED
  BY <1>1, <1>2, TypeCorrect, PTL DEF Spec

\* What no step takes back.
LEMMA Lasting ==
    ASSUME TypeOK, [Next]_vars, NEW b \in Agents
    PROVE  /\ aborted \subseteq aborted'
           /\ spawner[b] = "returned" => spawner'[b] = "returned"
           /\ Registered(b) /\ b \notin Removable => Registered(b)'
<1> USE DEF TypeOK, RegistryTypeOK, Registered, LifecycleStates
<1>1. CASE UNCHANGED vars
  BY <1>1 DEF vars, registryVars, taskVars, clientVars
<1>2. CASE Next
  <2>1. PICK a \in Agents :
          \/ Spawn(a) \/ InsertHandle(a) \/ AbandonSpawn(a) \/ TaskStep(a)
          \/ CancelBegin(a) \/ CancelEnd(a)
          \/ WaitCall(a) \/ WaitPoll(a) \/ WaitReclaim(a)
          \/ Block(a) \/ Purge(a)
    BY <1>2 DEF Next
  <2>2. CASE Spawn(a)
    BY <2>2 DEF Spawn, Register, NewRecord
  <2>3. CASE CancelEnd(a) \/ Block(a)
    BY <2>3 DEF CancelEnd, Block, UpdateState, taskVars, clientVars
  <2>4. CASE Purge(a)
    BY <2>4 DEF Purge, Remove, taskVars, clientVars
  <2>5. CASE Start(a) \/ Enter(a) \/ Report(a) \/ Finish(a) \/ Fail(a)
    BY <2>5 DEF Start, Enter, Report, Finish, Fail, UpdateState, clientVars
  <2>6. CASE Serialize(a) \/ FailMessage(a)
    BY <2>6 DEF Serialize, FailMessage, SetResult, SetError, registryVars, clientVars
  <2>7. CASE \/ AcquirePermit(a) \/ PermitGranted(a) \/ CreateContext(a) \/ Execute(a)
             \/ Panic(a) \/ CleanUp(a) \/ Exit(a) \/ Drop(a)
    BY <2>7
    DEF AcquirePermit, PermitGranted, CreateContext, Execute, Panic, CleanUp, Exit,
        Drop, registryVars, clientVars
  <2>8. CASE \/ InsertHandle(a) \/ AbandonSpawn(a) \/ CancelBegin(a)
             \/ WaitCall(a) \/ WaitPoll(a) \/ WaitReclaim(a)
    BY <2>8
    DEF InsertHandle, AbandonSpawn, CancelBegin, WaitCall, WaitPoll, WaitReclaim,
        registryVars, taskVars
  <2> QED
    BY <2>1, <2>2, <2>3, <2>4, <2>5, <2>6, <2>7, <2>8 DEF TaskStep
<1> QED
  BY <1>1, <1>2

\* A task that is past its work stays there.
LEMMA PastWorkStays ==
    ASSUME TypeOK, SpawnOrder, [Next]_vars, NEW b \in Agents, task[b] \in PastWork
    PROVE  task'[b] \in PastWork
<1> USE DEF PastWork, Stopped, TypeOK, Goto
<1>1. CASE UNCHANGED vars
  BY <1>1 DEF vars, taskVars
<1>2. CASE Next
  <2>1. PICK a \in Agents :
          \/ Spawn(a) \/ InsertHandle(a) \/ AbandonSpawn(a) \/ TaskStep(a)
          \/ CancelBegin(a) \/ CancelEnd(a)
          \/ WaitCall(a) \/ WaitPoll(a) \/ WaitReclaim(a)
          \/ Block(a) \/ Purge(a)
    BY <1>2 DEF Next
  <2>2. CASE Spawn(a)
    BY <2>2 DEF Spawn, SpawnOrder
  <2>3. CASE \/ Start(a) \/ AcquirePermit(a) \/ PermitGranted(a) \/ CreateContext(a)
             \/ Enter(a) \/ Execute(a) \/ Panic(a) \/ Report(a) \/ Serialize(a)
    BY <2>3
    DEF Start, AcquirePermit, PermitGranted, CreateContext, Enter, Execute, Panic,
        Report, Serialize
  <2>4. CASE \/ Finish(a) \/ Fail(a) \/ FailMessage(a) \/ CleanUp(a) \/ Exit(a) \/ Drop(a)
    BY <2>4 DEF Finish, Fail, FailMessage, CleanUp, Exit, Drop, AwaitPoints
  <2>5. CASE \/ InsertHandle(a) \/ AbandonSpawn(a) \/ CancelBegin(a) \/ CancelEnd(a) \/ WaitCall(a)
             \/ WaitPoll(a) \/ WaitReclaim(a) \/ Block(a) \/ Purge(a)
    BY <2>5
    DEF InsertHandle, AbandonSpawn, CancelBegin, CancelEnd, WaitCall, WaitPoll, WaitReclaim,
        Block, Purge, taskVars
  <2> QED
    BY <2>1, <2>2, <2>3, <2>4, <2>5 DEF TaskStep
<1> QED
  BY <1>1, <1>2

\* The record that wait_for comes back with is one the task had written its last state
\* to, or one that cancel or Block had marked Cancelled.
THEOREM WaitIsNotEarly == Spec => []WaitReturnsAfterWork
<1> USE DEF WaitReturnsAfterWork
<1>1. Init => WaitReturnsAfterWork
  BY DEF Init
<1>2. TypeOK /\ SpawnOrder /\ RecordInv /\ OutsideInv
        /\ WaitReturnsAfterWork /\ [Next]_vars => WaitReturnsAfterWork'
  <2> SUFFICES ASSUME TypeOK, SpawnOrder, RecordInv, OutsideInv,
                      WaitReturnsAfterWork, [Next]_vars,
                      NEW b \in Agents, waiter'[b] \in {"reclaim", "returned"}
               PROVE  \/ snapshot'[b].state \in {"Done", "Error"} /\ task'[b] \in PastWork
                      \/ snapshot'[b].state = "Cancelled" /\ b \in aborted' \cup Blockable
    OBVIOUS
  <2>1. aborted \subseteq aborted' /\ (task[b] \in PastWork => task'[b] \in PastWork)
    BY Lasting, PastWorkStays
  <2>2. CASE /\ waiter[b] \in {"reclaim", "returned"}
             /\ snapshot'[b] = snapshot[b]
    BY <2>1, <2>2
  <2>3. CASE WaitPoll(b)
    <3>1. Terminal(b) /\ snapshot'[b] = Record(b) /\ UNCHANGED task
      BY <2>3 DEF WaitPoll, TypeOK, taskVars
    <3>2. Record(b).state = state[b]
      BY DEF Record
    <3>3. CASE state[b] = "Cancelled"
      BY <2>1, <3>1, <3>2, <3>3 DEF OutsideInv, Outside
    <3>4. CASE state[b] \in {"Done", "Error"}
      <4>1. task[b] \in PastWork
        BY <3>4 DEF RecordInv, StateMatchesTask, StatesAt, PastWork, Stopped
      <4> QED
        BY <3>1, <3>2, <3>4, <4>1
    <3> QED
      BY <3>1, <3>3, <3>4 DEF Terminal, TerminalStates
  <2>4. CASE UNCHANGED vars
    BY <2>2, <2>4 DEF vars, clientVars
  <2>5. CASE Next
    <3>1. PICK a \in Agents :
            \/ Spawn(a) \/ InsertHandle(a) \/ AbandonSpawn(a) \/ TaskStep(a)
            \/ CancelBegin(a) \/ CancelEnd(a)
            \/ WaitCall(a) \/ WaitPoll(a) \/ WaitReclaim(a)
            \/ Block(a) \/ Purge(a)
      BY <2>5 DEF Next
    <3>2. CASE TaskStep(a)
      <4>1. UNCHANGED <<waiter, snapshot>>
        BY <3>2
        DEF TaskStep, Start, AcquirePermit, PermitGranted, CreateContext, Enter,
            Execute, Panic, Report, Serialize, Finish, Fail, FailMessage, CleanUp,
            Exit, Drop, clientVars
      <4> QED
        BY <2>2, <4>1
    <3>3. CASE WaitPoll(a) \/ WaitCall(a) \/ WaitReclaim(a)
      BY <2>2, <2>3, <3>3 DEF WaitPoll, WaitCall, WaitReclaim, TypeOK
    <3>4. CASE \/ Spawn(a) \/ InsertHandle(a) \/ AbandonSpawn(a)
               \/ CancelBegin(a) \/ CancelEnd(a) \/ Block(a) \/ Purge(a)
      BY <2>2, <3>4
      DEF Spawn, InsertHandle, AbandonSpawn, CancelBegin, CancelEnd, Block, Purge, clientVars
    <3> QED
      BY <3>1, <3>2, <3>3, <3>4
  <2> QED
    BY <2>4, <2>5
<1> QED
  BY <1>1, <1>2, TypeCorrect, SpawnOrderHolds, RecordInvHolds, OutsideInvHolds,
     PTL DEF Spec

-----------------------------------------------------------------------------
(* cancel                                                                  *)

\* Once spawn has returned, a task that has work to do has its handle in the map or has
\* been flagged by cancel, unless Block marked the agent Cancelled and a wait_for that
\* returned this record threw the handle away: wait_for drops no other handle early.
THEOREM LiveTasksAreReachable == Spec => []LiveTaskHasHandle
<1> USE DEF LiveTaskHasHandle, TypeOK
<1>1. Init => LiveTaskHasHandle
  BY DEF Init
<1>2. TypeOK /\ SpawnOrder /\ WaitReturnsAfterWork /\ LiveTaskHasHandle /\ [Next]_vars
        => LiveTaskHasHandle'
  <2> SUFFICES ASSUME TypeOK, SpawnOrder, WaitReturnsAfterWork, LiveTaskHasHandle, [Next]_vars
               PROVE  LiveTaskHasHandle'
    OBVIOUS
  <2>1. CASE UNCHANGED vars
    BY <2>1 DEF vars, taskVars, clientVars
  <2>2. CASE Next
    <3>1. PICK a \in Agents :
            \/ Spawn(a) \/ InsertHandle(a) \/ AbandonSpawn(a) \/ TaskStep(a)
            \/ CancelBegin(a) \/ CancelEnd(a)
            \/ WaitCall(a) \/ WaitPoll(a) \/ WaitReclaim(a)
            \/ Block(a) \/ Purge(a)
      BY <2>2 DEF Next
    <3>2. CASE Spawn(a)
      BY <3>2 DEF Spawn, Goto
    <3>3. CASE InsertHandle(a) \/ AbandonSpawn(a)
      BY <3>3 DEF InsertHandle, AbandonSpawn, taskVars
    <3>4. CASE TaskStep(a)
      <4>1. UNCHANGED <<clientVars, aborted>> /\ \E p : Goto(a, p)
        BY <3>4
        DEF TaskStep, Start, AcquirePermit, PermitGranted, CreateContext, Enter,
            Execute, Panic, Report, Serialize, Finish, Fail, FailMessage, CleanUp,
            Exit, Drop
      <4>2. \A b \in Agents : task[b] \in PastWork => task'[b] \in PastWork
        BY PastWorkStays
      <4> QED
        BY <4>1, <4>2 DEF clientVars
    <3>5. CASE CancelBegin(a) \/ CancelEnd(a)
      BY <3>5 DEF CancelBegin, CancelEnd, taskVars
    <3>6. CASE WaitCall(a) \/ WaitPoll(a)
      BY <3>6 DEF WaitCall, WaitPoll, taskVars
    <3>7. CASE WaitReclaim(a)
      BY <3>7 DEF WaitReclaim, WaitReturnsAfterWork, taskVars
    <3>8. CASE Block(a) \/ Purge(a)
      BY <3>8 DEF Block, Purge, taskVars, clientVars
    <3> QED
      BY <3>1, <3>2, <3>3, <3>4, <3>5, <3>6, <3>7, <3>8
  <2> QED
    BY <2>1, <2>2
<1> QED
  BY <1>1, <1>2, TypeCorrect, SpawnOrderHolds, WaitIsNotEarly, PTL DEF Spec

-----------------------------------------------------------------------------
(* Context directories                                                     *)

\* Where a task stands while its directory exists; the one path that skips the
\* removal is that of a directory that was never made.
ContextOrder ==
    Cleanup /\ "rmdir" \notin Faults =>
        \A a \in contexts :
            /\ task[a] \in (WithPermit \ {"create", "exit"}) \cup {"dropped", "panicked"}
            /\ outcome[a] # "mkdir"

\* With cleanup_contexts, and if the file system removes what it is told to, a task
\* that ran to its end left no directory behind.
THEOREM ContextsAreRemoved == Spec => []ContextRemoved
<1> USE DEF ContextOrder, TypeOK, WithPermit
<1>1. Init => ContextOrder
  BY DEF Init
<1>2. TypeOK /\ SpawnOrder /\ RecordInv /\ ContextOrder /\ [Next]_vars => ContextOrder'
  <2> SUFFICES ASSUME TypeOK, SpawnOrder, RecordInv, ContextOrder, [Next]_vars,
                      Cleanup, "rmdir" \notin Faults
               PROVE  ContextOrder'
    OBVIOUS
  <2>1. CASE UNCHANGED vars
    BY <2>1 DEF vars, taskVars
  <2>2. CASE Next
    <3>1. PICK a \in Agents :
            \/ Spawn(a) \/ InsertHandle(a) \/ AbandonSpawn(a) \/ TaskStep(a)
            \/ CancelBegin(a) \/ CancelEnd(a)
            \/ WaitCall(a) \/ WaitPoll(a) \/ WaitReclaim(a)
            \/ Block(a) \/ Purge(a)
      BY <2>2 DEF Next
    <3> USE DEF Goto
    <3>2. CASE Spawn(a)
      BY <3>2 DEF Spawn, SpawnOrder
    <3>3. CASE Start(a) \/ AcquirePermit(a) \/ PermitGranted(a) \/ Enter(a) \/ Report(a)
      BY <3>3 DEF Start, AcquirePermit, PermitGranted, Enter, Report
    <3>4. CASE CreateContext(a)
      <4>1. outcome[a] = None /\ a \notin contexts /\ None # "mkdir"
        BY <3>4, ErrorAssumption DEF CreateContext, RecordInv, FaultOrder, Errors
      <4> QED
        BY <3>4, <4>1 DEF CreateContext, CreateDirectory
    <3>5. CASE Execute(a) \/ Serialize(a)
      BY <3>5 DEF Execute, Serialize
    <3>6. CASE Finish(a) \/ Fail(a) \/ FailMessage(a) \/ CleanUp(a)
      BY <3>6 DEF Finish, Fail, FailMessage, CleanUp, RemoveDirectory
    <3>7. CASE Panic(a) \/ Exit(a) \/ Drop(a)
      BY <3>7 DEF Panic, Exit, Drop, AwaitPoints
    <3>8. CASE \/ InsertHandle(a) \/ AbandonSpawn(a) \/ CancelBegin(a) \/ CancelEnd(a) \/ WaitCall(a)
               \/ WaitPoll(a) \/ WaitReclaim(a) \/ Block(a) \/ Purge(a)
      BY <3>8
      DEF InsertHandle, AbandonSpawn, CancelBegin, CancelEnd, WaitCall, WaitPoll, WaitReclaim,
          Block, Purge, taskVars
    <3> QED
      BY <3>1, <3>2, <3>3, <3>4, <3>5, <3>6, <3>7, <3>8 DEF TaskStep
  <2> QED
    BY <2>1, <2>2
<1>3. ContextOrder => ContextRemoved
  BY DEF ContextRemoved
<1> QED
  BY <1>1, <1>2, <1>3, TypeCorrect, SpawnOrderHolds, RecordInvHolds, PTL DEF Spec

-----------------------------------------------------------------------------
(* Every change of a record, and what is left of one                       *)

\* The arrows of the state machine in src/src/agent/mod.rs:14-20, and the birth of the
\* record; the arrow to Cancelled is dealt with in RecordStep.
LifecycleEdges ==
    {<<"Absent", "Queued">>, <<"Queued", "Acquiring">>, <<"Acquiring", "Executing">>,
     <<"Executing", "Reporting">>, <<"Reporting", "Done">>, <<"Reporting", "Error">>}

\* A context that could not be made; an execution that failed or timed out.  The machine
\* has no such arrows.
EarlyErrors ==
    {<<"Acquiring", "mkdir">>, <<"Executing", "failed">>, <<"Executing", "timeout">>}

EarlyError(a) == <<state[a], outcome[a]>> \in EarlyErrors /\ state'[a] = "Error"

\* A task writes over Cancelled.
Resurrected(a) ==
    /\ state[a] = "Cancelled"
    /\ a \in aborted \cup Blockable
    /\ task[a] \notin PastWork /\ task'[a] # task[a]
    /\ state'[a] \in StatesAt(task'[a])

RecordStep(a) ==
    \/ <<state[a], state'[a]>> \in LifecycleEdges
    \/ EarlyError(a)
    \/ state'[a] = "Absent" /\ a \in Removable
    \/ state'[a] = "Cancelled" /\ (lock = a \/ a \in Blockable)
    \/ Resurrected(a)

RecordsStep == \A a \in Agents : state'[a] # state[a] => RecordStep(a)

\* The registry checks no transition, and yet every change of any record is an arrow of
\* the documented state machine or one of these: an early error, a removal, a cancel
\* under the mutex or a Block (both from any state, while the machine draws Cancelled
\* after Executing only), and the one thing the documentation rules out: a task that is
\* flagged or was blocked, and is not past its work, writes over Cancelled.
RecordsMoveForward == [][RecordsStep]_vars

\* What went wrong says where the task stood.
FaultPlace ==
    \A a \in Agents : task[a] = "fail" =>
        state[a] \in {"Absent", "Cancelled", "Reporting"} \/ <<state[a], outcome[a]>> \in EarlyErrors

LEMMA FaultPlaceHolds == Spec => []FaultPlace
<1>1. Init => FaultPlace
  BY DEF Init, FaultPlace
<1>2. TypeOK /\ RecordInv /\ FaultPlace /\ [Next]_vars => FaultPlace'
  <2> SUFFICES ASSUME TypeOK, RecordInv, FaultPlace, [Next]_vars PROVE FaultPlace'
    OBVIOUS
  <2> USE DEF FaultPlace, TypeOK, RegistryTypeOK
  <2>0. StateMatchesTask
    BY DEF RecordInv
  <2>1. CASE UNCHANGED vars
    BY <2>1 DEF vars, registryVars, taskVars
  <2>2. CASE Next
    <3>1. PICK a \in Agents :
            \/ Spawn(a) \/ InsertHandle(a) \/ AbandonSpawn(a) \/ TaskStep(a)
            \/ CancelBegin(a) \/ CancelEnd(a)
            \/ WaitCall(a) \/ WaitPoll(a) \/ WaitReclaim(a)
            \/ Block(a) \/ Purge(a)
      BY <2>2 DEF Next
    <3> USE DEF Goto
    <3>2. CASE CreateContext(a)
      <4>1. state[a] \in {"Absent", "Cancelled", "Acquiring"}
        BY <2>0, <3>2 DEF CreateContext, StateMatchesTask, StatesAt
      <4> QED
        BY <3>2, <4>1 DEF CreateContext, EarlyErrors, registryVars
    <3>3. CASE Execute(a)
      <4>1. state[a] \in {"Absent", "Cancelled", "Executing"}
        BY <2>0, <3>3 DEF Execute, StateMatchesTask, StatesAt
      <4> QED
        BY <3>3, <4>1 DEF Execute, EarlyErrors, registryVars
    <3>4. CASE Serialize(a)
      <4>1. state[a] \in {"Absent", "Cancelled", "Reporting"}
        BY <2>0, <3>4 DEF Serialize, StateMatchesTask, StatesAt
      <4> QED
        BY <3>4, <4>1 DEF Serialize, SetResult, registryVars
    <3>5. CASE Spawn(a) \/ Start(a) \/ Enter(a) \/ Report(a) \/ Finish(a) \/ Fail(a)
      BY <3>5 DEF Spawn, Start, Enter, Report, Finish, Fail, Register, NewRecord, UpdateState
    <3>6. CASE \/ AcquirePermit(a) \/ PermitGranted(a) \/ Panic(a) \/ FailMessage(a)
               \/ CleanUp(a) \/ Exit(a) \/ Drop(a)
      BY <3>6
      DEF AcquirePermit, PermitGranted, Panic, FailMessage, SetError, CleanUp, Exit, Drop,
          registryVars
    <3>7. CASE CancelEnd(a) \/ Block(a) \/ Purge(a)
      BY <3>7 DEF CancelEnd, Block, Purge, UpdateState, Remove, taskVars
    <3>8. CASE \/ InsertHandle(a) \/ AbandonSpawn(a) \/ CancelBegin(a)
               \/ WaitCall(a) \/ WaitPoll(a) \/ WaitReclaim(a)
      BY <3>8
      DEF InsertHandle, AbandonSpawn, CancelBegin, WaitCall, WaitPoll, WaitReclaim,
          registryVars, taskVars
    <3> QED
      BY <3>1, <3>2, <3>3, <3>4, <3>5, <3>6, <3>7, <3>8 DEF TaskStep
  <2> QED
    BY <2>1, <2>2
<1> QED
  BY <1>1, <1>2, TypeCorrect, RecordInvHolds, PTL DEF Spec

\* At every place where a task writes a state, StateMatchesTask leaves the source of an
\* arrow, Cancelled or no record at all.
THEOREM RecordChangesAreKnown == Spec => RecordsMoveForward
<1>1. ASSUME TypeOK, SpawnOrder, RecordInv, OutsideInv, FaultPlace, RecordInv', Next
      PROVE  RecordsStep
  <2> USE <1>1 DEF TypeOK, RegistryTypeOK
  <2>1. PICK a \in Agents :
          \/ Spawn(a) \/ InsertHandle(a) \/ AbandonSpawn(a) \/ TaskStep(a)
          \/ CancelBegin(a) \/ CancelEnd(a)
          \/ WaitCall(a) \/ WaitPoll(a) \/ WaitReclaim(a)
          \/ Block(a) \/ Purge(a)
    BY DEF Next
  <2>2. CASE Spawn(a)
    BY <2>2 DEF Spawn, Register, Registered, NewRecord, RecordsStep, RecordStep, LifecycleEdges
  <2>3. ASSUME NEW s \in LifecycleStates, UpdateState(a, s),
               \/ <<state[a], s>> \in LifecycleEdges
               \/ s = "Error" /\ <<state[a], outcome[a]>> \in EarlyErrors
               \/ state[a] = "Cancelled",
               task[a] \notin PastWork, task'[a] # task[a]
        PROVE  RecordsStep
    <3> SUFFICES ASSUME NEW b \in Agents, state'[b] # state[b] PROVE RecordStep(b)
      BY DEF RecordsStep
    <3>1. b = a /\ state'[a] = s
      BY <2>3 DEF UpdateState
    <3>2. CASE \/ <<state[a], s>> \in LifecycleEdges
               \/ s = "Error" /\ <<state[a], outcome[a]>> \in EarlyErrors
      BY <3>1, <3>2 DEF RecordStep, EarlyError
    <3>3. CASE state[a] = "Cancelled"
      <4>1. state'[a] \in StatesAt(task'[a])
        BY <2>3, <3>1, <3>3 DEF RecordInv, StateMatchesTask, LifecycleStates
      <4> QED
        BY <2>3, <3>1, <3>3, <4>1 DEF RecordStep, Resurrected, OutsideInv, Outside
    <3> QED
      BY <2>3, <3>2, <3>3
  <2>4. CASE Start(a) \/ Enter(a) \/ Report(a) \/ Finish(a) \/ Fail(a)
    <3> USE <2>3 DEF LifecycleStates, PastWork, Stopped, Goto
    <3>1. state[a] \in {"Absent", "Cancelled"} \cup StatesAt(task[a])
      BY DEF RecordInv, StateMatchesTask
    <3>2. state[a] = "Absent" => UNCHANGED state
      BY <2>4 DEF Start, Enter, Report, Finish, Fail, UpdateState, Registered
    <3>3. CASE UNCHANGED state
      BY <3>3 DEF RecordsStep
    <3>4. CASE state[a] # "Absent" /\ Start(a)
      BY <3>1, <3>4 DEF Start, StatesAt, Registered, LifecycleEdges
    <3>5. CASE state[a] # "Absent" /\ (Enter(a) \/ Report(a))
      BY <3>1, <3>5 DEF Enter, Report, StatesAt, LifecycleEdges
    <3>6. CASE state[a] # "Absent" /\ Finish(a)
      BY <3>1, <3>6 DEF Finish, StatesAt, LifecycleEdges
    <3>7. CASE state[a] # "Absent" /\ Fail(a)
      <4>1. \/ state[a] \in {"Cancelled", "Reporting"}
            \/ <<state[a], outcome[a]>> \in EarlyErrors
        BY <3>7 DEF Fail, FaultPlace
      <4> QED
        BY <3>7, <4>1 DEF Fail, LifecycleEdges
    <3> QED
      BY <2>4, <3>2, <3>3, <3>4, <3>5, <3>6, <3>7
  <2>5. CASE CancelEnd(a) \/ Block(a) \/ Purge(a)
    BY <2>5 DEF CancelEnd, Block, Purge, UpdateState, Remove, RecordsStep, RecordStep
  <2>6. CASE \/ AcquirePermit(a) \/ PermitGranted(a) \/ CreateContext(a) \/ Execute(a)
             \/ Panic(a) \/ Serialize(a) \/ FailMessage(a) \/ CleanUp(a) \/ Exit(a)
             \/ Drop(a)
    BY <2>6
    DEF AcquirePermit, PermitGranted, CreateContext, Execute, Panic, Serialize,
        FailMessage, CleanUp, Exit, Drop, SetResult, SetError, registryVars, RecordsStep
  <2>7. CASE \/ InsertHandle(a) \/ AbandonSpawn(a) \/ CancelBegin(a)
             \/ WaitCall(a) \/ WaitPoll(a) \/ WaitReclaim(a)
    BY <2>7
    DEF InsertHandle, AbandonSpawn, CancelBegin, WaitCall, WaitPoll, WaitReclaim,
        registryVars, RecordsStep
  <2> QED
    BY <2>1, <2>2, <2>4, <2>5, <2>6, <2>7 DEF TaskStep
<1>2. TypeOK /\ SpawnOrder /\ RecordInv /\ OutsideInv /\ FaultPlace /\ RecordInv' /\ [Next]_vars
        => [RecordsStep]_vars
  BY <1>1
<1> QED
  BY <1>2, TypeCorrect, SpawnOrderHolds, RecordInvHolds, OutsideInvHolds, FaultPlaceHolds, PTL
  DEF Spec, RecordsMoveForward

\* Nobody but cancel aborts a task, only an aborted task is dropped, and only code that
\* may panic does.
AbortInv ==
    /\ aborted \subseteq Cancellable
    /\ \A a \in Agents : task[a] = "dropped" => a \in aborted
    /\ \A a \in Agents : task[a] = "panicked" => a \in Panicky

LEMMA AbortInvHolds == Spec => []AbortInv
<1>1. Init => AbortInv
  BY DEF Init, AbortInv
<1>2. TypeOK /\ AbortInv /\ [Next]_vars => AbortInv'
  <2> SUFFICES ASSUME TypeOK, AbortInv, [Next]_vars PROVE AbortInv'
    OBVIOUS
  <2> USE DEF AbortInv, TypeOK
  <2>1. CASE UNCHANGED vars
    BY <2>1 DEF vars, taskVars
  <2>2. CASE Next
    <3>1. PICK a \in Agents :
            \/ Spawn(a) \/ InsertHandle(a) \/ AbandonSpawn(a) \/ TaskStep(a)
            \/ CancelBegin(a) \/ CancelEnd(a)
            \/ WaitCall(a) \/ WaitPoll(a) \/ WaitReclaim(a)
            \/ Block(a) \/ Purge(a)
      BY <2>2 DEF Next
    <3>2. CASE Drop(a)
      BY <3>2 DEF Drop, Goto
    <3>3. CASE Panic(a)
      BY <3>3 DEF Panic, Goto
    <3>4. CASE TaskStep(a) /\ ~Drop(a) /\ ~Panic(a)
      <4>1. UNCHANGED aborted /\ \E p : Goto(a, p) /\ p \notin {"dropped", "panicked"}
        BY <3>4
        DEF TaskStep, Start, AcquirePermit, PermitGranted, CreateContext, Enter,
            Execute, Report, Serialize, Finish, Fail, FailMessage, CleanUp, Exit
      <4> QED
        BY <4>1 DEF Goto
    <3>5. CASE Spawn(a) \/ CancelBegin(a)
      BY <3>5 DEF Spawn, CancelBegin, Goto
    <3>6. CASE \/ InsertHandle(a) \/ AbandonSpawn(a) \/ CancelEnd(a)
               \/ WaitCall(a) \/ WaitPoll(a) \/ WaitReclaim(a) \/ Block(a) \/ Purge(a)
      BY <3>6
      DEF InsertHandle, AbandonSpawn, CancelEnd, WaitCall, WaitPoll, WaitReclaim, Block,
          Purge, taskVars
    <3> QED
      BY <3>1, <3>2, <3>3, <3>4, <3>5, <3>6
  <2> QED
    BY <2>1, <2>2
<1> QED
  BY <1>1, <1>2, TypeCorrect, PTL DEF Spec

\* Of all tasks that have stopped, only two kinds leave a record that is not terminal and
\* that no task will finish: those that cancel aborted at an await point, and those whose
\* code panicked, in execute or while its output was serialised.  The record says where
\* the task stood.
NobodyElseIsStranded ==
    \A a \in Agents : task[a] \in Stopped /\ Registered(a) /\ ~Terminal(a) =>
        \/ /\ task[a] = "dropped" /\ a \in aborted \cap Cancellable
           /\ state[a] \in {"Queued", "Acquiring", "Executing"}
        \/ /\ task[a] = "panicked" /\ a \in Panicky
           /\ state[a] \in {"Executing", "Reporting"}

\* The safety half of the exceptions that WaitEnds and GroupCallsEnd make.  (A task that
\* has not stopped can keep wait_for polling as well: without a permit it never ends.)
THEOREM StrandedRecords == Spec => []NobodyElseIsStranded
<1>1. TypeOK /\ RecordInv /\ AbortInv => NobodyElseIsStranded
  BY DEF RecordInv, StateMatchesTask, StatesAt, AbortInv, NobodyElseIsStranded, Stopped,
         Registered, Terminal, TerminalStates, TypeOK
<1> QED
  BY <1>1, TypeCorrect, RecordInvHolds, AbortInvHolds, PTL

-----------------------------------------------------------------------------
(* Every task is aborted at most once                                      *)

\* A handle is in the map only after spawn has returned, and never again once cancel
\* has taken it out.
HandleInv ==
    /\ \A a \in handles : spawner[a] = "returned" /\ a \notin aborted
    /\ \A a \in aborted : spawner[a] = "returned"

LEMMA HandleInvHolds == Spec => []HandleInv
<1>1. Init => HandleInv
  BY DEF Init, HandleInv
<1>2. TypeOK /\ HandleInv /\ [Next]_vars => HandleInv'
  <2> SUFFICES ASSUME TypeOK, HandleInv, [Next]_vars PROVE HandleInv'
    OBVIOUS
  <2> USE DEF HandleInv, TypeOK
  <2>1. CASE UNCHANGED vars
    BY <2>1 DEF vars, taskVars, clientVars
  <2>2. CASE Next
    <3>1. PICK a \in Agents :
            \/ Spawn(a) \/ InsertHandle(a) \/ AbandonSpawn(a) \/ TaskStep(a)
            \/ CancelBegin(a) \/ CancelEnd(a)
            \/ WaitCall(a) \/ WaitPoll(a) \/ WaitReclaim(a)
            \/ Block(a) \/ Purge(a)
      BY <2>2 DEF Next
    <3>2. CASE Spawn(a)
      BY <3>2 DEF Spawn
    <3>3. CASE InsertHandle(a) \/ AbandonSpawn(a)
      BY <3>3 DEF InsertHandle, AbandonSpawn, taskVars
    <3>4. CASE CancelBegin(a) \/ WaitReclaim(a)
      BY <3>4 DEF CancelBegin, WaitReclaim, taskVars
    <3>5. CASE TaskStep(a)
      BY <3>5
      DEF TaskStep, Start, AcquirePermit, PermitGranted, CreateContext, Enter, Execute,
          Panic, Report, Serialize, Finish, Fail, FailMessage, CleanUp, Exit, Drop, clientVars
    <3>6. CASE CancelEnd(a) \/ WaitCall(a) \/ WaitPoll(a) \/ Block(a) \/ Purge(a)
      BY <3>6 DEF CancelEnd, WaitCall, WaitPoll, Block, Purge, taskVars, clientVars
    <3> QED
      BY <3>1, <3>2, <3>3, <3>4, <3>5, <3>6
  <2> QED
    BY <2>1, <2>2
<1> QED
  BY <1>1, <1>2, TypeCorrect, PTL DEF Spec

\* Of all the cancels of one agent, alone or in a group, at most one finds its handle:
\* a task is flagged once, by the cancel that then holds the mutex, and keeps the flag.
AbortStep ==
    IF lock' \notin {lock, None}
    THEN lock' \notin aborted /\ aborted' = aborted \cup {lock'}
    ELSE aborted' = aborted

AbortsAreUnique == [][AbortStep]_vars

\* The mutex guards the map, but the flag is set on a handle already taken out.
THEOREM AbortedOnce == Spec => AbortsAreUnique
<1>1. ASSUME TypeOK, HandleInv, Next PROVE AbortStep
  <2> USE <1>1 DEF TypeOK, AbortStep
  <2>1. PICK a \in Agents :
          \/ Spawn(a) \/ InsertHandle(a) \/ AbandonSpawn(a) \/ TaskStep(a)
          \/ CancelBegin(a) \/ CancelEnd(a)
          \/ WaitCall(a) \/ WaitPoll(a) \/ WaitReclaim(a)
          \/ Block(a) \/ Purge(a)
    BY DEF Next
  <2>2. CASE CancelBegin(a)
    BY <2>2, SupervisorAssumption DEF CancelBegin, HandleInv
  <2>3. CASE CancelEnd(a)
    BY <2>3 DEF CancelEnd, taskVars
  <2>4. CASE TaskStep(a)
    BY <2>4
    DEF TaskStep, Start, AcquirePermit, PermitGranted, CreateContext, Enter, Execute,
        Panic, Report, Serialize, Finish, Fail, FailMessage, CleanUp, Exit, Drop, clientVars
  <2>5. CASE \/ Spawn(a) \/ InsertHandle(a) \/ AbandonSpawn(a)
             \/ WaitCall(a) \/ WaitPoll(a) \/ WaitReclaim(a) \/ Block(a) \/ Purge(a)
    BY <2>5
    DEF Spawn, InsertHandle, AbandonSpawn, WaitCall, WaitPoll, WaitReclaim, Block, Purge,
        taskVars, clientVars
  <2> QED
    BY <2>1, <2>2, <2>3, <2>4, <2>5
<1>2. TypeOK /\ HandleInv /\ [Next]_vars => [AbortStep]_vars
  BY <1>1
<1> QED
  BY <1>2, TypeCorrect, HandleInvHolds, PTL DEF Spec, AbortsAreUnique

=============================================================================
