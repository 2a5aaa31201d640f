---------------------------- MODULE RecordProofs ----------------------------
(***************************************************************************)
(* What the records say about the tasks.  Between the two stand callers    *)
(* that write states of their own (cancel, Block) and a registry that      *)
(* checks no transition, so the invariant lists, for every position of a   *)
(* task, the states that the task itself wrote; a record is in one of them *)
(* unless it was cancelled from outside or is gone.                        *)
(***************************************************************************)
EXTENDS PermitProofs

\* States the task at position p can have left in its record.
StatesAt(p) ==
    CASE p = "ready" -> {"Queued"}
      [] p \in {"acquire", "waiting", "create", "enter"} -> {"Acquiring"}
      [] p \in {"execute", "report"} -> {"Executing"}
      [] p = "panicked" -> {"Executing", "Reporting"}
      [] p \in {"serialize", "finish"} -> {"Reporting"}
      [] p = "fail" -> {"Acquiring", "Executing", "Reporting"}
      [] p = "failmsg" -> {"Error"}
      [] p \in {"cleanup", "exit", "finished"} -> {"Done", "Error"}
      [] p = "dropped" -> {"Queued", "Acquiring", "Executing"}
      [] OTHER -> {}

StateMatchesTask ==
    \A a \in Agents : state[a] \in {"Absent", "Cancelled"} \cup StatesAt(task[a])

\* A fault is known only on the error path, and comes before the message.
FaultOrder ==
    \A a \in Agents :
        /\ outcome[a] # None => task[a] \in {"fail", "failmsg", "cleanup", "exit", "finished"}
        /\ error[a] # None => outcome[a] # None

\* The result is stored before the record says Done, and nothing failed then.
ResultOrder ==
    \A a \in Agents :
        /\ task[a] = "finish" /\ Registered(a) => result[a] # None
        /\ state[a] = "Done" => result[a] # None /\ outcome[a] = None

RecordInv == StateMatchesTask /\ FaultOrder /\ ResultOrder

-----------------------------------------------------------------------------
(* Calls of the clients never move a task; tasks never touch a snapshot.   *)

LEMMA StateMatchesTaskStep ==
    ASSUME TypeOK, SpawnOrder, StateMatchesTask, [Next]_vars
    PROVE  StateMatchesTask'
<1> USE DEF StateMatchesTask, TypeOK, RegistryTypeOK
<1>1. CASE UNCHANGED vars
  BY <1>1 DEF vars, registryVars, taskVars
<1>2. CASE Next
  <2>1. PICK a \in Agents :
          \/ Spawn(a) \/ InsertHandle(a) \/ AbandonSpawn(a) \/ TaskStep(a)
          \/ CancelBegin(a) \/ CancelEnd(a)
          \/ WaitCall(a) \/ WaitPoll(a) \/ WaitReclaim(a)
          \/ Block(a) \/ Purge(a)
    BY <1>2 DEF Next
  <2>2. CASE Spawn(a)
    BY <2>2 DEF Spawn, Register, NewRecord, Goto, StatesAt
  <2>3. CASE Start(a)
    BY <2>3 DEF Start, UpdateState, Registered, Goto, StatesAt
  <2>4. CASE AcquirePermit(a) \/ PermitGranted(a)
    BY <2>4 DEF AcquirePermit, PermitGranted, Goto, StatesAt, registryVars
  <2>5. CASE CreateContext(a) \/ Execute(a)
    BY <2>5 DEF CreateContext, Execute, Goto, StatesAt, registryVars
  <2>6. CASE Enter(a) \/ Report(a)
    BY <2>6 DEF Enter, Report, UpdateState, Registered, Goto, StatesAt
  <2>7. CASE Finish(a) \/ Fail(a)
    BY <2>7 DEF Finish, Fail, UpdateState, Registered, Goto, StatesAt
  <2>8. CASE Serialize(a) \/ FailMessage(a)
    BY <2>8 DEF Serialize, FailMessage, SetResult, SetError, Goto, StatesAt, registryVars
  <2>9. CASE CleanUp(a) \/ Exit(a) \/ Panic(a)
    BY <2>9 DEF CleanUp, Exit, Panic, UserCode, Goto, StatesAt, registryVars
  <2>10. CASE Drop(a)
    BY <2>10 DEF Drop, AwaitPoints, Goto, StatesAt, registryVars
  <2>11. CASE CancelEnd(a) \/ Block(a) \/ Purge(a)
    BY <2>11 DEF CancelEnd, Block, Purge, UpdateState, Remove, taskVars
  <2>12. CASE \/ InsertHandle(a) \/ AbandonSpawn(a) \/ CancelBegin(a)
              \/ WaitCall(a) \/ WaitPoll(a) \/ WaitReclaim(a)
    BY <2>12
    DEF InsertHandle, AbandonSpawn, CancelBegin, WaitCall, WaitPoll, WaitReclaim, registryVars, taskVars
  <2> QED
    BY <2>1, <2>2, <2>3, <2>4, <2>5, <2>6, <2>7, <2>8, <2>9, <2>10, <2>11, <2>12 DEF TaskStep
<1> QED
  BY <1>1, <1>2

LEMMA FaultOrderStep ==
    ASSUME TypeOK, SpawnOrder, FaultOrder, [Next]_vars
    PROVE  FaultOrder'
<1> USE DEF FaultOrder, TypeOK, RegistryTypeOK
<1>1. CASE UNCHANGED vars
  BY <1>1 DEF vars, registryVars, taskVars
<1>2. CASE Next
  <2>1. PICK a \in Agents :
          \/ Spawn(a) \/ InsertHandle(a) \/ AbandonSpawn(a) \/ TaskStep(a)
          \/ CancelBegin(a) \/ CancelEnd(a)
          \/ WaitCall(a) \/ WaitPoll(a) \/ WaitReclaim(a)
          \/ Block(a) \/ Purge(a)
    BY <1>2 DEF Next
  <2>2. CASE Spawn(a) \/ Start(a) \/ Enter(a) \/ Report(a) \/ Finish(a) \/ Fail(a)
    BY <2>2
    DEF Spawn, SpawnOrder, Start, Enter, Report, Finish, Fail, Register, NewRecord, UpdateState, Goto
  <2>3. CASE AcquirePermit(a) \/ PermitGranted(a) \/ Panic(a) \/ Exit(a)
    BY <2>3 DEF AcquirePermit, PermitGranted, Panic, UserCode, Exit, Goto, registryVars
  <2>4. CASE CreateContext(a) \/ Execute(a)
    BY <2>4, ErrorAssumption DEF CreateContext, Execute, Errors, Goto, registryVars
  <2>5. CASE Serialize(a)
    BY <2>5, ErrorAssumption DEF Serialize, SetResult, Errors, Goto, registryVars
  <2>6. CASE FailMessage(a)
    BY <2>6 DEF FailMessage, SetError, Goto
  <2>7. CASE CleanUp(a) \/ Drop(a)
    BY <2>7 DEF CleanUp, Drop, AwaitPoints, Goto, registryVars
  <2>8. CASE CancelEnd(a) \/ Block(a) \/ Purge(a)
    BY <2>8 DEF CancelEnd, Block, Purge, UpdateState, Remove, taskVars
  <2>9. CASE \/ InsertHandle(a) \/ AbandonSpawn(a) \/ CancelBegin(a)
             \/ WaitCall(a) \/ WaitPoll(a) \/ WaitReclaim(a)
    BY <2>9
    DEF InsertHandle, AbandonSpawn, CancelBegin, WaitCall, WaitPoll, WaitReclaim, registryVars, taskVars
  <2> QED
    BY <2>1, <2>2, <2>3, <2>4, <2>5, <2>6, <2>7, <2>8, <2>9 DEF TaskStep
<1> QED
  BY <1>1, <1>2

LEMMA ResultOrderStep ==
    ASSUME TypeOK, SpawnOrder, RecordInv, [Next]_vars
    PROVE  ResultOrder'
<1> USE DEF ResultOrder, TypeOK, RegistryTypeOK, Registered
<1>0. ResultOrder /\ StateMatchesTask /\ FaultOrder
  BY DEF RecordInv
<1>1. CASE UNCHANGED vars
  BY <1>0, <1>1 DEF vars, registryVars, taskVars
<1>2. CASE Next
  <2>1. PICK a \in Agents :
          \/ Spawn(a) \/ InsertHandle(a) \/ AbandonSpawn(a) \/ TaskStep(a)
          \/ CancelBegin(a) \/ CancelEnd(a)
          \/ WaitCall(a) \/ WaitPoll(a) \/ WaitReclaim(a)
          \/ Block(a) \/ Purge(a)
    BY <1>2 DEF Next
  <2>2. CASE Spawn(a) \/ Start(a) \/ Enter(a) \/ Report(a) \/ Fail(a)
    BY <1>0, <2>2 DEF Spawn, Start, Enter, Report, Fail, Register, NewRecord, UpdateState, Goto
  <2>3. CASE AcquirePermit(a) \/ PermitGranted(a) \/ Panic(a) \/ Exit(a)
    BY <1>0, <2>3 DEF AcquirePermit, PermitGranted, Panic, UserCode, Exit, Goto, registryVars
  <2>4. CASE CreateContext(a) \/ Execute(a)
    \* Before the error path no record says Done.
    <3>1. state[a] # "Done"
      BY <1>0, <2>4 DEF CreateContext, Execute, StateMatchesTask, StatesAt
    <3> QED
      BY <1>0, <2>4, <3>1 DEF CreateContext, Execute, Goto, registryVars
  <2>5. CASE Serialize(a)
    <3>1. state[a] # "Done"
      BY <1>0, <2>5 DEF Serialize, StateMatchesTask, StatesAt
    <3> QED
      BY <1>0, <2>5, <3>1, NoneAssumption DEF Serialize, SetResult, Goto, registryVars
  <2>6. CASE Finish(a)
    <3>1. outcome[a] = None
      BY <1>0, <2>6 DEF Finish, FaultOrder
    <3> QED
      BY <1>0, <2>6, <3>1 DEF Finish, UpdateState, Goto
  <2>7. CASE FailMessage(a) \/ CleanUp(a) \/ Drop(a)
    BY <1>0, <2>7 DEF FailMessage, SetError, CleanUp, Drop, AwaitPoints, Goto, registryVars
  <2>8. CASE CancelEnd(a) \/ Block(a) \/ Purge(a)
    BY <1>0, <2>8 DEF CancelEnd, Block, Purge, UpdateState, Remove, taskVars
  <2>9. CASE \/ InsertHandle(a) \/ AbandonSpawn(a) \/ CancelBegin(a)
             \/ WaitCall(a) \/ WaitPoll(a) \/ WaitReclaim(a)
    BY <1>0, <2>9
    DEF InsertHandle, AbandonSpawn, CancelBegin, WaitCall, WaitPoll, WaitReclaim, registryVars, taskVars
  <2> QED
    BY <2>1, <2>2, <2>3, <2>4, <2>5, <2>6, <2>7, <2>8, <2>9 DEF TaskStep
<1> QED
  BY <1>1, <1>2

LEMMA RecordInvHolds == Spec => []RecordInv
<1>1. Init => RecordInv
  BY DEF Init, RegistryInit, RecordInv, StateMatchesTask, FaultOrder, ResultOrder, Registered
<1>2. TypeOK /\ SpawnOrder /\ RecordInv /\ [Next]_vars => RecordInv'
  BY StateMatchesTaskStep, FaultOrderStep, ResultOrderStep DEF RecordInv
<1> QED
  BY <1>1, <1>2, TypeCorrect, SpawnOrderHolds, PTL DEF Spec

-----------------------------------------------------------------------------

\* A task that ran to its end has left a terminal record, unless the record was
\* removed: every path through spawn_task_inner ends in Done or Error.
THEOREM CompletedTasksAreTerminal == Spec => []CompletedIsTerminal
<1>1. TypeOK /\ RecordInv => CompletedIsTerminal
  BY DEF RecordInv, StateMatchesTask, StatesAt, CompletedIsTerminal, Terminal,
         TerminalStates, Registered
<1> QED
  BY <1>1, TypeCorrect, RecordInvHolds, PTL

\* A Done record has its result and no error, and so has every Done record that
\* wait_for has returned.
THEOREM DoneRecordsHaveResults == Spec => []DoneHasResult
<1>1. Init => DoneHasResult
  BY DEF Init, RegistryInit, DoneHasResult
<1>2. TypeOK /\ RecordInv => \A a \in Agents : state[a] = "Done" => result[a] # None /\ error[a] = None
  BY DEF RecordInv, FaultOrder, ResultOrder
<1>3. TypeOK /\ RecordInv /\ RecordInv' /\ TypeOK' /\ DoneHasResult /\ [Next]_vars => DoneHasResult'
  <2> SUFFICES ASSUME TypeOK, RecordInv, RecordInv', TypeOK', DoneHasResult, [Next]_vars
               PROVE  DoneHasResult'
    OBVIOUS
  <2>1. \A a \in Agents : state'[a] = "Done" => result'[a] # None /\ error'[a] = None
    BY DEF RecordInv, FaultOrder, ResultOrder
  <2>2. ASSUME NEW b \in Agents
        PROVE  \/ snapshot'[b] = snapshot[b]
               \/ snapshot'[b] = Record(b)
    <3>1. CASE UNCHANGED vars
      BY <3>1 DEF vars, clientVars
    <3>2. CASE Next
      BY <3>2
      DEF Next, TaskStep, Spawn, InsertHandle, AbandonSpawn, Start, AcquirePermit, PermitGranted,
          CreateContext, Enter, Execute, Panic, Report, Serialize, Finish, Fail,
          FailMessage, CleanUp, Exit, Drop, CancelBegin, CancelEnd, WaitCall,
          WaitPoll, WaitReclaim, Block, Purge, clientVars, TypeOK
    <3> QED
      BY <3>1, <3>2
  <2>3. ASSUME NEW b \in Agents, snapshot'[b] # None, snapshot'[b].state = "Done"
        PROVE  snapshot'[b].result # None /\ snapshot'[b].error = None
    <3>1. CASE snapshot'[b] = snapshot[b]
      BY <2>3, <3>1 DEF DoneHasResult
    <3>2. CASE snapshot'[b] = Record(b)
      <4>1. state[b] = "Done"
        BY <2>3, <3>2 DEF Record
      <4>2. Record(b).result # None /\ Record(b).error = None
        BY <1>2, <4>1 DEF Record
      <4> QED
        BY <3>2, <4>2
    <3> QED
      BY <2>2, <3>1, <3>2
  <2> QED
    BY <2>1, <2>3 DEF DoneHasResult
<1> QED
  BY <1>1, <1>3, TypeCorrect, RecordInvHolds, PTL DEF Spec

-----------------------------------------------------------------------------

\* Whoever is on the error path knows what went wrong.
FaultKnown == \A a \in Agents : task[a] \in {"fail", "failmsg"} => outcome[a] # None

LEMMA ErrorWindowStep ==
    ASSUME TypeOK, SpawnOrder, RecordInv, FaultKnown, ErrorWindow, [Next]_vars
    PROVE  FaultKnown' /\ ErrorWindow'
<1> USE DEF FaultKnown, ErrorWindow, TypeOK, RegistryTypeOK
<1>0. StateMatchesTask
  BY DEF RecordInv
<1>1. CASE UNCHANGED vars
  BY <1>1 DEF vars, registryVars, taskVars
<1>2. CASE Next
  <2>1. PICK a \in Agents :
          \/ Spawn(a) \/ InsertHandle(a) \/ AbandonSpawn(a) \/ TaskStep(a)
          \/ CancelBegin(a) \/ CancelEnd(a)
          \/ WaitCall(a) \/ WaitPoll(a) \/ WaitReclaim(a)
          \/ Block(a) \/ Purge(a)
    BY <1>2 DEF Next
  <2>2. CASE Spawn(a)
    BY <2>2 DEF Spawn, Register, NewRecord, Goto
  <2>3. CASE Start(a) \/ Enter(a) \/ Report(a) \/ Finish(a) \/ Fail(a)
    BY <2>3 DEF Start, Enter, Report, Finish, Fail, UpdateState, Goto
  <2>4. CASE AcquirePermit(a) \/ PermitGranted(a) \/ Panic(a) \/ CleanUp(a) \/ Exit(a)
    BY <2>4 DEF AcquirePermit, PermitGranted, Panic, UserCode, CleanUp, Exit, Goto, registryVars
  <2>5. CASE CreateContext(a) \/ Execute(a)
    BY <2>5, ErrorAssumption DEF CreateContext, Execute, Errors, Goto, registryVars
  <2>6. CASE Serialize(a)
    BY <2>6, ErrorAssumption DEF Serialize, SetResult, Errors, Goto, registryVars
  <2>7. CASE FailMessage(a)
    BY <2>7 DEF FailMessage, SetError, Registered, Goto
  <2>8. CASE Drop(a)
    BY <2>8 DEF Drop, AwaitPoints, Goto, registryVars
  <2>9. CASE CancelEnd(a) \/ Block(a) \/ Purge(a)
    BY <2>9 DEF CancelEnd, Block, Purge, UpdateState, Remove, taskVars
  <2>10. CASE \/ InsertHandle(a) \/ AbandonSpawn(a) \/ CancelBegin(a)
              \/ WaitCall(a) \/ WaitPoll(a) \/ WaitReclaim(a)
    BY <2>10
    DEF InsertHandle, AbandonSpawn, CancelBegin, WaitCall, WaitPoll, WaitReclaim, registryVars, taskVars
  <2> QED
    BY <2>1, <2>2, <2>3, <2>4, <2>5, <2>6, <2>7, <2>8, <2>9, <2>10 DEF TaskStep
<1> QED
  BY <1>1, <1>2

\* An Error record lacks its message only while its task stands between the two
\* writes of an error path.
THEOREM ErrorsGetTheirMessage == Spec => []ErrorWindow
<1>1. Init => FaultKnown /\ ErrorWindow
  BY DEF Init, RegistryInit, FaultKnown, ErrorWindow
<1>2. TypeOK /\ SpawnOrder /\ RecordInv /\ FaultKnown /\ ErrorWindow /\ [Next]_vars
        => FaultKnown' /\ ErrorWindow'
  BY ErrorWindowStep
<1> QED
  BY <1>1, <1>2, TypeCorrect, SpawnOrderHolds, RecordInvHolds, PTL DEF Spec

\* The outcome that a task reported is replaced by Cancelled at most: no path
\* through spawn_task_inner writes a second state after Done or Error.
THEOREM OutcomesAreFinal == Spec => OutcomeIsFinal
<1>1. ASSUME TypeOK, SpawnOrder, RecordInv, [Next]_vars
      PROVE  OutcomesKept
  <2> USE <1>1 DEF TypeOK, RegistryTypeOK, OutcomesKept
  <2>0. StateMatchesTask
    BY DEF RecordInv
  <2>1. CASE UNCHANGED vars
    BY <2>1 DEF vars, registryVars
  <2>2. CASE Next
    <3>1. PICK a \in Agents :
            \/ Spawn(a) \/ InsertHandle(a) \/ AbandonSpawn(a) \/ TaskStep(a)
            \/ CancelBegin(a) \/ CancelEnd(a)
            \/ WaitCall(a) \/ WaitPoll(a) \/ WaitReclaim(a)
            \/ Block(a) \/ Purge(a)
      BY <2>2 DEF Next
    <3>2. CASE Spawn(a)
      BY <3>2 DEF Spawn, Register, NewRecord, Registered
    <3>3. CASE Start(a) \/ Enter(a) \/ Report(a) \/ Finish(a) \/ Fail(a)
      \* At these places the record does not say Done or Error.
      <4>1. state[a] \notin {"Done", "Error"}
        BY <2>0, <3>3 DEF Start, Enter, Report, Finish, Fail, StateMatchesTask, StatesAt
      <4> QED
        BY <3>3, <4>1 DEF Start, Enter, Report, Finish, Fail, UpdateState
    <3>4. CASE CancelEnd(a) \/ Block(a) \/ Purge(a)
      BY <3>4 DEF CancelEnd, Block, Purge, UpdateState, Remove
    <3>5. CASE \/ AcquirePermit(a) \/ PermitGranted(a) \/ CreateContext(a) \/ Execute(a)
               \/ Panic(a) \/ Serialize(a) \/ FailMessage(a) \/ CleanUp(a) \/ Exit(a)
               \/ Drop(a)
      BY <3>5
      DEF AcquirePermit, PermitGranted, CreateContext, Execute, Panic, Serialize,
          FailMessage, CleanUp, Exit, Drop, SetResult, SetError, registryVars
    <3>6. CASE \/ InsertHandle(a) \/ AbandonSpawn(a) \/ CancelBegin(a)
               \/ WaitCall(a) \/ WaitPoll(a) \/ WaitReclaim(a)
      BY <3>6 DEF InsertHandle, AbandonSpawn, CancelBegin, WaitCall, WaitPoll, WaitReclaim, registryVars
    <3> QED
      BY <3>1, <3>2, <3>3, <3>4, <3>5, <3>6 DEF TaskStep
  <2> QED
    BY <1>1, <2>1, <2>2
<1>2. TypeOK /\ SpawnOrder /\ RecordInv /\ [Next]_vars => OutcomesKept
  BY <1>1
<1> QED
  BY <1>2, TypeCorrect, SpawnOrderHolds, RecordInvHolds, PTL DEF Spec, OutcomeIsFinal

-----------------------------------------------------------------------------
(* Agents that nobody cancels, blocks or removes, and that do not panic    *)

\* Their tasks are never aborted and run to their end; their records are there once
\* spawned and say nothing but what the task wrote.
UntouchedInv ==
    \A a \in Untouched :
        /\ a \notin aborted /\ lock # a
        /\ task[a] \notin {"dropped", "panicked"}
        /\ state[a] # "Cancelled"
        /\ state[a] = "Absent" => task[a] = "none"

LEMMA UntouchedStep ==
    ASSUME TypeOK, SpawnOrder, RecordInv, UntouchedInv, [Next]_vars
    PROVE  UntouchedInv'
<1> USE DEF UntouchedInv, TypeOK, RegistryTypeOK
<1>0. /\ Untouched \subseteq Agents /\ Untouched \cap Cancellable = {}
      /\ Untouched \cap Blockable = {} /\ Untouched \cap Removable = {}
      /\ Untouched \cap Panicky = {} /\ None \notin Agents
  BY SupervisorAssumption DEF Untouched
<1>1. CASE UNCHANGED vars
  BY <1>1 DEF vars, registryVars, taskVars, clientVars
<1>2. CASE Next
  <2>1. PICK a \in Agents :
          \/ Spawn(a) \/ InsertHandle(a) \/ AbandonSpawn(a) \/ TaskStep(a)
          \/ CancelBegin(a) \/ CancelEnd(a)
          \/ WaitCall(a) \/ WaitPoll(a) \/ WaitReclaim(a)
          \/ Block(a) \/ Purge(a)
    BY <1>2 DEF Next
  <2>2. CASE Spawn(a)
    BY <1>0, <2>2 DEF Spawn, Register, NewRecord, Goto
  <2>3. CASE Start(a) \/ Enter(a) \/ Report(a) \/ Finish(a) \/ Fail(a)
    BY <1>0, <2>3
    DEF Start, Enter, Report, Finish, Fail, UpdateState, Registered, Goto, clientVars
  <2>4. CASE AcquirePermit(a) \/ PermitGranted(a) \/ CleanUp(a) \/ Exit(a)
    BY <1>0, <2>4
    DEF AcquirePermit, PermitGranted, CleanUp, Exit, Goto, registryVars, clientVars
  <2>5. CASE CreateContext(a) \/ Execute(a) \/ Panic(a)
    BY <1>0, <2>5 DEF CreateContext, Execute, Panic, Goto, registryVars, clientVars
  <2>6. CASE Serialize(a) \/ FailMessage(a)
    BY <1>0, <2>6
    DEF Serialize, FailMessage, SetResult, SetError, Goto, registryVars, clientVars
  <2>7. CASE Drop(a)
    BY <1>0, <2>7 DEF Drop, Goto, registryVars, clientVars
  <2>8. CASE CancelBegin(a)
    BY <1>0, <2>8 DEF CancelBegin, registryVars
  <2>9. CASE CancelEnd(a) \/ Block(a) \/ Purge(a)
    BY <1>0, <2>9 DEF CancelEnd, Block, Purge, UpdateState, Remove, taskVars, clientVars
  <2>10. CASE \/ InsertHandle(a) \/ AbandonSpawn(a)
              \/ WaitCall(a) \/ WaitPoll(a) \/ WaitReclaim(a)
    BY <1>0, <2>10
    DEF InsertHandle, AbandonSpawn, WaitCall, WaitPoll, WaitReclaim, registryVars, taskVars
  <2> QED
    BY <2>1, <2>2, <2>3, <2>4, <2>5, <2>6, <2>7, <2>8, <2>9, <2>10 DEF TaskStep
<1> QED
  BY <1>1, <1>2

\* The records as AgentLifecycle sees them.
Visible == [a \in Untouched |-> state[a]]

\* Whoever is at work owns a permit, so there is one left for a task that enters.
LEMMA RoomForOneMore ==
    ASSUME TypeOK, PermitInv, RecordInv, UntouchedInv,
           NEW a \in Untouched, task[a] = "enter"
    PROVE  Cardinality(Lifecycle!AtWork) < MaxConcurrency
<1>0. a \in Agents /\ Untouched \subseteq Agents
  BY DEF Untouched
<1>1. state[a] = "Acquiring"
  BY <1>0 DEF UntouchedInv, RecordInv, StateMatchesTask, StatesAt
<1>2. \A b \in Untouched : state[b] \in {"Executing", "Reporting"} => b \in holders
  <2> SUFFICES ASSUME NEW b \in Untouched, state[b] \in {"Executing", "Reporting"}
               PROVE  task[b] \in WithPermit
    BY <1>0 DEF PermitInv, PermitOwners
  <2>1. state[b] \in StatesAt(task[b]) /\ task[b] \notin {"dropped", "panicked"}
    BY <1>0 DEF UntouchedInv, RecordInv, StateMatchesTask
  <2> QED
    BY <2>1 DEF StatesAt, WithPermit
<1>3. Lifecycle!AtWork \subseteq holders \ {a}
  BY <1>1, <1>2 DEF Lifecycle!AtWork
<1>4. a \in holders /\ IsFiniteSet(holders)
  BY <1>0 DEF PermitInv, PermitOwners, PermitCount, WithPermit
<1>5. /\ IsFiniteSet(holders \ {a})
      /\ Cardinality(holders \ {a}) = Cardinality(holders) - 1
  BY <1>4, FS_RemoveElement
<1>6. Cardinality(Lifecycle!AtWork) <= Cardinality(holders \ {a})
  BY <1>3, <1>5, FS_Subset
<1>7. /\ Cardinality(Lifecycle!AtWork) \in Nat /\ Cardinality(holders) \in Nat
      /\ permits \in Nat /\ permits + Cardinality(holders) = MaxConcurrency
  BY <1>3, <1>4, <1>5, FS_Subset, FS_CardinalityType DEF PermitInv, PermitCount, TypeOK
<1> QED
  BY <1>5, <1>6, <1>7

\* AgentLifecycle's Cardinality is the same operator.
LEMMA SameCardinality == \A S : Lifecycle!Cardinality(S) = Cardinality(S)
BY Zenon DEF Lifecycle!Cardinality, Cardinality

LEMMA LifecycleStep ==
    ASSUME TypeOK, SpawnOrder, PermitInv, RecordInv, UntouchedInv, [Next]_vars
    PROVE  [Lifecycle!Next]_Visible
<1>0. /\ Untouched \subseteq Agents /\ Untouched \cap Cancellable = {}
      /\ Untouched \cap Blockable = {} /\ Untouched \cap Removable = {}
      /\ state \in [Agents -> LifecycleStates \cup {"Absent"}]
  BY DEF Untouched, TypeOK, RegistryTypeOK
<1>1. ASSUME UNCHANGED state PROVE UNCHANGED Visible
  BY <1>1 DEF Visible
\* A write to a record that somebody touches is not seen.
<1>2. ASSUME NEW a \in Agents \ Untouched, NEW s, state' = [state EXCEPT ![a] = s]
      PROVE  UNCHANGED Visible
  BY <1>0, <1>2 DEF Visible
<1>3. ASSUME NEW a \in Untouched, NEW s, state' = [state EXCEPT ![a] = s]
      PROVE  /\ Visible' = [Visible EXCEPT ![a] = s]
             /\ Lifecycle!Move(a, state[a], s)
  <2>1. Visible' = [Visible EXCEPT ![a] = s] /\ Visible[a] = state[a]
    BY <1>0, <1>3 DEF Visible
  <2> QED
    BY <2>1 DEF Lifecycle!Move, Visible
<1>4. ASSUME NEW a \in Agents, NEW s, UpdateState(a, s)
      PROVE  \/ UNCHANGED state
             \/ state' = [state EXCEPT ![a] = s]
  BY <1>4 DEF UpdateState
<1>9. ASSUME NEW a \in Agents, NEW s, UpdateState(a, s),
             a \in Untouched /\ Lifecycle!Move(a, state[a], s) => Lifecycle!Next
      PROVE  [Lifecycle!Next]_Visible
  <2>1. CASE UNCHANGED state
    BY <1>1, <2>1
  <2>2. CASE state' = [state EXCEPT ![a] = s] /\ a \notin Untouched
    BY <1>2, <2>2
  <2>3. CASE state' = [state EXCEPT ![a] = s] /\ a \in Untouched
    BY <1>3, <1>9, <2>3
  <2> QED
    BY <1>4, <1>9, <2>1, <2>2, <2>3
<1>5. \A a \in Untouched : task[a] # "none" => state[a] \in StatesAt(task[a])
  BY <1>0 DEF UntouchedInv, RecordInv, StateMatchesTask
<1>6. CASE UNCHANGED vars
  BY <1>1, <1>6 DEF vars, registryVars
<1>7. CASE Next
  <2>1. PICK a \in Agents :
          \/ Spawn(a) \/ InsertHandle(a) \/ AbandonSpawn(a) \/ TaskStep(a)
          \/ CancelBegin(a) \/ CancelEnd(a)
          \/ WaitCall(a) \/ WaitPoll(a) \/ WaitReclaim(a)
          \/ Block(a) \/ Purge(a)
    BY <1>7 DEF Next
  <2>2. CASE Spawn(a)
    <3>1. state[a] = "Absent" /\ state' = [state EXCEPT ![a] = "Queued"]
      BY <2>2 DEF Spawn, Register, Registered, NewRecord
    <3>2. CASE a \in Untouched
      <4>1. Lifecycle!Move(a, "Absent", "Queued")
        BY <1>3, <3>1, <3>2
      <4> QED
        BY <3>2, <4>1 DEF Lifecycle!Next, Lifecycle!Create
    <3>3. CASE a \notin Untouched
      BY <1>2, <3>1, <3>3
    <3> QED
      BY <3>2, <3>3
  <2>3. CASE Start(a)
    <3>1. UpdateState(a, "Acquiring") /\ task[a] = "ready"
      BY <2>3 DEF Start
    <3>2. a \in Untouched => state[a] = "Queued"
      BY <1>5, <3>1 DEF StatesAt
    <3> QED
      BY <1>9, <3>1, <3>2
      DEF Lifecycle!Next, Lifecycle!Progress, Lifecycle!Acquire
  <2>4. CASE Enter(a)
    <3>1. UpdateState(a, "Executing") /\ task[a] = "enter"
      BY <2>4 DEF Enter
    <3>2. a \in Untouched => state[a] = "Acquiring"
      BY <1>5, <3>1 DEF StatesAt
    <3>3. a \in Untouched => Cardinality(Lifecycle!AtWork) < MaxConcurrency
      BY <3>1, RoomForOneMore
    <3>4. a \in Untouched /\ Lifecycle!Move(a, state[a], "Executing") => Lifecycle!Next
      <4> SUFFICES ASSUME a \in Untouched, Lifecycle!Move(a, "Acquiring", "Executing")
                   PROVE  Lifecycle!Next
        BY <3>2
      <4>1. Lifecycle!Begin(a)
        BY <3>3, SameCardinality DEF Lifecycle!Begin
      <4> QED
        BY <4>1 DEF Lifecycle!Next, Lifecycle!Progress
    <3> QED
      BY <1>9, <3>1, <3>4
  <2>5. CASE Report(a)
    <3>1. UpdateState(a, "Reporting") /\ task[a] = "report"
      BY <2>5 DEF Report
    <3>2. a \in Untouched => state[a] = "Executing"
      BY <1>5, <3>1 DEF StatesAt
    <3> QED
      BY <1>9, <3>1, <3>2
      DEF Lifecycle!Next, Lifecycle!Progress, Lifecycle!Report
  <2>6. CASE Finish(a)
    <3>1. UpdateState(a, "Done") /\ task[a] = "finish"
      BY <2>6 DEF Finish
    <3>2. a \in Untouched => state[a] = "Reporting"
      BY <1>5, <3>1 DEF StatesAt
    <3> QED
      BY <1>9, <3>1, <3>2
      DEF Lifecycle!Next, Lifecycle!Progress, Lifecycle!Complete
  <2>7. CASE Fail(a)
    <3>1. UpdateState(a, "Error") /\ task[a] = "fail"
      BY <2>7 DEF Fail
    <3>2. a \in Untouched => state[a] \in {"Acquiring", "Executing", "Reporting"}
      BY <1>5, <3>1 DEF StatesAt
    <3> QED
      BY <1>9, <3>1, <3>2
      DEF Lifecycle!Next, Lifecycle!Progress, Lifecycle!Fail, Lifecycle!FailEarly
  <2>8. CASE \/ AcquirePermit(a) \/ PermitGranted(a) \/ CreateContext(a) \/ Execute(a)
             \/ Panic(a) \/ Serialize(a) \/ FailMessage(a) \/ CleanUp(a) \/ Exit(a) \/ Drop(a)
    BY <1>1, <2>8
    DEF AcquirePermit, PermitGranted, CreateContext, Execute, Panic, Serialize, FailMessage,
        CleanUp, Exit, Drop, SetResult, SetError, registryVars
  <2>9. CASE CancelEnd(a)
    <3>1. a \notin Untouched
      BY <2>9 DEF CancelEnd, UntouchedInv
    <3> QED
      BY <1>1, <1>2, <1>4, <2>9, <3>1 DEF CancelEnd
  <2>10. CASE Block(a) \/ Purge(a)
    <3>1. a \notin Untouched
      BY <1>0, <2>10 DEF Block, Purge
    <3> QED
      BY <1>1, <1>2, <1>4, <2>10, <3>1 DEF Block, Purge, Remove
  <2>11. CASE \/ InsertHandle(a) \/ AbandonSpawn(a) \/ CancelBegin(a)
              \/ WaitCall(a) \/ WaitPoll(a) \/ WaitReclaim(a)
    BY <1>1, <2>11
    DEF InsertHandle, AbandonSpawn, CancelBegin, WaitCall, WaitPoll, WaitReclaim, registryVars
  <2> QED
    BY <2>1, <2>2, <2>3, <2>4, <2>5, <2>6, <2>7, <2>8, <2>9, <2>10, <2>11 DEF TaskStep
<1> QED
  BY <1>6, <1>7

\* The records of the agents that nobody cancels, blocks or removes, and whose code does
\* not panic, go through the states of AgentLifecycle and no more than max_concurrency
\* of them are ever at work, whatever is done to the agents they share the permits
\* with.  (What AgentLifecycle says of progress is left to the runs.)
THEOREM RecordsFollowLifecycle == Spec => Lifecycle!Spec
<1>1. Init => UntouchedInv /\ Lifecycle!Init
  BY SupervisorAssumption
  DEF Init, RegistryInit, UntouchedInv, Untouched, Lifecycle!Init
<1>2. TypeOK /\ SpawnOrder /\ RecordInv /\ UntouchedInv /\ [Next]_vars => UntouchedInv'
  BY UntouchedStep
<1>3. TypeOK /\ SpawnOrder /\ PermitInv /\ RecordInv /\ UntouchedInv /\ [Next]_vars
        => [Lifecycle!Next]_Visible
  BY LifecycleStep
<1> QED
  BY <1>1, <1>2, <1>3, TypeCorrect, SpawnOrderHolds, PermitInvHolds, RecordInvHolds, PTL
  DEF Spec, Lifecycle!Spec, Visible

=============================================================================
