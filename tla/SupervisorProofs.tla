-------------------------- MODULE SupervisorProofs --------------------------
(***************************************************************************)
(* Theorems about Supervisor, for every set of agents, every number of     *)
(* permits and every choice of callers and failures.                       *)
(***************************************************************************)
EXTENDS Supervisor, TLAPS, FiniteSetTheorems, SequenceTheorems

-----------------------------------------------------------------------------
(* The operations of the registry and of the semaphore keep their types.   *)

LEMMA UpdateStateType ==
    ASSUME RegistryTypeOK, NEW a \in Agents, NEW s \in LifecycleStates,
           UpdateState(a, s)
    PROVE  RegistryTypeOK'
BY DEF RegistryTypeOK, UpdateState, Registered

LEMMA RegisterType ==
    ASSUME RegistryTypeOK, NEW a \in Agents, Register(a)
    PROVE  RegistryTypeOK'
BY DEF RegistryTypeOK, Register, NewRecord, LifecycleStates

LEMMA SetResultType ==
    ASSUME RegistryTypeOK, NEW a \in Agents, NEW v \in Values, SetResult(a, v)
    PROVE  RegistryTypeOK'
BY DEF RegistryTypeOK, SetResult

LEMMA SetErrorType ==
    ASSUME RegistryTypeOK, NEW a \in Agents, NEW e \in Errors \cup {None}, SetError(a, e)
    PROVE  RegistryTypeOK'
BY DEF RegistryTypeOK, SetError

LEMMA RemoveType ==
    ASSUME RegistryTypeOK, NEW a \in Agents, Remove(a)
    PROVE  RegistryTypeOK'
BY DEF RegistryTypeOK, Remove

LEMMA RegistryStutter ==
    ASSUME RegistryTypeOK, UNCHANGED registryVars
    PROVE  RegistryTypeOK'
BY DEF RegistryTypeOK, registryVars

SemaphoreTypeOK ==
    /\ permits \in Nat
    /\ holders \subseteq Agents
    /\ waiting \in Seq(Agents)

LEMMA AcquireType ==
    ASSUME SemaphoreTypeOK, NEW a \in Agents, AcquireNow(a) \/ AcquireLater(a)
    PROVE  SemaphoreTypeOK'
BY DEF SemaphoreTypeOK, AcquireNow, AcquireLater

LEMMA ReleaseType ==
    ASSUME SemaphoreTypeOK, NEW a \in Agents, Release(a)
    PROVE  SemaphoreTypeOK'
BY HeadTailProperties DEF SemaphoreTypeOK, Release

LEMMA WithdrawType ==
    ASSUME SemaphoreTypeOK, NEW a \in Agents, Withdraw(a)
    PROVE  SemaphoreTypeOK'
<1>1. PICK i \in 1 .. Len(waiting) : waiting' = WithoutIndex(waiting, i)
  BY DEF Withdraw
<1>2. waiting' \in [1 .. Len(waiting) - 1 -> Agents]
  BY <1>1, LenProperties DEF WithoutIndex, SemaphoreTypeOK
<1>3. Len(waiting) - 1 \in Nat
  BY <1>1, LenProperties DEF SemaphoreTypeOK
<1>4. waiting' \in Seq(Agents)
  BY <1>2, <1>3, SeqDef
<1> QED
  BY <1>4 DEF SemaphoreTypeOK, Withdraw

LEMMA SemaphoreStutter ==
    ASSUME SemaphoreTypeOK, UNCHANGED semaphoreVars
    PROVE  SemaphoreTypeOK'
BY DEF SemaphoreTypeOK, semaphoreVars

-----------------------------------------------------------------------------
(* Types of the tasks and of the clients.                                  *)

TaskTypeOK ==
    /\ task \in [Agents -> Positions]
    /\ outcome \in [Agents -> Errors \cup {None}]
    /\ aborted \subseteq Agents
    /\ contexts \subseteq Agents

ClientTypeOK ==
    /\ spawner \in [Agents -> {"idle", "insert", "returned", "abandoned"}]
    /\ handles \subseteq Agents
    /\ lock \in Agents \cup {None}
    /\ waiter \in [Agents -> {"idle", "polling", "notfound", "reclaim", "returned"}]
    /\ snapshot \in [Agents -> Records \cup {None}]

LEMMA TypeParts ==
    TypeOK <=> RegistryTypeOK /\ SemaphoreTypeOK /\ TaskTypeOK /\ ClientTypeOK
BY Zenon DEF TypeOK, SemaphoreTypeOK, TaskTypeOK, ClientTypeOK

\* Each group of variables keeps its types in every step of the specification.
LEMMA RegistryStep ==
    ASSUME RegistryTypeOK, TaskTypeOK, [Next]_vars
    PROVE  RegistryTypeOK'
<1>1. CASE UNCHANGED vars
  BY <1>1, RegistryStutter DEF vars
<1>2. CASE Next
  <2>1. PICK a \in Agents :
          \/ Spawn(a) \/ InsertHandle(a) \/ AbandonSpawn(a) \/ TaskStep(a)
          \/ CancelBegin(a) \/ CancelEnd(a)
          \/ WaitCall(a) \/ WaitPoll(a) \/ WaitReclaim(a)
          \/ Block(a) \/ Purge(a)
    BY <1>2 DEF Next
  <2>2. {"Acquiring", "Executing", "Reporting", "Done", "Error", "Cancelled"}
          \subseteq LifecycleStates
    BY DEF LifecycleStates
  <2>3. CASE Spawn(a)
    BY <2>3, RegisterType DEF Spawn
  <2>4. CASE Purge(a)
    BY <2>4, RemoveType DEF Purge
  <2>5. CASE CancelEnd(a) \/ Block(a)
    BY <2>2, <2>5, UpdateStateType DEF CancelEnd, Block
  <2>6. CASE Start(a) \/ Enter(a) \/ Report(a) \/ Finish(a) \/ Fail(a)
    BY <2>2, <2>6, UpdateStateType DEF Start, Enter, Report, Finish, Fail
  <2>7. CASE Serialize(a)
    BY <2>7, SetResultType, RegistryStutter DEF Serialize
  <2>8. CASE FailMessage(a)
    <3>1. outcome[a] \in Errors \cup {None}
      BY DEF TaskTypeOK
    <3> QED
      BY <2>8, <3>1, SetErrorType DEF FailMessage
  <2>9. CASE \/ AcquirePermit(a) \/ PermitGranted(a) \/ CreateContext(a)
             \/ Execute(a) \/ Panic(a) \/ CleanUp(a) \/ Exit(a) \/ Drop(a)
    BY <2>9, RegistryStutter
    DEF AcquirePermit, PermitGranted, CreateContext, Execute, Panic, CleanUp, Exit, Drop
  <2>10. CASE \/ InsertHandle(a) \/ AbandonSpawn(a) \/ CancelBegin(a)
              \/ WaitCall(a) \/ WaitPoll(a) \/ WaitReclaim(a)
    BY <2>10, RegistryStutter
    DEF InsertHandle, AbandonSpawn, CancelBegin, WaitCall, WaitPoll, WaitReclaim
  <2> QED
    BY <2>1, <2>3, <2>4, <2>5, <2>6, <2>7, <2>8, <2>9, <2>10 DEF TaskStep
<1> QED
  BY <1>1, <1>2

LEMMA SemaphoreStep ==
    ASSUME SemaphoreTypeOK, [Next]_vars
    PROVE  SemaphoreTypeOK'
<1>1. CASE UNCHANGED vars
  BY <1>1, SemaphoreStutter DEF vars
<1>2. CASE Next
  <2>1. PICK a \in Agents :
          \/ Spawn(a) \/ InsertHandle(a) \/ AbandonSpawn(a) \/ TaskStep(a)
          \/ CancelBegin(a) \/ CancelEnd(a)
          \/ WaitCall(a) \/ WaitPoll(a) \/ WaitReclaim(a)
          \/ Block(a) \/ Purge(a)
    BY <1>2 DEF Next
  <2>2. CASE AcquirePermit(a)
    BY <2>2, AcquireType DEF AcquirePermit
  <2>3. CASE Panic(a) \/ Exit(a)
    BY <2>3, ReleaseType DEF Panic, Exit
  <2>4. CASE Drop(a)
    BY <2>4, ReleaseType, WithdrawType, SemaphoreStutter DEF Drop
  <2>5. CASE \/ Start(a) \/ PermitGranted(a) \/ CreateContext(a) \/ Enter(a)
             \/ Execute(a) \/ Report(a) \/ Serialize(a) \/ Finish(a)
             \/ Fail(a) \/ FailMessage(a) \/ CleanUp(a)
    BY <2>5, SemaphoreStutter
    DEF Start, PermitGranted, CreateContext, Enter, Execute, Report, Serialize,
        Finish, Fail, FailMessage, CleanUp
  <2>6. CASE \/ Spawn(a) \/ InsertHandle(a) \/ AbandonSpawn(a) \/ CancelBegin(a) \/ CancelEnd(a)
             \/ WaitCall(a) \/ WaitPoll(a) \/ WaitReclaim(a)
             \/ Block(a) \/ Purge(a)
    BY <2>6, SemaphoreStutter
    DEF Spawn, InsertHandle, AbandonSpawn, CancelBegin, CancelEnd, WaitCall, WaitPoll,
        WaitReclaim, Block, Purge
  <2> QED
    BY <2>1, <2>2, <2>3, <2>4, <2>5, <2>6 DEF TaskStep
<1> QED
  BY <1>1, <1>2

LEMMA TaskTypeStep ==
    ASSUME TaskTypeOK, [Next]_vars
    PROVE  TaskTypeOK'
<1>1. CASE UNCHANGED vars
  BY <1>1 DEF TaskTypeOK, vars, taskVars
<1>2. CASE Next
  <2>1. PICK a \in Agents :
          \/ Spawn(a) \/ InsertHandle(a) \/ AbandonSpawn(a) \/ TaskStep(a)
          \/ CancelBegin(a) \/ CancelEnd(a)
          \/ WaitCall(a) \/ WaitPoll(a) \/ WaitReclaim(a)
          \/ Block(a) \/ Purge(a)
    BY <1>2 DEF Next
  <2> USE DEF TaskTypeOK, Positions, WithPermit, Stopped, Goto
  <2>2. CASE Spawn(a) \/ Start(a) \/ Enter(a) \/ Report(a) \/ Finish(a) \/ Fail(a)
    BY <2>2 DEF Spawn, Start, Enter, Report, Finish, Fail
  <2>3. CASE \/ AcquirePermit(a) \/ PermitGranted(a) \/ FailMessage(a)
             \/ Panic(a) \/ Exit(a) \/ Drop(a)
    BY <2>3 DEF AcquirePermit, PermitGranted, FailMessage, Panic, Exit, Drop
  <2>4. CASE CreateContext(a)
    BY <2>4 DEF CreateContext, CreateDirectory, Errors
  <2>5. CASE Execute(a) \/ Serialize(a)
    BY <2>5 DEF Execute, Serialize, Errors
  <2>6. CASE CleanUp(a)
    BY <2>6 DEF CleanUp, RemoveDirectory
  <2>7. CASE CancelBegin(a)
    BY <2>7 DEF CancelBegin
  <2>8. CASE \/ InsertHandle(a) \/ AbandonSpawn(a) \/ CancelEnd(a) \/ WaitCall(a) \/ WaitPoll(a)
             \/ WaitReclaim(a) \/ Block(a) \/ Purge(a)
    BY <2>8
    DEF InsertHandle, AbandonSpawn, CancelEnd, WaitCall, WaitPoll, WaitReclaim, Block, Purge, taskVars
  <2> QED
    BY <2>1, <2>2, <2>3, <2>4, <2>5, <2>6, <2>7, <2>8 DEF TaskStep
<1> QED
  BY <1>1, <1>2

LEMMA ClientTypeStep ==
    ASSUME RegistryTypeOK, ClientTypeOK, [Next]_vars
    PROVE  ClientTypeOK'
<1>1. CASE UNCHANGED vars
  BY <1>1 DEF ClientTypeOK, vars, clientVars
<1>2. CASE Next
  <2>1. PICK a \in Agents :
          \/ Spawn(a) \/ InsertHandle(a) \/ AbandonSpawn(a) \/ TaskStep(a)
          \/ CancelBegin(a) \/ CancelEnd(a)
          \/ WaitCall(a) \/ WaitPoll(a) \/ WaitReclaim(a)
          \/ Block(a) \/ Purge(a)
    BY <1>2 DEF Next
  <2>2. CASE Spawn(a) \/ InsertHandle(a) \/ AbandonSpawn(a)
    BY <2>2 DEF Spawn, InsertHandle, AbandonSpawn, ClientTypeOK
  <2>3. CASE TaskStep(a) \/ Block(a) \/ Purge(a)
    <3>1. UNCHANGED clientVars
      BY <2>3
      DEF TaskStep, Start, AcquirePermit, PermitGranted, CreateContext, Enter,
          Execute, Panic, Report, Serialize, Finish, Fail, FailMessage, CleanUp,
          Exit, Drop, Block, Purge
    <3> QED
      BY <3>1 DEF ClientTypeOK, clientVars
  <2>4. CASE CancelBegin(a) \/ CancelEnd(a)
    BY <2>4 DEF CancelBegin, CancelEnd, ClientTypeOK
  <2>5. CASE WaitCall(a) \/ WaitReclaim(a)
    BY <2>5 DEF WaitCall, WaitReclaim, ClientTypeOK
  <2>6. CASE WaitPoll(a)
    <3>1. Terminal(a) => Record(a) \in Records
      BY DEF Terminal, TerminalStates, LifecycleStates, RegistryTypeOK, Record, Records
    <3> QED
      BY <2>6, <3>1 DEF WaitPoll, ClientTypeOK
  <2> QED
    BY <2>1, <2>2, <2>3, <2>4, <2>5, <2>6
<1> QED
  BY <1>1, <1>2

\* Every variable of the supervisor stays in its domain, whatever the agents,
\* the permits, the callers and the failures are.
THEOREM TypeCorrect == Spec => []TypeOK
<1>1. Init => TypeOK
  BY MaxConcurrencyAssumption, EmptySeq
  DEF Init, TypeOK, RegistryInit, RegistryTypeOK, SemaphoreInit, Positions
<1>2. TypeOK /\ [Next]_vars => TypeOK'
  <2> SUFFICES ASSUME TypeOK, [Next]_vars PROVE TypeOK'
    OBVIOUS
  <2>1. RegistryTypeOK /\ SemaphoreTypeOK /\ TaskTypeOK /\ ClientTypeOK
    BY TypeParts
  <2>2. RegistryTypeOK' /\ SemaphoreTypeOK' /\ TaskTypeOK' /\ ClientTypeOK'
    BY <2>1, RegistryStep, SemaphoreStep, TaskTypeStep, ClientTypeStep
  <2> QED
    BY <2>2 DEF TypeOK, SemaphoreTypeOK, TaskTypeOK, ClientTypeOK
<1> QED
  BY <1>1, <1>2, PTL DEF Spec

-----------------------------------------------------------------------------
(* The call of spawn comes before everything its agent does.               *)

SpawnOrder == \A a \in Agents : spawner[a] = "idle" <=> task[a] = "none"

LEMMA SpawnOrderStep ==
    ASSUME TypeOK, SpawnOrder, [Next]_vars
    PROVE  SpawnOrder'
<1>1. CASE UNCHANGED vars
  BY <1>1 DEF SpawnOrder, vars, taskVars, clientVars
<1>2. CASE Next
  <2>1. PICK a \in Agents :
          \/ Spawn(a) \/ InsertHandle(a) \/ AbandonSpawn(a) \/ TaskStep(a)
          \/ CancelBegin(a) \/ CancelEnd(a)
          \/ WaitCall(a) \/ WaitPoll(a) \/ WaitReclaim(a)
          \/ Block(a) \/ Purge(a)
    BY <1>2 DEF Next
  <2> USE DEF SpawnOrder, TypeOK
  <2>2. CASE Spawn(a) \/ InsertHandle(a) \/ AbandonSpawn(a)
    BY <2>2 DEF Spawn, InsertHandle, AbandonSpawn, Goto, taskVars
  <2>3. CASE TaskStep(a)
    <3>1. task[a] # "none" /\ UNCHANGED spawner /\ \E p : Goto(a, p) /\ p # "none"
      BY <2>3
      DEF TaskStep, Start, AcquirePermit, PermitGranted, CreateContext, Enter,
          Execute, Panic, Report, Serialize, Finish, Fail, FailMessage, CleanUp,
          Exit, Drop, AwaitPoints, UserCode, clientVars
    <3> QED
      BY <3>1 DEF Goto
  <2>4. CASE \/ CancelBegin(a) \/ CancelEnd(a) \/ WaitCall(a) \/ WaitPoll(a)
             \/ WaitReclaim(a) \/ Block(a) \/ Purge(a)
    BY <2>4
    DEF CancelBegin, CancelEnd, WaitCall, WaitPoll, WaitReclaim, Block, Purge,
        taskVars, clientVars
  <2> QED
    BY <2>1, <2>2, <2>3, <2>4
<1> QED
  BY <1>1, <1>2

LEMMA SpawnOrderHolds == Spec => []SpawnOrder
<1>1. Init => SpawnOrder
  BY DEF Init, SpawnOrder
<1>2. TypeOK /\ SpawnOrder /\ [Next]_vars => SpawnOrder'
  BY SpawnOrderStep
<1> QED
  BY <1>1, <1>2, TypeCorrect, PTL DEF Spec

-----------------------------------------------------------------------------
(* A task never goes back.                                                 *)

\* How far a position is from the call of spawn.
Rank(p) ==
    CASE p = "none" -> 0
      [] p = "ready" -> 1
      [] p = "acquire" -> 2
      [] p = "waiting" -> 3
      [] p = "create" -> 4
      [] p = "enter" -> 5
      [] p = "execute" -> 6
      [] p = "report" -> 7
      [] p = "serialize" -> 8
      [] p = "finish" -> 9
      [] p = "fail" -> 10
      [] p = "failmsg" -> 11
      [] p = "cleanup" -> 12
      [] p = "exit" -> 13
      [] p \in Stopped -> 14

TaskMovesForward ==
    \A a \in Agents :
        task'[a] # task[a] => Rank(task'[a]) \in Rank(task[a]) + 1 .. 14

LEMMA RankValues ==
    /\ Rank("none") = 0 /\ Rank("ready") = 1 /\ Rank("acquire") = 2
    /\ Rank("waiting") = 3 /\ Rank("create") = 4 /\ Rank("enter") = 5
    /\ Rank("execute") = 6 /\ Rank("report") = 7 /\ Rank("serialize") = 8
    /\ Rank("finish") = 9 /\ Rank("fail") = 10 /\ Rank("failmsg") = 11
    /\ Rank("cleanup") = 12 /\ Rank("exit") = 13
    /\ \A p \in Stopped : Rank(p) = 14
BY DEF Rank, Stopped

\* Whatever fails and whoever interferes, a task moves forward only: it repeats
\* no part of spawn_task_inner, is at its end after fourteen moves at the latest,
\* and nobody starts it again.
TasksAdvance == [][TaskMovesForward]_vars

\* Every action that moves a task moves it forward; that a spawn finds a task which was
\* never started is SpawnOrder.
THEOREM TasksNeverGoBack == Spec => TasksAdvance
<1>1. TypeOK /\ SpawnOrder /\ [Next]_vars => [TaskMovesForward]_vars
  <2> SUFFICES ASSUME TypeOK, SpawnOrder, Next PROVE TaskMovesForward
    OBVIOUS
  <2>1. PICK a \in Agents :
          \/ Spawn(a) \/ InsertHandle(a) \/ AbandonSpawn(a) \/ TaskStep(a)
          \/ CancelBegin(a) \/ CancelEnd(a)
          \/ WaitCall(a) \/ WaitPoll(a) \/ WaitReclaim(a)
          \/ Block(a) \/ Purge(a)
    BY DEF Next
  <2>2. ASSUME NEW p, Goto(a, p), Rank(p) \in Rank(task[a]) + 1 .. 14
        PROVE  TaskMovesForward
    BY <2>2 DEF TypeOK, Goto, TaskMovesForward
  <2> USE RankValues DEF Stopped
  <2>3. CASE Spawn(a) \/ Start(a)
    BY <2>2, <2>3 DEF Spawn, Start, SpawnOrder
  <2>4. CASE AcquirePermit(a) \/ PermitGranted(a)
    BY <2>2, <2>4 DEF AcquirePermit, PermitGranted
  <2>5. CASE CreateContext(a) \/ Enter(a) \/ Execute(a)
    BY <2>2, <2>5 DEF CreateContext, Enter, Execute
  <2>6. CASE Report(a) \/ Serialize(a) \/ Finish(a)
    BY <2>2, <2>6 DEF Report, Serialize, Finish
  <2>7. CASE Fail(a) \/ FailMessage(a)
    BY <2>2, <2>7 DEF Fail, FailMessage
  <2>8. CASE CleanUp(a) \/ Exit(a) \/ Panic(a)
    BY <2>2, <2>8 DEF CleanUp, Exit, Panic, UserCode
  <2>9. CASE Drop(a)
    BY <2>2, <2>9 DEF Drop, AwaitPoints
  <2>10. CASE \/ InsertHandle(a) \/ AbandonSpawn(a) \/ CancelBegin(a) \/ CancelEnd(a)
              \/ WaitCall(a) \/ WaitPoll(a) \/ WaitReclaim(a)
              \/ Block(a) \/ Purge(a)
    BY <2>10
    DEF InsertHandle, AbandonSpawn, CancelBegin, CancelEnd, WaitCall, WaitPoll,
        WaitReclaim, Block, Purge, taskVars, TaskMovesForward
  <2> QED
    BY <2>1, <2>3, <2>4, <2>5, <2>6, <2>7, <2>8, <2>9, <2>10 DEF TaskStep
<1> QED
  BY <1>1, TypeCorrect, SpawnOrderHolds, PTL DEF Spec, TasksAdvance

=============================================================================
