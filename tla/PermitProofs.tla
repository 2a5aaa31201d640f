---------------------------- MODULE PermitProofs ----------------------------
(***************************************************************************)
(* max_concurrency is kept and no permit is lost, for every set of agents  *)
(* (finite or not) and every number of permits.  The invariant ties three  *)
(* things together: the permits given out, the position of every task, and *)
(* the line of the semaphore.                                              *)
(***************************************************************************)
EXTENDS SupervisorProofs

\* Free and owned permits make up the budget.
PermitCount ==
    /\ IsFiniteSet(holders)
    /\ permits + Cardinality(holders) = MaxConcurrency

\* A task between acquire and the end of the block owns a permit; an owner is
\* such a task, or a parked one that was just handed the permit.
PermitOwners ==
    /\ \A a \in Agents : task[a] \in WithPermit => a \in holders
    /\ \A a \in holders : task[a] \in WithPermit \cup {"waiting"}

\* The line holds parked tasks without a permit, each once, and is empty as long
\* as a permit is free.
LineOK ==
    /\ \A i \in 1 .. Len(waiting) : task[waiting[i]] = "waiting" /\ waiting[i] \notin holders
    /\ \A i, j \in 1 .. Len(waiting) : waiting[i] = waiting[j] => i = j
    /\ permits > 0 => waiting = <<>>

PermitInv == PermitCount /\ PermitOwners /\ LineOK

-----------------------------------------------------------------------------
(* The semaphore's operations, on the count alone                          *)

LEMMA AcquireNowCount ==
    ASSUME SemaphoreTypeOK, PermitCount, NEW a \in Agents, a \notin holders, AcquireNow(a)
    PROVE  PermitCount'
<1>1. IsFiniteSet(holders') /\ Cardinality(holders') = Cardinality(holders) + 1
  BY FS_AddElement DEF AcquireNow, PermitCount
<1>2. Cardinality(holders) \in Nat
  BY FS_CardinalityType DEF PermitCount
<1> QED
  BY <1>1, <1>2, MaxConcurrencyAssumption DEF AcquireNow, PermitCount, SemaphoreTypeOK

\* With a line, the permit goes to its head and the count stays; without, the
\* permit is free again.
LEMMA ReleaseCount ==
    ASSUME SemaphoreTypeOK, PermitCount, LineOK, NEW a \in holders, Release(a)
    PROVE  PermitCount'
<1>1. IsFiniteSet(holders \ {a}) /\ Cardinality(holders \ {a}) = Cardinality(holders) - 1
  BY FS_RemoveElement DEF PermitCount
<1>2. Cardinality(holders) \in Nat
  BY FS_CardinalityType DEF PermitCount
<1>0. permits \in Nat /\ permits + Cardinality(holders) = MaxConcurrency
  BY DEF PermitCount, SemaphoreTypeOK
<1>3. CASE waiting = <<>>
  <2>1. permits' = permits + 1 /\ holders' = holders \ {a}
    BY <1>3 DEF Release
  <2>2. permits' + Cardinality(holders') = permits + Cardinality(holders)
    BY <1>1, <1>2, <1>0, <2>1
  <2>3. IsFiniteSet(holders')
    BY <1>1, <2>1
  <2> QED
    BY <1>0, <2>2, <2>3 DEF PermitCount
<1>4. CASE waiting # <<>>
  <2>1. 1 \in 1 .. Len(waiting) /\ Head(waiting) = waiting[1]
    BY <1>4, HeadTailProperties, EmptySeq, LenProperties DEF SemaphoreTypeOK
  <2>2. Head(waiting) \notin holders \ {a}
    BY <2>1 DEF LineOK
  <2>3. /\ IsFiniteSet((holders \ {a}) \cup {Head(waiting)})
        /\ Cardinality((holders \ {a}) \cup {Head(waiting)}) = Cardinality(holders \ {a}) + 1
    BY <1>1, <2>2, FS_AddElement
  <2>4. permits' = permits /\ holders' = (holders \ {a}) \cup {Head(waiting)}
    BY <1>4 DEF Release
  <2>5. permits' + Cardinality(holders') = permits + Cardinality(holders)
    BY <1>1, <1>2, <1>0, <2>3, <2>4
  <2>6. IsFiniteSet(holders')
    BY <2>3, <2>4
  <2> QED
    BY <1>0, <2>5, <2>6 DEF PermitCount
<1> QED
  BY <1>3, <1>4

-----------------------------------------------------------------------------
(* A task that leaves its permit, for whichever reason                     *)

LEMMA LeaveInv ==
    ASSUME TypeOK, PermitInv, NEW a \in holders, Release(a),
           NEW p \in Stopped, Goto(a, p)
    PROVE  PermitInv'
<1> USE DEF SemaphoreTypeOK
<1>1. SemaphoreTypeOK /\ a \in Agents
  BY DEF TypeOK
<1>2. PermitCount'
  BY <1>1, ReleaseCount DEF PermitInv
<1>3. task \in [Agents -> Positions] /\ task' = [task EXCEPT ![a] = p]
  BY DEF TypeOK, Goto
<1>4. p \notin WithPermit \cup {"waiting"}
  BY DEF Stopped, WithPermit
<1>5. CASE waiting = <<>>
  <2>1. PermitOwners'
    BY <1>1, <1>3, <1>4, <1>5 DEF PermitInv, PermitOwners, Release
  <2>2. LineOK'
    BY <1>5, EmptySeq DEF Release, LineOK
  <2> QED
    BY <1>2, <2>1, <2>2 DEF PermitInv
<1>6. CASE waiting # <<>>
  <2> DEFINE h == Head(waiting)
  <2>1. /\ Len(waiting) \in Nat /\ 1 \in 1 .. Len(waiting)
        /\ h = waiting[1] /\ h \in Agents
        /\ Len(Tail(waiting)) = Len(waiting) - 1
        /\ \A i \in 1 .. Len(Tail(waiting)) : Tail(waiting)[i] = waiting[i + 1]
    BY <1>1, <1>6, HeadTailProperties, EmptySeq, LenProperties
  <2>2. holders' = (holders \ {a}) \cup {h} /\ waiting' = Tail(waiting) /\ permits' = permits
    BY <1>6 DEF Release
  <2>3. task[h] = "waiting" /\ h # a
    BY <2>1 DEF PermitInv, LineOK
  <2>4. PermitOwners'
    BY <1>1, <1>3, <1>4, <2>1, <2>2, <2>3 DEF PermitInv, PermitOwners
  <2>5. permits = 0
    BY <1>1, <1>6 DEF PermitInv, LineOK
  <2>6. ASSUME NEW i \in 1 .. Len(waiting')
        PROVE  /\ waiting'[i] = waiting[i + 1] /\ i + 1 \in 1 .. Len(waiting)
               /\ waiting'[i] \in Agents /\ waiting'[i] # h /\ waiting'[i] # a
               /\ task'[waiting'[i]] = "waiting" /\ waiting'[i] \notin holders'
    <3>1. waiting'[i] = waiting[i + 1] /\ i + 1 \in 1 .. Len(waiting)
      BY <2>1, <2>2
    <3>2. task[waiting[i + 1]] = "waiting" /\ waiting[i + 1] \notin holders
      BY <3>1 DEF PermitInv, LineOK
    <3>3. waiting[i + 1] # h
      <4>1. waiting[i + 1] = waiting[1] => i + 1 = 1
        BY <2>1, <3>1 DEF PermitInv, LineOK
      <4> QED
        BY <2>1, <2>2, <4>1
    <3>4. waiting[i + 1] \in Agents
      BY <1>1, <3>1, ElementOfSeq
    <3> QED
      BY <1>3, <2>2, <3>1, <3>2, <3>3, <3>4
  <2>7. \A i, j \in 1 .. Len(waiting') : waiting'[i] = waiting'[j] => i = j
    <3> SUFFICES ASSUME NEW i \in 1 .. Len(waiting'), NEW j \in 1 .. Len(waiting'),
                        waiting'[i] = waiting'[j]
                 PROVE  i = j
      OBVIOUS
    <3>1. i + 1 = j + 1
      BY <2>6 DEF PermitInv, LineOK
    <3> QED
      BY <3>1
  <2>8. LineOK'
    BY <2>2, <2>5, <2>6, <2>7 DEF LineOK
  <2> QED
    BY <1>2, <2>4, <2>8 DEF PermitInv
<1> QED
  BY <1>5, <1>6

\* A task that changes its position but neither gains nor loses a permit.
LEMMA MoveInv ==
    ASSUME TypeOK, PermitInv, NEW a \in Agents, NEW p, Goto(a, p), UNCHANGED semaphoreVars,
           \/ task[a] \in WithPermit \cup {"waiting"} /\ a \in holders /\ p \in WithPermit
           \/ /\ task[a] \notin WithPermit \cup {"waiting"}
              /\ p \notin WithPermit \cup {"waiting"}
    PROVE  PermitInv'
<1>1. task \in [Agents -> Positions] /\ task' = [task EXCEPT ![a] = p]
  BY DEF TypeOK, Goto
<1>2. permits' = permits /\ holders' = holders /\ waiting' = waiting
  BY DEF semaphoreVars
<1>3. PermitCount'
  BY <1>2 DEF PermitInv, PermitCount
<1>4. PermitOwners'
  BY <1>1, <1>2 DEF PermitInv, PermitOwners, TypeOK
<1>5. \A i \in 1 .. Len(waiting) : waiting[i] # a /\ waiting[i] \in Agents
  BY ElementOfSeq DEF PermitInv, LineOK, TypeOK
<1>6. LineOK'
  BY <1>1, <1>2, <1>5 DEF PermitInv, LineOK
<1> QED
  BY <1>3, <1>4, <1>6 DEF PermitInv

LEMMA StutterInv ==
    ASSUME PermitInv, UNCHANGED <<semaphoreVars, task>>
    PROVE  PermitInv'
BY DEF PermitInv, PermitCount, PermitOwners, LineOK, semaphoreVars

LEMMA AcquireInv ==
    ASSUME TypeOK, PermitInv, NEW a \in Agents, AcquirePermit(a)
    PROVE  PermitInv'
<1>1. task \in [Agents -> Positions] /\ SemaphoreTypeOK
  BY DEF TypeOK, SemaphoreTypeOK
<1>2. task[a] = "acquire" /\ a \notin holders
  BY DEF AcquirePermit, PermitInv, PermitOwners, WithPermit
<1>3. \A i \in 1 .. Len(waiting) : waiting[i] # a /\ waiting[i] \in Agents
  BY <1>1, <1>2, ElementOfSeq DEF PermitInv, LineOK, SemaphoreTypeOK
<1>4. CASE AcquireNow(a) /\ Goto(a, "create")
  <2>1. PermitCount'
    BY <1>1, <1>2, <1>4, AcquireNowCount DEF PermitInv
  <2>2. PermitOwners'
    BY <1>1, <1>4 DEF PermitInv, PermitOwners, AcquireNow, Goto, WithPermit, SemaphoreTypeOK
  <2>3. LineOK'
    BY <1>4, EmptySeq DEF PermitInv, LineOK, AcquireNow
  <2> QED
    BY <2>1, <2>2, <2>3 DEF PermitInv
<1>5. CASE AcquireLater(a) /\ Goto(a, "waiting")
  <2>1. PermitCount'
    BY <1>5 DEF PermitInv, PermitCount, AcquireLater
  <2>2. PermitOwners'
    BY <1>1, <1>2, <1>5
    DEF PermitInv, PermitOwners, AcquireLater, Goto, WithPermit, SemaphoreTypeOK
  <2>3. /\ Len(waiting) \in Nat /\ Len(waiting') = Len(waiting) + 1
        /\ waiting'[Len(waiting) + 1] = a
        /\ \A i \in 1 .. Len(waiting) : waiting'[i] = waiting[i]
    BY <1>1, <1>5, AppendProperties, LenProperties DEF AcquireLater, SemaphoreTypeOK
  <2>4. \A i \in 1 .. Len(waiting') : task'[waiting'[i]] = "waiting" /\ waiting'[i] \notin holders'
    BY <1>1, <1>2, <1>3, <1>5, <2>3 DEF PermitInv, LineOK, AcquireLater, Goto
  <2>5. \A i, j \in 1 .. Len(waiting') : waiting'[i] = waiting'[j] => i = j
    BY <1>3, <2>3 DEF PermitInv, LineOK
  <2>6. permits' = 0
    BY <1>5 DEF AcquireLater
  <2> QED
    BY <2>1, <2>2, <2>4, <2>5, <2>6 DEF PermitInv, LineOK
<1> QED
  BY <1>4, <1>5 DEF AcquirePermit

\* An aborted task leaves the line.
LEMMA WithdrawInv ==
    ASSUME TypeOK, PermitInv, NEW a \in Agents, a \notin holders,
           Withdraw(a), Goto(a, "dropped")
    PROVE  PermitInv'
<1>1. task \in [Agents -> Positions] /\ SemaphoreTypeOK /\ task' = [task EXCEPT ![a] = "dropped"]
  BY DEF TypeOK, SemaphoreTypeOK, Goto
<1>2. permits' = permits /\ holders' = holders
  BY DEF Withdraw
<1>3. PermitCount'
  BY <1>2 DEF PermitInv, PermitCount
<1>4. PermitOwners'
  BY <1>1, <1>2 DEF PermitInv, PermitOwners, WithPermit, SemaphoreTypeOK
<1>5. PICK i \in 1 .. Len(waiting) : waiting[i] = a /\ waiting' = WithoutIndex(waiting, i)
  BY DEF Withdraw
<1>6. Len(waiting) \in Nat
  BY <1>1, LenProperties DEF SemaphoreTypeOK
<1> DEFINE at(k) == IF k < i THEN k ELSE k + 1
<1>7. Len(waiting') = Len(waiting) - 1
  <2>1. SemaphoreTypeOK'
    BY <1>1, WithdrawType
  <2>2. DOMAIN waiting' = 1 .. Len(waiting) - 1 /\ DOMAIN waiting' = 1 .. Len(waiting')
    BY <1>5, <2>1, LenProperties DEF WithoutIndex, SemaphoreTypeOK
  <2>3. Len(waiting') \in Nat
    BY <2>1, LenProperties DEF SemaphoreTypeOK
  <2> QED
    BY <1>5, <1>6, <2>2, <2>3
<1>8. ASSUME NEW k \in 1 .. Len(waiting')
      PROVE  waiting'[k] = waiting[at(k)] /\ at(k) \in 1 .. Len(waiting) /\ at(k) # i
  BY <1>5, <1>6, <1>7 DEF WithoutIndex
<1>9. \A k \in 1 .. Len(waiting') : waiting'[k] # a /\ waiting'[k] \in Agents
  <2>1. \A k \in 1 .. Len(waiting) : waiting[k] = a => k = i
    BY <1>5 DEF PermitInv, LineOK
  <2>2. \A k \in 1 .. Len(waiting) : waiting[k] \in Agents
    BY <1>1, ElementOfSeq DEF SemaphoreTypeOK
  <2> QED
    BY <1>8, <2>1, <2>2
<1>10. \A k \in 1 .. Len(waiting') : task'[waiting'[k]] = "waiting" /\ waiting'[k] \notin holders'
  BY <1>1, <1>2, <1>8, <1>9 DEF PermitInv, LineOK
<1>11. \A k, l \in 1 .. Len(waiting') : waiting'[k] = waiting'[l] => k = l
  <2> SUFFICES ASSUME NEW k \in 1 .. Len(waiting'), NEW l \in 1 .. Len(waiting'),
                      waiting'[k] = waiting'[l]
               PROVE  k = l
    OBVIOUS
  <2>1. at(k) = at(l)
    BY <1>8 DEF PermitInv, LineOK
  <2> QED
    BY <1>5, <1>6, <1>7, <2>1
<1>12. permits' = 0
  BY <1>1, <1>2, <1>5, <1>6, EmptySeq DEF PermitInv, LineOK, SemaphoreTypeOK
<1> QED
  BY <1>3, <1>4, <1>10, <1>11, <1>12 DEF PermitInv, LineOK

-----------------------------------------------------------------------------

LEMMA PermitStep ==
    ASSUME TypeOK, SpawnOrder, PermitInv, [Next]_vars
    PROVE  PermitInv'
<1>1. CASE UNCHANGED vars
  BY <1>1, StutterInv DEF vars, taskVars
<1>2. CASE Next
  <2>1. PICK a \in Agents :
          \/ Spawn(a) \/ InsertHandle(a) \/ AbandonSpawn(a) \/ TaskStep(a)
          \/ CancelBegin(a) \/ CancelEnd(a)
          \/ WaitCall(a) \/ WaitPoll(a) \/ WaitReclaim(a)
          \/ Block(a) \/ Purge(a)
    BY <1>2 DEF Next
  <2> USE DEF WithPermit, Stopped
  <2>2. task[a] \in WithPermit => a \in holders
    BY DEF PermitInv, PermitOwners
  <2>3. CASE AcquirePermit(a)
    BY <2>3, AcquireInv
  <2>4. CASE Panic(a) \/ Exit(a)
    BY <2>2, <2>4, LeaveInv DEF Panic, Exit, UserCode
  <2>5. CASE Drop(a)
    <3>1. CASE task[a] = "ready" /\ UNCHANGED semaphoreVars
      BY <2>5, <3>1, MoveInv DEF Drop
    <3>2. CASE task[a] = "waiting" /\ a \notin holders /\ Withdraw(a)
      BY <2>5, <3>2, WithdrawInv DEF Drop
    <3>3. CASE a \in holders /\ Release(a)
      BY <2>5, <3>3, LeaveInv DEF Drop
    <3> QED
      BY <2>5, <3>1, <3>2, <3>3 DEF Drop
  <2>6. CASE PermitGranted(a)
    BY <2>6, MoveInv DEF PermitGranted
  <2>7. CASE CreateContext(a) \/ Enter(a) \/ Execute(a) \/ Report(a)
    BY <2>2, <2>7, MoveInv DEF CreateContext, Enter, Execute, Report
  <2>8. CASE Serialize(a) \/ Finish(a) \/ Fail(a) \/ FailMessage(a) \/ CleanUp(a)
    BY <2>2, <2>8, MoveInv DEF Serialize, Finish, Fail, FailMessage, CleanUp
  <2>9. CASE Start(a)
    BY <2>9, MoveInv DEF Start
  <2>10. CASE Spawn(a)
    BY <2>10, MoveInv DEF Spawn, SpawnOrder
  <2>11. CASE \/ InsertHandle(a) \/ AbandonSpawn(a) \/ CancelBegin(a) \/ CancelEnd(a)
              \/ WaitCall(a) \/ WaitPoll(a) \/ WaitReclaim(a)
              \/ Block(a) \/ Purge(a)
    BY <2>11, StutterInv
    DEF InsertHandle, AbandonSpawn, CancelBegin, CancelEnd, WaitCall, WaitPoll, WaitReclaim,
        Block, Purge, taskVars
  <2> QED
    BY <2>1, <2>3, <2>4, <2>5, <2>6, <2>7, <2>8, <2>9, <2>10, <2>11 DEF TaskStep
<1> QED
  BY <1>1, <1>2

\* The inductive invariant holds in every reachable state.
LEMMA PermitInvHolds == Spec => []PermitInv
<1>1. Init => PermitInv
  BY MaxConcurrencyAssumption, FS_EmptySet, EmptySeq
  DEF Init, SemaphoreInit, PermitInv, PermitCount, PermitOwners, LineOK, WithPermit
<1>2. TypeOK /\ SpawnOrder /\ PermitInv /\ [Next]_vars => PermitInv'
  BY PermitStep
<1> QED
  BY <1>1, <1>2, TypeCorrect, SpawnOrderHolds, PTL DEF Spec

-----------------------------------------------------------------------------
(* No wake-up is lost                                                      *)

\* A parked task was handed a permit or stands in the line for one.
ParkedInv ==
    \A a \in Agents : task[a] = "waiting" => a \in holders \/ InLine(waiting, a)

\* Whoever stood in the line before a release has its permit or still stands there.
LEMMA ReleaseKeepsLine ==
    ASSUME SemaphoreTypeOK, NEW a \in Agents, Release(a), NEW b, InLine(waiting, b)
    PROVE  b \in holders' \/ InLine(waiting', b)
<1>1. PICK i \in 1 .. Len(waiting) : waiting[i] = b
  BY DEF InLine
<1>2. waiting # <<>> /\ Len(waiting) \in Nat
  BY <1>1, EmptySeq, LenProperties DEF SemaphoreTypeOK
<1>3. holders' = (holders \ {a}) \cup {Head(waiting)} /\ waiting' = Tail(waiting)
  BY <1>2 DEF Release
<1>4. /\ Head(waiting) = waiting[1]
      /\ Len(Tail(waiting)) = Len(waiting) - 1
      /\ \A k \in 1 .. Len(Tail(waiting)) : Tail(waiting)[k] = waiting[k + 1]
  BY <1>2, HeadTailProperties DEF SemaphoreTypeOK
<1>5. CASE i = 1
  BY <1>1, <1>3, <1>4, <1>5
<1>6. CASE i # 1
  <2>1. i - 1 \in 1 .. Len(Tail(waiting)) /\ (i - 1) + 1 = i
    BY <1>2, <1>4, <1>6
  <2>2. waiting'[i - 1] = b
    BY <1>1, <1>3, <1>4, <2>1
  <2> QED
    BY <1>3, <2>1, <2>2 DEF InLine
<1> QED
  BY <1>5, <1>6

\* A withdrawal takes nobody else out of the line.
LEMMA WithdrawKeepsLine ==
    ASSUME SemaphoreTypeOK, NEW a \in Agents, Withdraw(a), NEW b, b # a, InLine(waiting, b)
    PROVE  InLine(waiting', b)
<1>1. PICK i \in 1 .. Len(waiting) : waiting[i] = a /\ waiting' = WithoutIndex(waiting, i)
  BY DEF Withdraw
<1>2. PICK k \in 1 .. Len(waiting) : waiting[k] = b
  BY DEF InLine
<1>3. Len(waiting) \in Nat /\ k # i
  BY <1>1, <1>2, LenProperties DEF SemaphoreTypeOK
<1>4. waiting' \in Seq(Agents)
  BY WithdrawType DEF SemaphoreTypeOK
<1>5. DOMAIN waiting' = 1 .. Len(waiting) - 1 /\ DOMAIN waiting' = 1 .. Len(waiting')
  BY <1>1, <1>4, LenProperties DEF WithoutIndex
<1> DEFINE at == IF k < i THEN k ELSE k - 1
<1>6. at \in 1 .. Len(waiting) - 1 /\ (IF at < i THEN at ELSE at + 1) = k
  BY <1>3
<1>7. waiting'[at] = b
  BY <1>1, <1>2, <1>6 DEF WithoutIndex
<1> QED
  BY <1>5, <1>6, <1>7 DEF InLine

LEMMA ParkedStep ==
    ASSUME TypeOK, SpawnOrder, ParkedInv, [Next]_vars
    PROVE  ParkedInv'
<1>0. task \in [Agents -> Positions] /\ SemaphoreTypeOK
  BY DEF TypeOK, SemaphoreTypeOK
<1>1. CASE UNCHANGED vars
  BY <1>1 DEF ParkedInv, vars, taskVars, semaphoreVars
<1>2. CASE Next
  <2>1. PICK a \in Agents :
          \/ Spawn(a) \/ InsertHandle(a) \/ AbandonSpawn(a) \/ TaskStep(a)
          \/ CancelBegin(a) \/ CancelEnd(a)
          \/ WaitCall(a) \/ WaitPoll(a) \/ WaitReclaim(a)
          \/ Block(a) \/ Purge(a)
    BY <1>2 DEF Next
  <2> SUFFICES ASSUME NEW b \in Agents, task'[b] = "waiting"
               PROVE  b \in holders' \/ InLine(waiting', b)
    BY DEF ParkedInv
  <2>2. task[b] = "waiting" => b \in holders \/ InLine(waiting, b)
    BY DEF ParkedInv
  <2>3. CASE AcquirePermit(a)
    <3>1. CASE AcquireNow(a) /\ Goto(a, "create")
      BY <1>0, <2>2, <3>1 DEF AcquireNow, Goto
    <3>2. CASE AcquireLater(a) /\ Goto(a, "waiting")
      <4>1. /\ Len(waiting) \in Nat /\ Len(waiting') = Len(waiting) + 1
            /\ waiting'[Len(waiting) + 1] = a
            /\ \A i \in 1 .. Len(waiting) : waiting'[i] = waiting[i]
        BY <1>0, <3>2, AppendProperties, LenProperties DEF AcquireLater, SemaphoreTypeOK
      <4>2. CASE b = a
        BY <4>1, <4>2 DEF InLine
      <4>3. CASE b # a
        BY <1>0, <2>2, <3>2, <4>1, <4>3 DEF AcquireLater, Goto, InLine
      <4> QED
        BY <4>2, <4>3
    <3> QED
      BY <2>3, <3>1, <3>2 DEF AcquirePermit
  <2>4. ASSUME Release(a), NEW p \in Stopped, Goto(a, p)
        PROVE  b \in holders' \/ InLine(waiting', b)
    <3>1. b # a /\ task[b] = "waiting"
      BY <1>0, <2>4 DEF Goto, Stopped
    <3>2. CASE InLine(waiting, b)
      BY <1>0, <2>4, <3>2, ReleaseKeepsLine
    <3>3. CASE b \in holders
      BY <2>4, <3>1, <3>3 DEF Release
    <3> QED
      BY <2>2, <3>1, <3>2, <3>3
  <2>5. CASE Panic(a) \/ Exit(a)
    BY <2>4, <2>5 DEF Panic, Exit, Stopped
  <2>6. CASE Drop(a)
    <3>1. b # a /\ task[b] = "waiting"
      BY <1>0, <2>6 DEF Drop, Goto
    <3>2. CASE task[a] = "ready" /\ UNCHANGED semaphoreVars
      BY <2>2, <3>1, <3>2 DEF semaphoreVars
    <3>3. CASE task[a] = "waiting" /\ a \notin holders /\ Withdraw(a)
      <4>1. CASE InLine(waiting, b)
        BY <1>0, <3>1, <3>3, <4>1, WithdrawKeepsLine
      <4>2. CASE b \in holders
        BY <3>3, <4>2 DEF Withdraw
      <4> QED
        BY <2>2, <3>1, <4>1, <4>2
    <3>4. CASE a \in holders /\ Release(a)
      BY <2>4, <2>6, <3>4 DEF Drop, Stopped
    <3> QED
      BY <2>6, <3>2, <3>3, <3>4 DEF Drop
  <2>7. ASSUME UNCHANGED semaphoreVars, task' = task \/ \E p : Goto(a, p) /\ p # "waiting"
        PROVE  b \in holders' \/ InLine(waiting', b)
    BY <1>0, <2>2, <2>7 DEF Goto, semaphoreVars
  <2>8. CASE \/ Start(a) \/ PermitGranted(a) \/ CreateContext(a) \/ Enter(a)
             \/ Execute(a) \/ Report(a) \/ Serialize(a) \/ Finish(a)
             \/ Fail(a) \/ FailMessage(a) \/ CleanUp(a) \/ Spawn(a)
    BY <2>7, <2>8
    DEF Start, PermitGranted, CreateContext, Enter, Execute, Report, Serialize,
        Finish, Fail, FailMessage, CleanUp, Spawn
  <2>9. CASE \/ InsertHandle(a) \/ AbandonSpawn(a) \/ CancelBegin(a) \/ CancelEnd(a)
             \/ WaitCall(a) \/ WaitPoll(a) \/ WaitReclaim(a)
             \/ Block(a) \/ Purge(a)
    BY <2>7, <2>9
    DEF InsertHandle, AbandonSpawn, CancelBegin, CancelEnd, WaitCall, WaitPoll,
        WaitReclaim, Block, Purge, taskVars
  <2> QED
    BY <2>1, <2>3, <2>5, <2>6, <2>8, <2>9 DEF TaskStep
<1> QED
  BY <1>1, <1>2

LEMMA ParkedInvHolds == Spec => []ParkedInv
<1>1. Init => ParkedInv
  BY DEF Init, ParkedInv
<1>2. TypeOK /\ SpawnOrder /\ ParkedInv /\ [Next]_vars => ParkedInv'
  BY ParkedStep
<1> QED
  BY <1>1, <1>2, TypeCorrect, SpawnOrderHolds, PTL DEF Spec

-----------------------------------------------------------------------------

\* The owners of a permit are the running tasks and the parked ones that were
\* handed theirs.
LEMMA OwnersAreRunningOrGranted ==
    ASSUME TypeOK, PermitInv
    PROVE  Running \cup Granted = holders
BY DEF Running, Granted, PermitInv, PermitOwners, TypeOK

\* max_concurrency bounds the tasks that hold a permit, whatever is cancelled,
\* fails or panics, for any number of agents.
THEOREM ConcurrencyBounded == Spec => []ConcurrencyBound
<1>1. TypeOK /\ PermitInv => ConcurrencyBound
  <2> SUFFICES ASSUME TypeOK, PermitInv PROVE ConcurrencyBound
    OBVIOUS
  <2>1. Running \subseteq holders /\ IsFiniteSet(holders)
    BY OwnersAreRunningOrGranted DEF PermitInv, PermitCount
  <2>2. /\ Cardinality(Running) <= Cardinality(holders)
        /\ Cardinality(Running) \in Nat /\ Cardinality(holders) \in Nat
    BY <2>1, FS_Subset, FS_CardinalityType
  <2>3. permits \in Nat /\ permits + Cardinality(holders) = MaxConcurrency
    BY DEF TypeOK, PermitInv, PermitCount
  <2> QED
    BY <2>2, <2>3, MaxConcurrencyAssumption DEF ConcurrencyBound
<1> QED
  BY <1>1, TypeCorrect, PermitInvHolds, PTL

\* No permit is lost or duplicated, none is free while a task waits for one, and
\* no parked task has fallen out of the line.
THEOREM PermitsConserved == Spec => []PermitsAddUp
<1>1. TypeOK /\ PermitInv /\ ParkedInv => PermitsAddUp
  BY OwnersAreRunningOrGranted
  DEF PermitInv, PermitCount, LineOK, ParkedInv, Granted, PermitsAddUp
<1> QED
  BY <1>1, TypeCorrect, PermitInvHolds, ParkedInvHolds, PTL

\* A task is parked without a permit only while max_concurrency others own theirs,
\* and as long as the limit is not zero one of them is past acquire, or was
\* handed its permit: the tasks never all wait for each other.
WorkConserving ==
    \A a \in Agents : task[a] = "waiting" /\ a \notin Granted =>
        /\ permits = 0
        /\ Cardinality((Running \cup Granted) \ {a}) = MaxConcurrency
        /\ MaxConcurrency > 0 => \E b \in Running \cup Granted : b # a

THEOREM SemaphoreIsWorkConserving == Spec => []WorkConserving
<1>1. TypeOK /\ PermitInv /\ ParkedInv => WorkConserving
  <2> SUFFICES ASSUME TypeOK, PermitInv, ParkedInv,
                      NEW a \in Agents, task[a] = "waiting", a \notin Granted
               PROVE  /\ permits = 0
                      /\ Cardinality((Running \cup Granted) \ {a}) = MaxConcurrency
                      /\ MaxConcurrency > 0 => \E b \in Running \cup Granted : b # a
    BY DEF WorkConserving
  <2>1. Running \cup Granted = holders /\ a \notin holders
    BY OwnersAreRunningOrGranted DEF Granted
  <2>2. InLine(waiting, a)
    BY <2>1 DEF ParkedInv
  <2>3. permits = 0
    BY <2>2, EmptySeq DEF InLine, PermitInv, LineOK, TypeOK
  <2>4. Cardinality(holders) = MaxConcurrency /\ holders \ {a} = holders
    BY <2>1, <2>3, FS_CardinalityType, MaxConcurrencyAssumption DEF PermitInv, PermitCount
  <2>5. MaxConcurrency > 0 => holders # {}
    BY <2>4, FS_EmptySet, MaxConcurrencyAssumption
  <2> QED
    BY <2>1, <2>3, <2>4, <2>5
<1> QED
  BY <1>1, TypeCorrect, PermitInvHolds, ParkedInvHolds, PTL

-----------------------------------------------------------------------------
(* First come, first served                                                *)

\* Who is in the line and stays there moves to the front, or keeps its place.
PlacesImprove ==
    \A j \in 1 .. Len(waiting) :
        InLine(waiting', waiting[j]) => \E i \in 1 .. j : waiting'[i] = waiting[j]

\* Who gets a permit stood before everybody who waits.
NobodyIsPassed ==
    \A a \in holders' \ holders : \A j \in 1 .. Len(waiting) :
        waiting[j] # a => \E i \in 1 .. j - 1 : waiting[i] = a

FairLine == PlacesImprove /\ NobodyIsPassed

\* acquire never overtakes, whoever is aborted in the line or right after a handover:
\* with TasksAdvance, the reason why no task starves (TasksStop).
FirstComeFirstServed == [][FairLine]_vars

LEMMA FairLineStep ==
    ASSUME SemaphoreTypeOK, PermitInv, NEW a \in Agents,
           AcquireNow(a) \/ AcquireLater(a) \/ Release(a) \/ Withdraw(a)
    PROVE  FairLine
<1>0. Len(waiting) \in Nat
  BY LenProperties DEF SemaphoreTypeOK
<1>1. CASE waiting = <<>>
  BY <1>1, EmptySeq DEF FairLine, PlacesImprove, NobodyIsPassed
<1>2. CASE waiting # <<>> /\ AcquireNow(a)
  BY <1>2 DEF PermitInv, LineOK, AcquireNow, SemaphoreTypeOK
<1>3. CASE waiting # <<>> /\ AcquireLater(a)
  <2>1. \A i \in 1 .. Len(waiting) : waiting'[i] = waiting[i]
    BY <1>3, AppendProperties DEF AcquireLater, SemaphoreTypeOK
  <2> QED
    BY <1>0, <1>3, <2>1 DEF FairLine, PlacesImprove, NobodyIsPassed, AcquireLater
<1>4. CASE waiting # <<>> /\ Release(a)
  <2>1. holders' = (holders \ {a}) \cup {Head(waiting)} /\ waiting' = Tail(waiting)
    BY <1>4 DEF Release
  <2>2. /\ Head(waiting) = waiting[1]
        /\ Len(Tail(waiting)) = Len(waiting) - 1
        /\ \A k \in 1 .. Len(Tail(waiting)) : Tail(waiting)[k] = waiting[k + 1]
    BY <1>4, HeadTailProperties DEF SemaphoreTypeOK
  <2>3. NobodyIsPassed
    BY <1>0, <2>1, <2>2 DEF NobodyIsPassed
  <2>4. ASSUME NEW j \in 1 .. Len(waiting), InLine(waiting', waiting[j])
        PROVE  \E i \in 1 .. j : waiting'[i] = waiting[j]
    <3>1. PICK k \in 1 .. Len(waiting) - 1 : waiting[k + 1] = waiting[j]
      BY <2>1, <2>2, <2>4 DEF InLine
    <3>2. k + 1 = j
      BY <1>0, <3>1 DEF PermitInv, LineOK
    <3> QED
      BY <1>0, <2>1, <2>2, <3>1, <3>2
  <2> QED
    BY <2>3, <2>4 DEF FairLine, PlacesImprove
<1>5. CASE Withdraw(a)
  <2>1. PICK n \in 1 .. Len(waiting) : waiting[n] = a /\ waiting' = WithoutIndex(waiting, n)
    BY <1>5 DEF Withdraw
  <2>2. waiting' \in Seq(Agents) /\ holders' = holders
    BY <1>5, WithdrawType DEF SemaphoreTypeOK, Withdraw
  <2>3. DOMAIN waiting' = 1 .. Len(waiting) - 1 /\ DOMAIN waiting' = 1 .. Len(waiting')
    BY <2>1, <2>2, LenProperties DEF WithoutIndex
  <2>4. ASSUME NEW j \in 1 .. Len(waiting), InLine(waiting', waiting[j])
        PROVE  \E i \in 1 .. j : waiting'[i] = waiting[j]
    <3>1. PICK k \in 1 .. Len(waiting) - 1 : waiting'[k] = waiting[j]
      BY <2>3, <2>4 DEF InLine
    <3>2. (IF k < n THEN k ELSE k + 1) = j
      <4>1. waiting'[k] = waiting[IF k < n THEN k ELSE k + 1]
        BY <2>1, <3>1 DEF WithoutIndex
      <4>2. (IF k < n THEN k ELSE k + 1) \in 1 .. Len(waiting)
        BY <1>0, <3>1
      <4> QED
        BY <3>1, <4>1, <4>2 DEF PermitInv, LineOK
    <3>3. k \in 1 .. j
      BY <1>0, <3>1, <3>2
    <3> QED
      BY <3>1, <3>3
  <2> QED
    BY <2>2, <2>4 DEF FairLine, PlacesImprove, NobodyIsPassed
<1> QED
  BY <1>1, <1>2, <1>3, <1>4, <1>5

\* Only the four operations of the semaphore touch the line or the permits.
THEOREM PermitsAreGrantedInOrder == Spec => FirstComeFirstServed
<1>1. ASSUME TypeOK, PermitInv, Next
      PROVE  FairLine
  <2>0. SemaphoreTypeOK
    BY <1>1 DEF TypeOK, SemaphoreTypeOK
  <2>1. PICK a \in Agents :
          \/ Spawn(a) \/ InsertHandle(a) \/ AbandonSpawn(a) \/ TaskStep(a)
          \/ CancelBegin(a) \/ CancelEnd(a)
          \/ WaitCall(a) \/ WaitPoll(a) \/ WaitReclaim(a)
          \/ Block(a) \/ Purge(a)
    BY <1>1 DEF Next
  <2>2. ASSUME UNCHANGED semaphoreVars PROVE FairLine
    <3>1. \A j \in 1 .. Len(waiting) : j \in 1 .. j
      BY <2>0, LenProperties DEF SemaphoreTypeOK
    <3> QED
      BY <2>2, <3>1 DEF FairLine, PlacesImprove, NobodyIsPassed, semaphoreVars
  <2>3. CASE AcquirePermit(a) \/ Panic(a) \/ Exit(a) \/ Drop(a)
    BY <1>1, <2>0, <2>2, <2>3, FairLineStep DEF AcquirePermit, Panic, Exit, Drop
  <2>4. CASE \/ Start(a) \/ PermitGranted(a) \/ CreateContext(a) \/ Enter(a)
             \/ Execute(a) \/ Report(a) \/ Serialize(a) \/ Finish(a)
             \/ Fail(a) \/ FailMessage(a) \/ CleanUp(a)
    BY <2>2, <2>4
    DEF Start, PermitGranted, CreateContext, Enter, Execute, Report, Serialize,
        Finish, Fail, FailMessage, CleanUp
  <2>5. CASE \/ Spawn(a) \/ InsertHandle(a) \/ AbandonSpawn(a) \/ CancelBegin(a) \/ CancelEnd(a)
             \/ WaitCall(a) \/ WaitPoll(a) \/ WaitReclaim(a)
             \/ Block(a) \/ Purge(a)
    BY <2>2, <2>5
    DEF Spawn, InsertHandle, AbandonSpawn, CancelBegin, CancelEnd, WaitCall, WaitPoll,
        WaitReclaim, Block, Purge
  <2> QED
    BY <2>1, <2>3, <2>4, <2>5 DEF TaskStep
<1>2. TypeOK /\ PermitInv /\ [Next]_vars => [FairLine]_vars
  BY <1>1
<1> QED
  BY <1>2, TypeCorrect, PermitInvHolds, PTL DEF Spec, FirstComeFirstServed

=============================================================================
