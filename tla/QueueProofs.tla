---------------------------- MODULE QueueProofs -----------------------------
(***************************************************************************)
(* Theorems about PriorityQueue, for any items, poppers, priorities and    *)
(* capacity, and any choice of the callers that give up.                   *)
(***************************************************************************)
EXTENDS PriorityQueue, NotifyProofs, FiniteSetTheorems

-----------------------------------------------------------------------------
(* The heap and the history of its items                                   *)

PushStates == {"idle", "try", "full", "wait", "notify", "ok", "rejected", "closed", "dropped"}
PopStates == {"idle", "try", "notify", "check", "listen", "wait", "none"}

\* arrivals lists the items of the heap, each once, and all were pushed.
StoreInv ==
    /\ heap \subseteq Items /\ IsFiniteSet(heap)
    /\ arrivals \in Seq(Items)
    /\ Cardinality(heap) = Len(arrivals)
    /\ \A k \in 1 .. Len(arrivals) : arrivals[k] \in heap
    /\ \A i \in heap : \E k \in 1 .. Len(arrivals) : arrivals[k] = i
    /\ \A j, k \in 1 .. Len(arrivals) : arrivals[j] = arrivals[k] => j = k
    /\ sequence \in [Items -> 0 .. SeqMod - 1]
    /\ sequence_counter \in 0 .. SeqMod - 1
    /\ \A i \in heap : push[i] \in {"notify", "ok"}

PushTypeOK == push \in [Items -> PushStates]

Put(i) ==
    /\ ~closed /\ ~Full
    /\ push[i] = "try"
    /\ heap' = heap \cup {i}
    /\ sequence' = [sequence EXCEPT ![i] = sequence_counter]
    /\ sequence_counter' = (sequence_counter + 1) % SeqMod
    /\ arrivals' = Append(arrivals, i)
    /\ PushAt(i, "notify")

Take(i) ==
    /\ i \in heap
    /\ \A j \in heap : ~Before(j, i)
    /\ TakeOut(i)
    /\ UNCHANGED push

LEMMA PutStore ==
    ASSUME StoreInv, PushTypeOK, NEW i \in Items, Put(i)
    PROVE  StoreInv'
<1>1. SeqMod \in Nat \ {0}
  BY QueueAssumption
<1>2. /\ Len(arrivals) \in Nat
      /\ Append(arrivals, i) \in Seq(Items)
      /\ Len(Append(arrivals, i)) = Len(arrivals) + 1
      /\ \A k \in 1 .. Len(arrivals) : Append(arrivals, i)[k] = arrivals[k]
      /\ Append(arrivals, i)[Len(arrivals) + 1] = i
  BY AppendProperties, LenProperties DEF StoreInv
<1>3. i \notin heap
  BY DEF StoreInv, Put
<1>4. IsFiniteSet(heap') /\ Cardinality(heap') = Cardinality(heap) + 1
  BY <1>3, FS_AddElement DEF StoreInv, Put
<1>5. \A k \in 1 .. Len(arrivals') :
        \/ k \in 1 .. Len(arrivals) /\ arrivals'[k] = arrivals[k]
        \/ k = Len(arrivals) + 1 /\ arrivals'[k] = i
  BY <1>2 DEF Put
<1>6. Len(arrivals') = Cardinality(heap') /\ arrivals' \in Seq(Items) /\ heap' \subseteq Items
  BY <1>2, <1>4 DEF StoreInv, Put
<1>7. \A k \in 1 .. Len(arrivals') : arrivals'[k] \in heap'
  BY <1>5 DEF StoreInv, Put
<1>8. \A j \in heap' : \E k \in 1 .. Len(arrivals') : arrivals'[k] = j
  <2> TAKE j \in heap'
  <2>1. CASE j = i
    BY <1>2, <2>1 DEF Put
  <2>2. CASE j \in heap
    <3>1. PICK k \in 1 .. Len(arrivals) : arrivals[k] = j
      BY <2>2 DEF StoreInv
    <3>2. k \in 1 .. Len(arrivals') /\ arrivals'[k] = j
      BY <1>2, <3>1 DEF Put
    <3> QED
      BY <3>2
  <2> QED
    BY <2>1, <2>2 DEF Put
<1>9. \A j, k \in 1 .. Len(arrivals') : arrivals'[j] = arrivals'[k] => j = k
  <2>1. \A k \in 1 .. Len(arrivals) : arrivals[k] # i
    BY <1>3 DEF StoreInv
  <2>2. \A j, k \in 1 .. Len(arrivals) : arrivals[j] = arrivals[k] => j = k
    BY DEF StoreInv
  <2> QED
    BY <1>5, <2>1, <2>2
<1>10. sequence' \in [Items -> 0 .. SeqMod - 1]
  BY DEF StoreInv, Put
<1>11. sequence_counter' \in 0 .. SeqMod - 1
  <2>1. \A n \in Nat : n % SeqMod \in 0 .. SeqMod - 1
    BY <1>1
  <2>2. sequence_counter + 1 \in Nat
    BY <1>1 DEF StoreInv
  <2> QED
    BY <2>1, <2>2 DEF Put
<1>12. \A j \in heap' : push'[j] \in {"notify", "ok"}
  BY DEF StoreInv, Put, PushAt, PushTypeOK
<1> QED
  BY <1>4, <1>6, <1>7, <1>8, <1>9, <1>10, <1>11, <1>12 DEF StoreInv

\* The place of an item in arrivals.
Place(i) == CHOOSE k \in 1 .. Len(arrivals) : arrivals[k] = i

LEMMA PlaceInLine ==
    ASSUME StoreInv, NEW i \in heap
    PROVE  Place(i) \in 1 .. Len(arrivals) /\ arrivals[Place(i)] = i
BY DEF StoreInv, Place

\* What an item's departure leaves of arrivals.
LEMMA TakeLine ==
    ASSUME StoreInv, NEW i \in heap, TakeOut(i)
    PROVE  /\ arrivals' \in Seq(Items) /\ Len(arrivals) \in Nat
           /\ Len(arrivals') = Len(arrivals) - 1
           /\ \A k \in 1 .. Len(arrivals') :
                \/ /\ k < Place(i) /\ k \in 1 .. Len(arrivals)
                   /\ arrivals'[k] = arrivals[k]
                \/ /\ ~(k < Place(i)) /\ k + 1 \in 1 .. Len(arrivals)
                   /\ arrivals'[k] = arrivals[k + 1]
<1>1. arrivals' = WithoutIndex(arrivals, Place(i))
  BY DEF TakeOut, Place
<1>2. Place(i) \in 1 .. Len(arrivals)
  BY PlaceInLine
<1>3. Len(arrivals) \in Nat /\ \A k \in 1 .. Len(arrivals) : arrivals[k] \in Items
  BY LenProperties DEF StoreInv
<1>4. arrivals' \in [1 .. Len(arrivals) - 1 -> Items] /\ Len(arrivals) - 1 \in Nat
  BY <1>1, <1>2, <1>3 DEF WithoutIndex
<1>5. arrivals' \in Seq(Items) /\ Len(arrivals') = Len(arrivals) - 1
  BY <1>4, IsASeq, LenProperties
<1>6. \A k \in 1 .. Len(arrivals') :
        arrivals'[k] = IF k < Place(i) THEN arrivals[k] ELSE arrivals[k + 1]
  BY <1>1, <1>5 DEF WithoutIndex
<1> QED
  BY <1>2, <1>3, <1>5, <1>6

LEMMA TakeStore ==
    ASSUME StoreInv, NEW i \in heap, Take(i)
    PROVE  StoreInv'
<1> DEFINE p == Place(i)
<1>1. TakeOut(i)
  BY DEF Take
<1>2. p \in 1 .. Len(arrivals) /\ arrivals[p] = i
  BY PlaceInLine
<1>3. /\ arrivals' \in Seq(Items) /\ Len(arrivals) \in Nat
      /\ Len(arrivals') = Len(arrivals) - 1
      /\ \A k \in 1 .. Len(arrivals') :
           \/ k < p /\ k \in 1 .. Len(arrivals) /\ arrivals'[k] = arrivals[k]
           \/ ~(k < p) /\ k + 1 \in 1 .. Len(arrivals) /\ arrivals'[k] = arrivals[k + 1]
  BY <1>1, TakeLine
<1> HIDE DEF p
<1>4. \A j, k \in 1 .. Len(arrivals) : arrivals[j] = arrivals[k] => j = k
  BY DEF StoreInv
<1>5. IsFiniteSet(heap') /\ Cardinality(heap') = Cardinality(heap) - 1
  BY <1>1, FS_RemoveElement DEF StoreInv, TakeOut
<1>6. /\ heap' = heap \ {i} /\ UNCHANGED <<sequence, sequence_counter, push>>
      /\ heap' \subseteq Items
  BY <1>1 DEF TakeOut, Take, StoreInv
<1>7. \A k \in 1 .. Len(arrivals') : arrivals'[k] \in heap'
  <2> TAKE k \in 1 .. Len(arrivals')
  <2>1. CASE k < p
    <3>1. arrivals[k] # i
      BY <1>2, <1>3, <1>4, <2>1
    <3> QED
      BY <1>3, <1>6, <2>1, <3>1 DEF StoreInv
  <2>2. CASE ~(k < p)
    <3>1. k + 1 # p
      BY <1>2, <2>2
    <3>2. arrivals[k + 1] # i
      BY <1>2, <1>3, <1>4, <2>2, <3>1
    <3> QED
      BY <1>3, <1>6, <2>2, <3>2 DEF StoreInv
  <2> QED
    BY <2>1, <2>2
<1>8. \A j \in heap' : \E k \in 1 .. Len(arrivals') : arrivals'[k] = j
  <2> TAKE j \in heap'
  <2>1. PICK m \in 1 .. Len(arrivals) : arrivals[m] = j
    BY <1>6 DEF StoreInv
  <2>2. m # p
    BY <1>2, <1>6, <2>1
  <2>3. CASE m < p
    <3>1. m \in 1 .. Len(arrivals')
      BY <1>2, <1>3, <2>3
    <3> QED
      BY <1>3, <2>1, <2>3, <3>1
  <2>4. CASE m > p
    <3>1. m - 1 \in 1 .. Len(arrivals') /\ ~(m - 1 < p) /\ (m - 1) + 1 = m
      BY <1>2, <1>3, <2>4
    <3>2. arrivals'[m - 1] = j
      BY <1>3, <2>1, <3>1
    <3> QED
      BY <3>1, <3>2
  <2> QED
    BY <1>2, <2>2, <2>3, <2>4
<1>9. \A j, k \in 1 .. Len(arrivals') : arrivals'[j] = arrivals'[k] => j = k
  <2> TAKE j, k \in 1 .. Len(arrivals')
  <2> HAVE arrivals'[j] = arrivals'[k]
  <2>1. CASE j < p /\ k < p
    BY <1>3, <1>4, <2>1
  <2>2. CASE ~(j < p) /\ ~(k < p)
    <3>1. j + 1 = k + 1
      BY <1>3, <1>4, <2>2
    <3> QED
      BY <3>1
  <2>3. CASE j < p /\ ~(k < p)
    <3>1. j = k + 1
      BY <1>3, <1>4, <2>3
    <3> QED
      BY <1>2, <2>3, <3>1
  <2>4. CASE ~(j < p) /\ k < p
    <3>1. j + 1 = k
      BY <1>3, <1>4, <2>4
    <3> QED
      BY <1>2, <2>4, <3>1
  <2> QED
    BY <2>1, <2>2, <2>3, <2>4
<1>10. Cardinality(heap') = Len(arrivals')
  BY <1>3, <1>5 DEF StoreInv
<1>11. \A j \in heap' : push'[j] \in {"notify", "ok"}
  BY <1>6 DEF StoreInv
<1> QED
  BY <1>3, <1>5, <1>6, <1>7, <1>8, <1>9, <1>10, <1>11 DEF StoreInv

\* What a step does to the heap: it puts an item in, takes one out, or leaves it alone.
LEMMA StoreCases ==
    ASSUME PushTypeOK, StoreInv, [Next]_vars
    PROVE  \/ \E i \in Items : Put(i) /\ UNCHANGED closed
           \/ \E i \in heap : Take(i) /\ UNCHANGED closed
           \/ /\ UNCHANGED innerVars
              /\ closed' \in {closed, TRUE}
              /\ \A i \in heap : push'[i] = push[i] \/ push'[i] = "ok"
<1>1. CASE UNCHANGED vars
  BY <1>1 DEF vars
<1>2. ASSUME NEW i \in Items, TryPush(i), ~closed, ~Full, UNCHANGED closed,
             heap' = heap \cup {i}, arrivals' = Append(arrivals, i), PushAt(i, "notify"),
             sequence' = [sequence EXCEPT ![i] = sequence_counter],
             sequence_counter' = (sequence_counter + 1) % SeqMod
      PROVE  Put(i)
  BY <1>2 DEF Put, TryPush
<1>3. ASSUME NEW i \in Items, TryPush(i)
      PROVE  UNCHANGED closed /\ (Put(i) \/ (UNCHANGED innerVars /\ \E s \in PushStates : PushAt(i, s)))
  BY <1>2, <1>3 DEF TryPush, PushStates
<1>4. ASSUME NEW i \in Items, push[i] \notin {"notify", "ok"}, UNCHANGED innerVars,
             closed' = closed, NEW s, PushAt(i, s)
      PROVE  \A j \in heap : push'[j] = push[j] \/ push'[j] = "ok"
  BY <1>4 DEF PushAt, PushTypeOK, StoreInv
<1>5. CASE \E i \in Items : PushCall(i) \/ PushStep(i) \/ PushDrop(i)
  <2>1. PICK i \in Items : PushCall(i) \/ PushStep(i) \/ PushDrop(i)
    BY <1>5
  <2>2. CASE TryPush(i)
    <3>1. push[i] \notin {"notify", "ok"}
      BY <2>2 DEF TryPush
    <3> QED
      BY <1>3, <1>4, <2>2, <3>1
  <2>3. CASE PushNotify(i)
    BY <2>3 DEF PushNotify, PushAt, PushTypeOK, StoreInv
  <2>4. CASE PushCall(i) \/ PushListen(i) \/ PushWake(i) \/ PushDrop(i)
    <3>1. push[i] \notin {"notify", "ok"} /\ UNCHANGED <<innerVars, closed>>
      BY <2>4 DEF PushCall, PushListen, PushWake, PushDrop
    <3>2. \E s : PushAt(i, s)
      BY <2>4 DEF PushCall, PushListen, PushWake, PushDrop
    <3> QED
      BY <1>4, <3>1, <3>2
  <2> QED
    BY <2>1, <2>2, <2>3, <2>4 DEF PushStep
<1>6. CASE \E p \in Poppers : PopCall(p) \/ PopStep(p) \/ PopDrop(p)
  <2>1. PICK p \in Poppers : PopCall(p) \/ PopStep(p) \/ PopDrop(p)
    BY <1>6
  <2>2. CASE TryPop(p)
    BY <2>2 DEF TryPop, Take
  <2>3. CASE PopCall(p) \/ PopNotify(p) \/ PopCheck(p) \/ PopListen(p) \/ PopWake(p) \/ PopDrop(p)
    BY <2>3 DEF PopCall, PopNotify, PopCheck, PopListen, PopWake, PopDrop
  <2> QED
    BY <2>1, <2>2, <2>3 DEF PopStep
<1>7. CASE Close \/ ClosePoppers \/ ClosePushers
  BY <1>7 DEF Close, ClosePoppers, ClosePushers
<1> QED
  BY <1>1, <1>5, <1>6, <1>7 DEF Next

LEMMA StoreStep ==
    ASSUME PushTypeOK, StoreInv, [Next]_vars
    PROVE  StoreInv'
<1>1. CASE \E i \in Items : Put(i)
  BY <1>1, PutStore
<1>2. CASE \E i \in heap : Take(i)
  BY <1>2, TakeStore
<1>3. CASE UNCHANGED innerVars /\ \A i \in heap : push'[i] = push[i] \/ push'[i] = "ok"
  BY <1>3 DEF innerVars, StoreInv
<1> QED
  BY <1>1, <1>2, <1>3, StoreCases

-----------------------------------------------------------------------------
(* The two sides: a future is in the line of a Notify, or woken by it, only *)
(* while its task waits there.                                              *)

PushSide ==
    /\ PushTypeOK
    /\ Sound(space_available, Items)
    /\ \A i \in Items :
         Asleep(space_available, i) \/ Woken(space_available, i) => push[i] = "wait"

PopSide ==
    /\ pop \in [Poppers -> PopStates]
    /\ Sound(item_available, Poppers)
    /\ \A p \in Poppers :
         Asleep(item_available, p) \/ Woken(item_available, p) => pop[p] = "wait"

\* A task that moves on, and whose future is in place.
LEMMA PushMoves ==
    ASSUME PushSide, NEW i \in Items, NEW s \in PushStates, PushAt(i, s),
           Sound(space_available', Items),
           \A j \in Items : Asleep(space_available', j) \/ Woken(space_available', j) =>
               \/ j # i /\ (Asleep(space_available, j) \/ Woken(space_available, j))
               \/ j = i /\ s = "wait"
    PROVE  PushSide'
<1>1. push' \in [Items -> PushStates] /\ push'[i] = s /\ \A j \in Items : j # i => push'[j] = push[j]
  BY DEF PushSide, PushTypeOK, PushAt
<1>2. ASSUME NEW j \in Items, Asleep(space_available', j) \/ Woken(space_available', j)
      PROVE  push'[j] = "wait"
  BY <1>1, <1>2 DEF PushSide
<1> QED
  BY <1>1, <1>2 DEF PushSide, PushTypeOK

LEMMA PopMoves ==
    ASSUME PopSide, NEW p \in Poppers, NEW s \in PopStates, PopAt(p, s),
           Sound(item_available', Poppers),
           \A q \in Poppers : Asleep(item_available', q) \/ Woken(item_available', q) =>
               \/ q # p /\ (Asleep(item_available, q) \/ Woken(item_available, q))
               \/ q = p /\ s = "wait"
    PROVE  PopSide'
<1>1. pop' \in [Poppers -> PopStates] /\ pop'[p] = s /\ \A q \in Poppers : q # p => pop'[q] = pop[q]
  BY DEF PopSide, PopAt
<1>2. ASSUME NEW q \in Poppers, Asleep(item_available', q) \/ Woken(item_available', q)
      PROVE  pop'[q] = "wait"
  BY <1>1, <1>2 DEF PopSide
<1> QED
  BY <1>1, <1>2 DEF PopSide

LEMMA PushStutter ==
    ASSUME PushSide, UNCHANGED <<push, space_available>>
    PROVE  PushSide'
BY DEF PushSide, PushTypeOK, Sound, Asleep, Woken

LEMMA PopStutter ==
    ASSUME PopSide, UNCHANGED <<pop, item_available>>
    PROVE  PopSide'
BY DEF PopSide, Sound, Asleep, Woken

\* The other side notifies, or close does: those who slept may be woken.
LEMMA PushWoken ==
    ASSUME PushSide, UNCHANGED push, Sound(space_available', Items),
           OnlyWakes(space_available, space_available', Items)
    PROVE  PushSide'
<1>1. ASSUME NEW j \in Items, Asleep(space_available', j) \/ Woken(space_available', j)
      PROVE  push[j] = "wait"
  BY <1>1 DEF PushSide, OnlyWakes
<1> QED
  BY <1>1 DEF PushSide, PushTypeOK, Asleep, Woken, Sound

LEMMA PopWoken ==
    ASSUME PopSide, UNCHANGED pop, Sound(item_available', Poppers),
           OnlyWakes(item_available, item_available', Poppers)
    PROVE  PopSide'
<1>1. ASSUME NEW q \in Poppers, Asleep(item_available', q) \/ Woken(item_available', q)
      PROVE  pop[q] = "wait"
  BY <1>1 DEF PopSide, OnlyWakes
<1> QED
  BY <1>1 DEF PopSide, Asleep, Woken, Sound

LEMMA SideStep ==
    ASSUME PushSide, PopSide, [Next]_vars
    PROVE  PushSide' /\ PopSide'
<1> USE DEF PushStates, PopStates
<1>1. CASE UNCHANGED vars
  BY <1>1, PushStutter, PopStutter DEF vars
<1>2. ASSUME NEW i \in Items, PushCall(i) \/ PushStep(i) \/ PushDrop(i)
      PROVE  PushSide' /\ PopSide'
  <2>0. Sound(space_available, Items) /\ Sound(item_available, Poppers)
    BY DEF PushSide, PopSide
  <2>1. ASSUME UNCHANGED space_available, push[i] # "wait", NEW s \in PushStates, PushAt(i, s)
        PROVE  PushSide'
    <3>1. ~Asleep(space_available, i) /\ ~Woken(space_available, i)
      BY <2>1 DEF PushSide
    <3> QED
      BY <2>0, <2>1, <3>1, PushMoves
  <2>2. CASE PushCall(i)
    BY <2>1, <2>2, PopStutter DEF PushCall
  <2>3. CASE TryPush(i)
    BY <2>1, <2>3, PopStutter DEF TryPush
  <2>4. CASE PushNotify(i)
    <3>1. PushSide'
      BY <2>1, <2>4 DEF PushNotify
    <3>2. PopSide'
      BY <2>0, <2>4, NotifyOneSound, PopWoken DEF PushNotify
    <3> QED
      BY <3>1, <3>2
  <2>5. CASE PushListen(i)
    <3>1. ~Asleep(space_available, i) /\ ~Woken(space_available, i)
      BY <2>5 DEF PushListen, PushSide
    <3>2. /\ Sound(space_available', Items)
          /\ \A j \in Items : Woken(space_available', j) <=> Woken(space_available, j)
          /\ \A j \in Items : Asleep(space_available', j) =>
               Asleep(space_available, j) \/ (j = i /\ ~space_available.permit)
      BY <2>0, <2>5, <3>1, ListenSound DEF PushListen
    <3>3. PushSide'
      BY <2>5, <3>1, <3>2, PushMoves DEF PushListen
    <3> QED
      BY <2>5, <3>3, PopStutter DEF PushListen
  <2>6. CASE PushWake(i)
    <3>1. /\ Sound(space_available', Items)
          /\ \A j \in Items : Woken(space_available', j) <=> Woken(space_available, j) /\ j # i
          /\ \A j \in Items : Asleep(space_available', j) <=> Asleep(space_available, j)
      BY <2>0, <2>6, WakeSound DEF PushWake
    <3>2. ~Asleep(space_available, i)
      BY <2>0, <2>6 DEF PushWake, Sound
    <3>3. PushSide'
      BY <2>6, <3>1, <3>2, PushMoves DEF PushWake
    <3> QED
      BY <2>6, <3>3, PopStutter DEF PushWake
  <2>7. CASE PushDrop(i)
    <3>1. /\ Sound(space_available', Items)
          /\ \A j \in Items : Asleep(space_available', j) => Asleep(space_available, j) /\ j # i
          /\ \A j \in Items : Woken(space_available', j) =>
               (Woken(space_available, j) \/ Asleep(space_available, j)) /\ j # i
      BY <2>0, <2>7, DiscardSound DEF PushDrop
    <3>2. PushSide'
      BY <2>7, <3>1, PushMoves DEF PushDrop
    <3> QED
      BY <2>7, <3>2, PopStutter DEF PushDrop
  <2> QED
    BY <1>2, <2>2, <2>3, <2>4, <2>5, <2>6, <2>7 DEF PushStep
<1>3. ASSUME NEW p \in Poppers, PopCall(p) \/ PopStep(p) \/ PopDrop(p)
      PROVE  PushSide' /\ PopSide'
  <2>0. Sound(space_available, Items) /\ Sound(item_available, Poppers)
    BY DEF PushSide, PopSide
  <2>1. ASSUME UNCHANGED item_available, pop[p] # "wait", NEW s \in PopStates, PopAt(p, s)
        PROVE  PopSide'
    <3>1. ~Asleep(item_available, p) /\ ~Woken(item_available, p)
      BY <2>1 DEF PopSide
    <3> QED
      BY <2>0, <2>1, <3>1, PopMoves
  <2>2. CASE PopCall(p) \/ TryPop(p) \/ PopCheck(p)
    <3>1. /\ UNCHANGED item_available /\ pop[p] # "wait" /\ UNCHANGED <<push, space_available>>
          /\ \E s \in PopStates : PopAt(p, s)
      BY <2>2 DEF PopCall, TryPop, PopCheck
    <3> QED
      BY <2>1, <3>1, PushStutter
  <2>3. CASE PopNotify(p)
    <3>1. PopSide'
      BY <2>1, <2>3 DEF PopNotify
    <3>2. PushSide'
      BY <2>0, <2>3, NotifyOneSound, PushWoken DEF PopNotify
    <3> QED
      BY <3>1, <3>2
  <2>4. CASE PopListen(p)
    <3>1. ~Asleep(item_available, p) /\ ~Woken(item_available, p)
      BY <2>4 DEF PopListen, PopSide
    <3>2. /\ Sound(item_available', Poppers)
          /\ \A q \in Poppers : Woken(item_available', q) <=> Woken(item_available, q)
          /\ \A q \in Poppers : Asleep(item_available', q) =>
               Asleep(item_available, q) \/ (q = p /\ ~item_available.permit)
      BY <2>0, <2>4, <3>1, ListenSound DEF PopListen
    <3>3. PopSide'
      BY <2>4, <3>1, <3>2, PopMoves DEF PopListen
    <3> QED
      BY <2>4, <3>3, PushStutter DEF PopListen
  <2>5. CASE PopWake(p)
    <3>1. /\ Sound(item_available', Poppers)
          /\ \A q \in Poppers : Woken(item_available', q) <=> Woken(item_available, q) /\ q # p
          /\ \A q \in Poppers : Asleep(item_available', q) <=> Asleep(item_available, q)
      BY <2>0, <2>5, WakeSound DEF PopWake
    <3>2. ~Asleep(item_available, p)
      BY <2>0, <2>5 DEF PopWake, Sound
    <3>3. PopSide'
      BY <2>5, <3>1, <3>2, PopMoves DEF PopWake
    <3> QED
      BY <2>5, <3>3, PushStutter DEF PopWake
  <2>6. CASE PopDrop(p)
    <3>1. /\ Sound(item_available', Poppers)
          /\ \A q \in Poppers : Asleep(item_available', q) => Asleep(item_available, q) /\ q # p
          /\ \A q \in Poppers : Woken(item_available', q) =>
               (Woken(item_available, q) \/ Asleep(item_available, q)) /\ q # p
      BY <2>0, <2>6, DiscardSound DEF PopDrop
    <3>2. PopSide'
      BY <2>6, <3>1, PopMoves DEF PopDrop
    <3> QED
      BY <2>6, <3>2, PushStutter DEF PopDrop
  <2> QED
    BY <1>3, <2>2, <2>3, <2>4, <2>5, <2>6 DEF PopStep
<1>4. CASE Close
  BY <1>4, PushStutter, PopStutter DEF Close
<1>5. CASE ClosePoppers
  <2>1. PopSide'
    BY <1>5, NotifyWaitersSound, PopWoken DEF ClosePoppers, PopSide
  <2> QED
    BY <1>5, <2>1, PushStutter DEF ClosePoppers
<1>6. CASE ClosePushers
  <2>1. PushSide'
    BY <1>6, NotifyWaitersSound, PushWoken DEF ClosePushers, PushSide
  <2> QED
    BY <1>6, <2>1, PopStutter DEF ClosePushers
<1> QED
  BY <1>1, <1>2, <1>3, <1>4, <1>5, <1>6 DEF Next

-----------------------------------------------------------------------------
(* The end of the queue                                                    *)

\* The queue stays closed, only close wakes all pushers, and None is final.
EndInv ==
    /\ closed \in BOOLEAN
    /\ closer \in {"idle", "poppers", "pushers", "returned"}
    /\ got \in [Poppers -> Items \cup {None}]
    /\ closer # "idle" => closed
    /\ space_available.all # {} => closed
    /\ NoneIsFinal

LEMMA EndStep ==
    ASSUME StoreInv, PushSide, PopSide, EndInv, [Next]_vars
    PROVE  EndInv'
<1> USE DEF EndInv
<1>0. Sound(space_available, Items) /\ Sound(item_available, Poppers) /\ PushTypeOK
  BY DEF PushSide, PopSide
<1>1. (closed => closed') /\ (closed /\ heap = {} => heap' = {}) /\ closed' \in BOOLEAN
  <2>1. CASE \E i \in Items : Put(i) /\ UNCHANGED closed
    BY <2>1 DEF Put
  <2>2. CASE \E i \in heap : Take(i) /\ UNCHANGED closed
    BY <2>2 DEF Take
  <2>3. CASE UNCHANGED innerVars /\ closed' \in {closed, TRUE}
    BY <2>3 DEF innerVars
  <2> QED
    BY <1>0, <2>1, <2>2, <2>3, StoreCases
<1>2. ASSUME NEW p \in Poppers, pop'[p] = "none"
      PROVE  pop[p] = "none" \/ (closed /\ heap = {})
  <2>1. ASSUME NEW q \in Poppers, NEW s, PopAt(q, s), s # "none"
        PROVE  pop[p] = "none"
    BY <1>2, <2>1 DEF PopSide, PopAt
  <2>2. CASE \E q \in Poppers : PopCall(q) \/ PopStep(q) \/ PopDrop(q)
    <3>1. PICK q \in Poppers : PopCall(q) \/ PopStep(q) \/ PopDrop(q)
      BY <2>2
    <3>2. CASE PopCheck(q)
      BY <1>2, <3>2 DEF PopCheck, PopAt, PopSide
    <3>3. CASE TryPop(q)
      BY <2>1, <3>3 DEF TryPop
    <3>4. CASE PopCall(q) \/ PopNotify(q) \/ PopListen(q) \/ PopWake(q) \/ PopDrop(q)
      BY <2>1, <3>4 DEF PopCall, PopNotify, PopListen, PopWake, PopDrop
    <3> QED
      BY <3>1, <3>2, <3>3, <3>4 DEF PopStep
  <2>3. CASE UNCHANGED pop
    BY <1>2, <2>3
  <2> QED
    BY <2>2, <2>3
    DEF Next, vars, PushCall, PushStep, PushDrop, TryPush, PushNotify, PushListen, PushWake,
        Close, ClosePoppers, ClosePushers
<1>3. NoneIsFinal'
  BY <1>1, <1>2 DEF NoneIsFinal
<1>4. /\ closer' \in {"idle", "poppers", "pushers", "returned"}
      /\ closer' # "idle" => closed'
  BY <1>1
  DEF Next, vars, PushCall, PushStep, PushDrop, TryPush, PushNotify, PushListen, PushWake,
      PopCall, PopStep, PopDrop, TryPop, PopNotify, PopCheck, PopListen, PopWake,
      Close, ClosePoppers, ClosePushers
<1>5. got' \in [Poppers -> Items \cup {None}]
  <2>1. ASSUME NEW p \in Poppers, NEW x \in Items \cup {None}, got' = [got EXCEPT ![p] = x]
        PROVE  got' \in [Poppers -> Items \cup {None}]
    BY <2>1
  <2>2. CASE \E p \in Poppers : PopCall(p)
    BY <2>1, <2>2 DEF PopCall
  <2>3. CASE \E p \in Poppers : TryPop(p)
    BY <2>1, <2>3 DEF TryPop, StoreInv
  <2>4. CASE UNCHANGED got
    BY <2>4
  <2> QED
    BY <2>2, <2>3, <2>4
    DEF Next, vars, PushCall, PushStep, PushDrop, TryPush, PushNotify, PushListen, PushWake,
        PopStep, PopDrop, PopNotify, PopCheck, PopListen, PopWake,
        Close, ClosePoppers, ClosePushers
<1>6. space_available'.all # {} => closed'
  <2>1. CASE \E i \in Items : PushListen(i)
    <3>1. PICK i \in Items : PushListen(i)
      BY <2>1
    <3>2. ~Asleep(space_available, i) /\ ~Woken(space_available, i)
      BY <3>1 DEF PushListen, PushSide
    <3> QED
      BY <1>0, <1>1, <3>1, <3>2, ListenSound DEF PushListen
  <2>2. CASE \E i \in Items : PushWake(i)
    BY <1>0, <1>1, <2>2, WakeSound DEF PushWake
  <2>3. CASE \E i \in Items : PushDrop(i)
    BY <1>0, <1>1, <2>3, DiscardSound DEF PushDrop
  <2>4. CASE \E p \in Poppers : PopNotify(p)
    BY <1>0, <1>1, <2>4, NotifyOneSound DEF PopNotify
  <2>5. CASE ClosePushers
    BY <2>5 DEF ClosePushers
  <2>6. CASE UNCHANGED space_available
    BY <1>1, <2>6
  <2> QED
    BY <2>1, <2>2, <2>3, <2>4, <2>5, <2>6
    DEF Next, vars, PushCall, PushStep, TryPush, PushNotify,
        PopCall, PopStep, PopDrop, TryPop, PopCheck, PopListen, PopWake,
        Close, ClosePoppers
<1> QED
  BY <1>1, <1>3, <1>4, <1>5, <1>6

-----------------------------------------------------------------------------
(* Nobody is forgotten                                                     *)

\* While there are items, somebody is on the way to them or will be sent.
Tended ==
    heap # {} =>
        \/ \E i \in Items : push[i] = "notify"
        \/ \E p \in Poppers : pop[p] \in {"idle", "try", "notify"}
        \/ Delivered(item_available, Poppers)

LEMMA TendedStep ==
    ASSUME StoreInv, PushSide, PopSide, Tended, [Next]_vars
    PROVE  Tended'
<1>0. /\ Sound(item_available, Poppers) /\ PushTypeOK /\ push \in [Items -> PushStates]
      /\ pop \in [Poppers -> PopStates]
  BY DEF PushSide, PopSide, PushTypeOK
<1>1. CASE \E i \in Items : Put(i)
  <2>1. PICK i \in Items : Put(i)
    BY <1>1
  <2>2. push'[i] = "notify"
    BY <1>0, <2>1 DEF Put, PushAt
  <2> QED
    BY <2>2 DEF Tended
<1>2. ASSUME NEW p \in Poppers, NEW s \in {"idle", "try", "notify"}, PopAt(p, s)
      PROVE  Tended'
  <2>1. pop'[p] = s
    BY <1>0, <1>2 DEF PopAt
  <2> QED
    BY <2>1 DEF Tended
<1>3. CASE \E p \in Poppers : PopCall(p) \/ PopNotify(p) \/ PopWake(p) \/ PopDrop(p)
  BY <1>2, <1>3 DEF PopCall, PopNotify, PopWake, PopDrop
<1>4. CASE \E p \in Poppers : TryPop(p)
  <2>1. PICK p \in Poppers : TryPop(p)
    BY <1>4
  <2>2. CASE PopAt(p, "notify")
    BY <1>2, <2>2
  <2>3. CASE heap = {} /\ UNCHANGED innerVars
    BY <2>3 DEF innerVars, Tended
  <2> QED
    BY <2>1, <2>2, <2>3 DEF TryPop
<1>5. CASE \E i \in Items : PushNotify(i)
  BY <1>0, <1>5, NotifyOneSound DEF PushNotify, Tended
<1>6. ASSUME UNCHANGED <<heap, push>>,
             Delivered(item_available, Poppers) => Delivered(item_available', Poppers),
             NEW p \in Poppers, pop[p] \notin {"idle", "try", "notify"}, NEW s, PopAt(p, s)
      PROVE  Tended'
  <2>1. \A q \in Poppers : pop[q] \in {"idle", "try", "notify"} => pop'[q] = pop[q]
    BY <1>0, <1>6 DEF PopAt
  <2>2. Delivered(item_available, Poppers) => Delivered(item_available, Poppers)'
    BY <1>6 DEF Delivered, Woken
  <2> QED
    BY <1>6, <2>1, <2>2 DEF Tended
<1>7. CASE \E p \in Poppers : PopCheck(p)
  <2>1. PICK p \in Poppers : PopCheck(p)
    BY <1>7
  <2>2. UNCHANGED <<heap, push, item_available>> /\ pop[p] = "check"
    BY <2>1 DEF PopCheck, innerVars
  <2>3. \E s : PopAt(p, s)
    BY <2>1 DEF PopCheck
  <2> QED
    BY <1>6, <2>2, <2>3
<1>8. CASE \E p \in Poppers : PopListen(p)
  <2>1. PICK p \in Poppers : PopListen(p)
    BY <1>8
  <2>2. UNCHANGED <<heap, push>> /\ pop[p] = "listen"
    BY <2>1 DEF PopListen, innerVars
  <2>3. ~Asleep(item_available, p) /\ ~Woken(item_available, p)
    BY <2>2 DEF PopSide
  <2>4. CASE item_available.permit
    BY <1>2, <2>1, <2>4 DEF PopListen
  <2>5. CASE ~item_available.permit
    <3>1. Delivered(item_available, Poppers) => Delivered(item_available', Poppers)
      BY <1>0, <2>1, <2>3, <2>5, ListenSound DEF PopListen, Delivered
    <3> QED
      BY <1>6, <2>1, <2>2, <2>5, <3>1 DEF PopListen
  <2> QED
    BY <2>4, <2>5
<1>9. ASSUME UNCHANGED <<heap, pop, item_available>>, NEW i \in Items, push[i] # "notify",
             NEW s, PushAt(i, s)
      PROVE  Tended'
  <2>1. \A j \in Items : push[j] = "notify" => push'[j] = "notify"
    BY <1>0, <1>9 DEF PushAt
  <2> QED
    BY <1>9, <2>1 DEF Tended, Delivered, Woken
<1>10. CASE \E i \in Items : PushCall(i) \/ PushListen(i) \/ PushWake(i) \/ PushDrop(i)
  <2>1. PICK i \in Items : PushCall(i) \/ PushListen(i) \/ PushWake(i) \/ PushDrop(i)
    BY <1>10
  <2>2. UNCHANGED <<heap, pop, item_available>> /\ push[i] # "notify"
    BY <2>1 DEF PushCall, PushListen, PushWake, PushDrop, innerVars
  <2>3. \E s : PushAt(i, s)
    BY <2>1 DEF PushCall, PushListen, PushWake, PushDrop
  <2> QED
    BY <1>9, <2>2, <2>3
<1>11. CASE \E i \in Items : TryPush(i)
  <2>1. PICK i \in Items : TryPush(i)
    BY <1>11
  <2>2. CASE Put(i)
    BY <1>1, <2>2
  <2>3. CASE UNCHANGED innerVars /\ \E s : PushAt(i, s)
    BY <1>9, <2>1, <2>3 DEF TryPush, innerVars
  <2> QED
    BY <2>1, <2>2, <2>3 DEF TryPush, Put
<1>12. CASE ClosePoppers
  <2>1. Delivered(item_available, Poppers) => Delivered(item_available', Poppers)
    BY <1>0, <1>12, NotifyWaitersSound DEF ClosePoppers, OnlyWakes, Delivered
  <2>2. UNCHANGED <<heap, push, pop>>
    BY <1>12 DEF ClosePoppers, innerVars
  <2> QED
    BY <2>1, <2>2 DEF Tended, Delivered, Woken
<1>13. CASE UNCHANGED <<heap, push, pop, item_available>>
  BY <1>13 DEF Tended, Delivered, Woken
<1> QED
  BY <1>3, <1>4, <1>5, <1>7, <1>8, <1>10, <1>11, <1>12, <1>13
  DEF Next, PushStep, PopStep, Close, ClosePushers, vars, innerVars

\* While a push sleeps on an open queue, somebody will come to its Notify.
Reached ==
    Capacity > 0 /\ ~closed /\ (\E i \in Items : push[i] = "full" \/ Asleep(space_available, i)) =>
        \/ heap # {}
        \/ \E p \in Poppers : pop[p] = "notify"
        \/ \E i \in Items : push[i] = "try"
        \/ Delivered(space_available, Items)

LEMMA ReachedStep ==
    ASSUME StoreInv, PushSide, PopSide, EndInv, Reached, [Next]_vars
    PROVE  Reached'
<1> SUFFICES ASSUME Capacity > 0, ~closed', heap' = {},
                    \A p \in Poppers : pop'[p] # "notify",
                    \A i \in Items : push'[i] # "try",
                    NEW w \in Items, push'[w] = "full" \/ Asleep(space_available', w)
             PROVE  Delivered(space_available', Items)
  BY DEF Reached, Delivered, Asleep, Woken
<1>0. /\ Sound(space_available, Items) /\ PushTypeOK /\ push \in [Items -> PushStates]
      /\ pop \in [Poppers -> PopStates] /\ Capacity \in Nat
  BY QueueAssumption DEF PushSide, PopSide, PushTypeOK
<1>1. ~closed /\ space_available.all = {}
  <2>1. closed => closed'
    <3>1. closed \in BOOLEAN
      BY DEF EndInv
    <3> QED
      BY <1>0, <3>1, StoreCases
  <2> QED
    BY <2>1 DEF EndInv
\* A push that sleeps slept, or found the queue full; none of them starts again.
<1>2. ASSUME NEW i \in Items, push[i] \in {"full", "wait"}, NEW s, PushAt(i, s), s # "try",
             UNCHANGED <<heap, pop>>, push[w] = "full" \/ Asleep(space_available, w),
             Delivered(space_available, Items) => Delivered(space_available', Items)
      PROVE  Delivered(space_available', Items)
  <2>1. \A j \in Items : push[j] = "try" => push'[j] = "try"
    BY <1>0, <1>2 DEF PushAt
  <2> QED
    BY <1>1, <1>2, <2>1 DEF Reached
<1>3. ASSUME NEW i \in Items, PushListen(i)
      PROVE  Delivered(space_available', Items)
  <2>1. push[i] = "full" /\ UNCHANGED <<heap, pop>>
    BY <1>3 DEF PushListen, innerVars
  <2>2. ~Asleep(space_available, i) /\ ~Woken(space_available, i)
    BY <2>1 DEF PushSide
  <2>3. ~space_available.permit
    BY <1>0, <1>3 DEF PushListen, PushAt
  <2>4. Delivered(space_available, Items) => Delivered(space_available', Items)
    BY <1>0, <1>3, <2>2, <2>3, ListenSound DEF PushListen, Delivered
  <2>5. \E j \in Items : push[j] = "full"
    BY <2>1
  <2>6. \A j \in Items : push[j] = "try" => push'[j] = "try"
    BY <1>0, <1>3, <2>1 DEF PushListen, PushAt
  <2> QED
    BY <1>1, <2>1, <2>4, <2>5, <2>6 DEF Reached
<1>4. ASSUME NEW i \in Items, PushCall(i) \/ PushWake(i)
      PROVE  FALSE
  <2>1. push'[i] = "try"
    BY <1>0, <1>4 DEF PushCall, PushWake, PushAt
  <2> QED
    BY <2>1
<1>5. ASSUME NEW i \in Items, PushDrop(i)
      PROVE  Delivered(space_available', Items)
  <2>1. push[i] = "wait" /\ push'[i] = "dropped" /\ UNCHANGED <<heap, pop>>
    BY <1>0, <1>5 DEF PushDrop, PushAt, innerVars
  <2>2. /\ \A j \in Items : Woken(space_available, j) /\ j # i => Woken(space_available', j)
        /\ \A j \in Items : Asleep(space_available', j) => Asleep(space_available, j) /\ j # i
        /\ i \in space_available.one => Delivered(space_available', Items)
        /\ space_available.permit => space_available'.permit
    BY <1>0, <1>5, DiscardSound DEF PushDrop
  <2>3. CASE i \in space_available.one
    BY <2>2, <2>3
  <2>4. CASE i \notin space_available.one
    <3>1. ~Woken(space_available, i)
      BY <1>1, <2>4 DEF Woken
    <3>2. Delivered(space_available, Items) => Delivered(space_available', Items)
      BY <2>2, <3>1 DEF Delivered
    <3>3. push[w] = "full" \/ Asleep(space_available, w)
      BY <1>0, <1>5, <2>1, <2>2 DEF PushDrop, PushAt
    <3> QED
      BY <1>2, <1>5, <2>1, <3>2, <3>3 DEF PushDrop
  <2> QED
    BY <2>3, <2>4
\* A push that finds the queue full has seen an item.
<1>6. ASSUME NEW i \in Items, TryPush(i)
      PROVE  Delivered(space_available', Items)
  <2>1. CASE ~Full
    BY <1>1, <1>6, <2>1 DEF TryPush
  <2>2. CASE Full
    <3>1. heap # {}
      BY <1>0, <2>2, FS_EmptySet DEF Full
    <3> QED
      BY <1>1, <1>6, <2>2, <3>1 DEF TryPush, innerVars
  <2> QED
    BY <2>1, <2>2
<1>7. ASSUME NEW i \in Items, PushNotify(i)
      PROVE  Delivered(space_available', Items)
  <2>1. /\ UNCHANGED <<heap, pop, space_available>> /\ push[i] = "notify" /\ push'[i] = "ok"
        /\ \A j \in Items : j # i => push'[j] = push[j]
    BY <1>0, <1>7 DEF PushNotify, PushAt, innerVars
  <2>2. push[w] = "full" \/ Asleep(space_available, w)
    BY <2>1
  <2>3. Delivered(space_available, Items)
    BY <1>1, <2>1, <2>2 DEF Reached
  <2> QED
    BY <2>1, <2>3
<1>8. ASSUME UNCHANGED <<heap, push, space_available>>,
             \A p \in Poppers : pop[p] = "notify" => pop'[p] = "notify"
      PROVE  Delivered(space_available', Items)
  <2>1. Delivered(space_available, Items)
    BY <1>1, <1>8 DEF Reached
  <2> QED
    BY <1>8, <2>1
<1>9. ASSUME NEW p \in Poppers, TryPop(p)
      PROVE  Delivered(space_available', Items)
  <2>1. CASE PopAt(p, "notify")
    BY <1>0, <2>1 DEF PopAt
  <2>2. CASE UNCHANGED innerVars /\ pop[p] = "try" /\ \E s : PopAt(p, s)
    <3>1. \A q \in Poppers : pop[q] = "notify" => pop'[q] = "notify"
      BY <1>0, <2>2 DEF PopAt
    <3> QED
      BY <1>8, <1>9, <2>2, <3>1 DEF TryPop, innerVars
  <2> QED
    BY <1>9, <2>1, <2>2 DEF TryPop
<1>10. ASSUME NEW p \in Poppers, PopNotify(p)
       PROVE  Delivered(space_available', Items)
  BY <1>0, <1>10, NotifyOneSound DEF PopNotify
<1>11. ASSUME NEW p \in Poppers,
              PopCall(p) \/ PopCheck(p) \/ PopListen(p) \/ PopWake(p) \/ PopDrop(p)
       PROVE  Delivered(space_available', Items)
  <2>1. UNCHANGED <<heap, push, space_available>> /\ pop[p] # "notify"
    BY <1>11 DEF PopCall, PopCheck, PopListen, PopWake, PopDrop, innerVars
  <2>2. \E s : PopAt(p, s)
    BY <1>11 DEF PopCall, PopCheck, PopListen, PopWake, PopDrop
  <2>3. \A q \in Poppers : pop[q] = "notify" => pop'[q] = "notify"
    BY <1>0, <2>1, <2>2 DEF PopAt
  <2> QED
    BY <1>8, <2>1, <2>3
<1>12. CASE Close \/ ClosePushers
  <2>1. closed'
    BY <1>12 DEF Close, ClosePushers, EndInv
  <2> QED
    BY <2>1
<1>13. CASE ClosePoppers \/ UNCHANGED vars
  BY <1>8, <1>13 DEF ClosePoppers, vars, innerVars
<1> QED
  BY <1>3, <1>4, <1>5, <1>6, <1>7, <1>9, <1>10, <1>11, <1>12, <1>13 DEF Next, PushStep, PopStep

-----------------------------------------------------------------------------
(* The theorems                                                            *)

QueueInv == StoreInv /\ PushSide /\ PopSide /\ EndInv /\ Tended /\ Reached

LEMMA QueueInvHolds == Spec => []QueueInv
<1>1. Init => QueueInv
  <2> SUFFICES ASSUME Init PROVE QueueInv
    OBVIOUS
  <2>1. /\ Sound(Quiet, Items) /\ Sound(Quiet, Poppers)
        /\ \A w : ~Asleep(Quiet, w) /\ ~Woken(Quiet, w)
    <3>1. Len(Quiet.line) = 0 /\ Quiet.one = {} /\ Quiet.all = {}
      BY EmptySeq DEF Quiet
    <3> QED
      BY <3>1, QuietSound DEF Asleep, InLine, Woken
  <2>2. StoreInv
    BY QueueAssumption, EmptySeq, FS_EmptySet DEF Init, StoreInv
  <2>3. PushSide /\ PopSide
    BY <2>1 DEF Init, PushSide, PopSide, PushTypeOK, PushStates, PopStates
  <2>4. EndInv
    BY DEF Init, EndInv, NoneIsFinal, Quiet
  <2>5. Tended /\ Reached
    BY <2>1 DEF Init, Tended, Reached
  <2> QED
    BY <2>2, <2>3, <2>4, <2>5 DEF QueueInv
<1>2. QueueInv /\ [Next]_vars => QueueInv'
  <2> SUFFICES ASSUME QueueInv, [Next]_vars PROVE QueueInv'
    OBVIOUS
  <2>1. PushTypeOK
    BY DEF QueueInv, PushSide
  <2> QED
    BY <2>1, StoreStep, SideStep, EndStep, TendedStep, ReachedStep DEF QueueInv
<1> QED
  BY <1>1, <1>2, PTL DEF Spec

\* Every variable of the queue stays in its domain, whatever the callers do.
THEOREM QueueTypeCorrect == Spec => []TypeOK
<1>1. QueueInv => TypeOK
  BY DEF QueueInv, StoreInv, PushSide, PopSide, EndInv, PushTypeOK, PushStates, PopStates,
         Sound, TypeOK
<1> QED
  BY <1>1, QueueInvHolds, PTL

\* The None of a pop is final: the queue is closed and empty, now and ever after.
THEOREM NoneFinal == Spec => []NoneIsFinal
<1>1. QueueInv => NoneIsFinal
  BY DEF QueueInv, EndInv
<1> QED
  BY <1>1, QueueInvHolds, PTL

\* The poppers never all sleep next to an item that no push is about to announce.
THEOREM ItemsAreTended == Spec => []SomebodyTendsItems
<1>1. QueueInv => SomebodyTendsItems
  <2> SUFFICES ASSUME QueueInv, NEW p \in Poppers, heap # {},
                      \A q \in Poppers : Asleep(item_available, q)
               PROVE  \E i \in Items : push[i] = "notify"
    BY DEF SomebodyTendsItems
  <2>1. Sound(item_available, Poppers) /\ \A q \in Poppers : pop[q] = "wait"
    BY DEF QueueInv, PopSide
  <2>2. ~item_available.permit
    <3>1. item_available.line # <<>>
      BY EmptySeq DEF Asleep, InLine
    <3> QED
      BY <2>1, <3>1 DEF Sound
  <2>3. \A q \in Poppers : ~Woken(item_available, q)
    BY <2>1 DEF Sound
  <2> QED
    BY <2>1, <2>2, <2>3 DEF QueueInv, Tended, Delivered
<1> QED
  BY <1>1, QueueInvHolds, PTL

\* A push that sleeps on an open queue has somebody left who can wake it.
THEOREM SleepersAreReachable == Spec => []SleepingPushReachable
<1>1. QueueInv => SleepingPushReachable
  <2> SUFFICES ASSUME QueueInv, Capacity > 0, ~closed,
                      NEW i \in Items, Asleep(space_available, i)
               PROVE  \/ heap # {}
                      \/ \E p \in Poppers : pop[p] = "notify"
                      \/ \E j \in Items : push[j] = "try" \/ Woken(space_available, j)
    BY DEF SleepingPushReachable
  <2>1. Sound(space_available, Items)
    BY DEF QueueInv, PushSide
  <2>2. ~space_available.permit
    <3>1. space_available.line # <<>>
      BY EmptySeq DEF Asleep, InLine
    <3> QED
      BY <2>1, <3>1 DEF Sound
  <2> QED
    BY <2>2 DEF QueueInv, Reached, Delivered
<1> QED
  BY <1>1, QueueInvHolds, PTL

-----------------------------------------------------------------------------
(* The queue implements WorkQueue as long as its counter does not wrap      *)

Pushed == {i \in Items : push[i] \in {"notify", "ok"}}

\* The items of the heap were numbered in the order of arrival.
Numbered ==
    /\ IsFiniteSet(Items) /\ Cardinality(Items) < SeqMod
    /\ sequence_counter = Cardinality(Pushed)
    /\ \A j, k \in 1 .. Len(arrivals) :
         j < k => sequence[arrivals[j]] < sequence[arrivals[k]]
    /\ \A k \in 1 .. Len(arrivals) : sequence[arrivals[k]] < sequence_counter

\* Only an insertion adds to the items that were pushed.
LEMMA PushedCases ==
    ASSUME PushTypeOK, StoreInv, [Next]_vars
    PROVE  \/ \E i \in Items : Put(i)
           \/ (\E i \in heap : Take(i)) /\ Pushed' = Pushed
           \/ UNCHANGED innerVars /\ Pushed' = Pushed
<1>1. ASSUME UNCHANGED push PROVE Pushed' = Pushed
  BY <1>1 DEF Pushed
<1>2. ASSUME NEW i \in Items, NEW s, PushAt(i, s), push[i] \notin {"notify", "ok"},
             s \notin {"notify", "ok"}
      PROVE  Pushed' = Pushed
  BY <1>2 DEF PushAt, Pushed, PushTypeOK
<1>3. ASSUME NEW i \in Items, TryPush(i), ~Put(i)
      PROVE  UNCHANGED innerVars /\ Pushed' = Pushed
  <2>1. UNCHANGED innerVars /\ \E s \in {"closed", "full", "rejected"} : PushAt(i, s)
    BY <1>3 DEF TryPush, Put
  <2> QED
    BY <1>2, <1>3, <2>1 DEF TryPush
<1>4. ASSUME NEW i \in Items, PushNotify(i)
      PROVE  UNCHANGED innerVars /\ Pushed' = Pushed
  BY <1>4 DEF PushNotify, PushAt, PushTypeOK, Pushed
<1>5. ASSUME NEW i \in Items, PushCall(i) \/ PushListen(i) \/ PushWake(i) \/ PushDrop(i)
      PROVE  UNCHANGED innerVars /\ Pushed' = Pushed
  <2>1. /\ UNCHANGED innerVars /\ push[i] \notin {"notify", "ok"}
        /\ \E s \in {"try", "wait", "dropped"} : PushAt(i, s)
    BY <1>5 DEF PushCall, PushListen, PushWake, PushDrop
  <2> QED
    BY <1>2, <2>1
<1>6. ASSUME NEW p \in Poppers, TryPop(p)
      PROVE  UNCHANGED push /\ (UNCHANGED innerVars \/ \E i \in heap : Take(i))
  BY <1>6 DEF TryPop, Take
<1>7. ASSUME NEW p \in Poppers,
             \/ PopCall(p) \/ PopNotify(p) \/ PopCheck(p)
             \/ PopListen(p) \/ PopWake(p) \/ PopDrop(p)
      PROVE  UNCHANGED innerVars /\ UNCHANGED push
  BY <1>7 DEF PopCall, PopNotify, PopCheck, PopListen, PopWake, PopDrop
<1>8. CASE Close \/ ClosePoppers \/ ClosePushers \/ UNCHANGED vars
  BY <1>1, <1>8 DEF Close, ClosePoppers, ClosePushers, vars
<1> QED
  BY <1>1, <1>3, <1>4, <1>5, <1>6, <1>7, <1>8 DEF Next, PushStep, PopStep

LEMMA NumberedStep ==
    ASSUME PushTypeOK, StoreInv, Numbered, [Next]_vars
    PROVE  Numbered'
<1>0. /\ SeqMod \in Nat \ {0} /\ Len(arrivals) \in Nat
      /\ sequence \in [Items -> 0 .. SeqMod - 1]
      /\ \A k \in 1 .. Len(arrivals) : arrivals[k] \in heap /\ arrivals[k] \in Items
      /\ IsFiniteSet(Items) /\ IsFiniteSet(Pushed) /\ Cardinality(Pushed) \in Nat
  <2>1. IsFiniteSet(Pushed) /\ Cardinality(Pushed) \in Nat
    BY FS_Subset, FS_CardinalityType DEF Pushed, Numbered
  <2> QED
    BY <2>1, QueueAssumption, LenProperties DEF StoreInv, Numbered
<1>1. ASSUME NEW i \in Items, Put(i) PROVE Numbered'
  <2>1. i \notin Pushed /\ Pushed' = Pushed \cup {i}
    BY <1>1 DEF Put, PushAt, PushTypeOK, Pushed
  <2>2. Cardinality(Pushed') = Cardinality(Pushed) + 1
    BY <1>0, <2>1, FS_AddElement
  <2>3. Cardinality(Pushed') <= Cardinality(Items)
    BY <1>0, FS_Subset DEF Pushed
  <2>4. Cardinality(Items) \in Nat
    BY <1>0, FS_CardinalityType
  <2>5. sequence_counter' = sequence_counter + 1
    <3>1. sequence_counter + 1 < SeqMod /\ sequence_counter \in Nat
      BY <1>0, <2>2, <2>3, <2>4 DEF Numbered
    <3>2. \A n \in Nat : n < SeqMod => n % SeqMod = n
      BY <1>0
    <3> QED
      BY <1>1, <3>1, <3>2 DEF Put
  <2>6. /\ Len(arrivals') = Len(arrivals) + 1
        /\ \A k \in 1 .. Len(arrivals) : arrivals'[k] = arrivals[k]
        /\ arrivals'[Len(arrivals) + 1] = i
    BY <1>1, AppendProperties DEF StoreInv, Put
  <2>7. i \notin heap /\ sequence' = [sequence EXCEPT ![i] = sequence_counter]
    BY <1>1 DEF Put, StoreInv
  <2>8. \A k \in 1 .. Len(arrivals') :
          \/ k \in 1 .. Len(arrivals) /\ sequence'[arrivals'[k]] = sequence[arrivals[k]]
          \/ k = Len(arrivals) + 1 /\ sequence'[arrivals'[k]] = sequence_counter
    BY <1>0, <2>6, <2>7
  <2>9. /\ sequence_counter \in Nat
        /\ \A k \in 1 .. Len(arrivals) : sequence[arrivals[k]] \in Nat
                                         /\ sequence[arrivals[k]] < sequence_counter
    BY <1>0 DEF Numbered
  <2>10. \A k \in 1 .. Len(arrivals') : sequence'[arrivals'[k]] < sequence_counter'
    BY <2>5, <2>8, <2>9
  <2>11. \A j, k \in 1 .. Len(arrivals') :
           j < k => sequence'[arrivals'[j]] < sequence'[arrivals'[k]]
    <3> SUFFICES ASSUME NEW j \in 1 .. Len(arrivals'), NEW k \in 1 .. Len(arrivals'), j < k
                 PROVE  sequence'[arrivals'[j]] < sequence'[arrivals'[k]]
      OBVIOUS
    <3>1. j \in 1 .. Len(arrivals) /\ sequence'[arrivals'[j]] = sequence[arrivals[j]]
      BY <1>0, <2>6, <2>8
    <3>2. CASE k \in 1 .. Len(arrivals) /\ sequence'[arrivals'[k]] = sequence[arrivals[k]]
      BY <3>1, <3>2 DEF Numbered
    <3>3. CASE sequence'[arrivals'[k]] = sequence_counter
      BY <2>9, <3>1, <3>3
    <3> QED
      BY <2>8, <3>2, <3>3
  <2> QED
    BY <2>2, <2>5, <2>10, <2>11 DEF Numbered
<1>2. ASSUME NEW i \in heap, Take(i), Pushed' = Pushed PROVE Numbered'
  <2> DEFINE p == Place(i)
  <2>1. TakeOut(i) /\ UNCHANGED <<sequence, sequence_counter>>
    BY <1>2 DEF Take, TakeOut
  <2>2. p \in 1 .. Len(arrivals)
    BY PlaceInLine
  <2>3. \A k \in 1 .. Len(arrivals') :
          \/ k < p /\ k \in 1 .. Len(arrivals) /\ arrivals'[k] = arrivals[k]
          \/ ~(k < p) /\ k + 1 \in 1 .. Len(arrivals) /\ arrivals'[k] = arrivals[k + 1]
    BY <2>1, TakeLine
  <2> HIDE DEF p
  <2>4. \A k \in 1 .. Len(arrivals') : sequence[arrivals'[k]] < sequence_counter
    BY <2>3 DEF Numbered
  <2>5. \A j, k \in 1 .. Len(arrivals') :
          j < k => sequence[arrivals'[j]] < sequence[arrivals'[k]]
    <3> SUFFICES ASSUME NEW j \in 1 .. Len(arrivals'), NEW k \in 1 .. Len(arrivals'), j < k
                 PROVE  sequence[arrivals'[j]] < sequence[arrivals'[k]]
      OBVIOUS
    <3>1. CASE k < p
      <4>1. j < p
        BY <2>2, <3>1
      <4>2. /\ j \in 1 .. Len(arrivals) /\ arrivals'[j] = arrivals[j]
            /\ k \in 1 .. Len(arrivals) /\ arrivals'[k] = arrivals[k]
        BY <2>3, <3>1, <4>1
      <4> QED
        BY <4>2 DEF Numbered
    <3>2. CASE ~(k < p) /\ j < p
      <4>1. j < k + 1
        OBVIOUS
      <4> QED
        BY <2>3, <3>2, <4>1 DEF Numbered
    <3>3. CASE ~(k < p) /\ ~(j < p)
      <4>1. j + 1 < k + 1
        OBVIOUS
      <4> QED
        BY <2>3, <3>3, <4>1 DEF Numbered
    <3> QED
      BY <2>2, <3>1, <3>2, <3>3
  <2> QED
    BY <1>2, <2>1, <2>4, <2>5 DEF Numbered
<1>3. CASE UNCHANGED innerVars /\ Pushed' = Pushed
  BY <1>3 DEF innerVars, Numbered
<1> QED
  BY <1>1, <1>2, <1>3, PushedCases

-----------------------------------------------------------------------------

LEMMA UrgencyIsWeight ==
    ASSUME NEW i \in Items, NEW j \in Items
    PROVE  /\ Abstract!AsUrgent(i, j) <=> ~Outranks(Prio[j], Prio[i])
           /\ Weight[Prio[i]] = Weight[Prio[j]] => Prio[i] = Prio[j]
           /\ Weight[Prio[i]] \in Nat
<1>1. Prio[i] \in Priorities /\ Prio[j] \in Priorities
  BY QueueAssumption
<1>2. Abstract!Order = <<"Critical", "High", "Normal", "Low">> /\ Len(Abstract!Order) = 4
  BY DEF Abstract!Order
<1>3. /\ Abstract!Order[1] = "Critical" /\ Abstract!Order[2] = "High"
      /\ Abstract!Order[3] = "Normal" /\ Abstract!Order[4] = "Low"
  BY DEF Abstract!Order
<1>4. /\ Weight["Critical"] = 3 /\ Weight["High"] = 2
      /\ Weight["Normal"] = 1 /\ Weight["Low"] = 0
  BY DEF Weight
<1>5. Abstract!AsUrgent(i, j) <=>
        \E m \in 1 .. 4 : \E n \in m .. 4 :
          Prio[i] = Abstract!Order[m] /\ Prio[j] = Abstract!Order[n]
  BY <1>2 DEF Abstract!AsUrgent
<1>6. \A m \in 1 .. 4 : Weight[Abstract!Order[m]] = 4 - m
  BY <1>3, <1>4
<1>7. \A x \in Priorities : \E m \in 1 .. 4 : x = Abstract!Order[m]
  BY <1>3 DEF Priorities
<1>8. PICK m \in 1 .. 4 : Prio[i] = Abstract!Order[m]
  BY <1>1, <1>7
<1>9. PICK n \in 1 .. 4 : Prio[j] = Abstract!Order[n]
  BY <1>1, <1>7
<1>10. \A x, y \in 1 .. 4 : Abstract!Order[x] = Abstract!Order[y] => x = y
  BY <1>6
<1>11. Weight[Prio[i]] = 4 - m /\ Weight[Prio[j]] = 4 - n
  BY <1>6, <1>8, <1>9
<1>12. Abstract!AsUrgent(i, j) <=> m <= n
  <2>1. ASSUME m <= n PROVE Abstract!AsUrgent(i, j)
    BY <1>5, <1>8, <1>9, <2>1
  <2>2. ASSUME Abstract!AsUrgent(i, j) PROVE m <= n
    <3>1. PICK x \in 1 .. 4, y \in 1 .. 4 :
            x <= y /\ Prio[i] = Abstract!Order[x] /\ Prio[j] = Abstract!Order[y]
      BY <1>5, <2>2
    <3>2. x = m /\ y = n
      BY <1>8, <1>9, <1>10, <3>1
    <3> QED
      BY <3>1, <3>2
  <2> QED
    BY <2>1, <2>2
<1>13. Outranks(Prio[j], Prio[i]) <=> n < m
  BY <1>11 DEF Outranks
<1>14. 4 - m = 4 - n => m = n
  OBVIOUS
<1> QED
  BY <1>8, <1>9, <1>11, <1>12, <1>13, <1>14

LEMMA TakeIsTake ==
    ASSUME StoreInv, Numbered, NEW i \in heap, Take(i), UNCHANGED closed
    PROVE  Abstract!Take(Place(i))
<1> DEFINE k == Place(i)
<1>1. k \in 1 .. Len(arrivals) /\ arrivals[k] = i
  BY PlaceInLine
<1>2. /\ \A j \in 1 .. Len(arrivals) : arrivals[j] \in heap /\ arrivals[j] \in Items
      /\ i \in Items /\ Len(arrivals) \in Nat
  BY LenProperties DEF StoreInv
<1>3. \A j \in heap : ~Before(j, i)
  BY DEF Take
<1>4. arrivals' = [j \in 1 .. Len(arrivals) - 1 |->
                     IF j < k THEN arrivals[j] ELSE arrivals[j + 1]]
  BY DEF Take, TakeOut, Place, WithoutIndex
<1> HIDE DEF k
<1>5. \A j \in 1 .. Len(arrivals) : Abstract!AsUrgent(arrivals[k], arrivals[j])
  BY <1>1, <1>2, <1>3, UrgencyIsWeight DEF Before
<1>6. ASSUME NEW j \in 1 .. k - 1 PROVE ~Abstract!AsUrgent(arrivals[j], arrivals[k])
  <2>1. j \in 1 .. Len(arrivals) /\ j < k
    BY <1>1, <1>2
  <2>2. sequence[arrivals[j]] < sequence[arrivals[k]]
    BY <1>1, <2>1 DEF Numbered
  <2>3. Prio[arrivals[j]] # Prio[i] /\ ~Outranks(Prio[arrivals[j]], Prio[i])
    BY <1>1, <1>2, <1>3, <2>1, <2>2 DEF Before
  <2>4. Outranks(Prio[i], Prio[arrivals[j]])
    BY <1>2, <2>1, <2>3, UrgencyIsWeight DEF Outranks
  <2> QED
    BY <1>1, <1>2, <2>1, <2>4, UrgencyIsWeight
<1> QED
  BY <1>4, <1>5, <1>6 DEF Abstract!Take, k

LEMMA PutIsPut ==
    ASSUME StoreInv, NEW i \in Items, Put(i), UNCHANGED closed
    PROVE  Abstract!Put(i)
<1>1. Cardinality(heap) = Len(arrivals) /\ Len(arrivals) \in Nat /\ Capacity \in Nat
  BY LenProperties, QueueAssumption DEF StoreInv
<1> QED
  BY <1>1 DEF Put, Full, Abstract!Put

\* As long as fewer items are pushed than a sequence number has values, the queue is
\* the bounded buffer of WorkQueue: each step puts an item in, takes out the oldest
\* of the most urgent, closes it, or changes nothing there.
THEOREM QueueImplementsWorkQueue ==
    ASSUME IsFiniteSet(Items), Cardinality(Items) < SeqMod
    PROVE  Spec => ImplementsWorkQueue
<1>1. Init => Numbered /\ Abstract!Init
  <2> SUFFICES ASSUME Init PROVE Numbered /\ Abstract!Init
    OBVIOUS
  <2>1. Pushed = {} /\ Len(arrivals) = 0
    BY EmptySeq DEF Init, Pushed
  <2> QED
    BY <2>1, FS_EmptySet DEF Init, Numbered, Abstract!Init
<1>2. QueueInv /\ Numbered /\ [Next]_vars => Numbered'
  BY NumberedStep DEF QueueInv, PushSide
<1>3. QueueInv /\ Numbered /\ [Next]_vars => [Abstract!Next]_<<arrivals, closed>>
  <2> SUFFICES ASSUME QueueInv, Numbered, [Next]_vars
               PROVE  [Abstract!Next]_<<arrivals, closed>>
    OBVIOUS
  <2>1. PushTypeOK /\ StoreInv /\ closed \in BOOLEAN
    BY DEF QueueInv, PushSide, EndInv
  <2>2. ASSUME NEW i \in Items, Put(i), UNCHANGED closed PROVE Abstract!Next
    BY <2>1, <2>2, PutIsPut DEF Abstract!Next
  <2>3. ASSUME NEW i \in heap, Take(i), UNCHANGED closed PROVE Abstract!Next
    BY <2>1, <2>3, TakeIsTake, PlaceInLine DEF Abstract!Next
  <2>4. CASE UNCHANGED innerVars /\ closed' \in {closed, TRUE}
    BY <2>1, <2>4 DEF innerVars, Abstract!Next, Abstract!Close
  <2> QED
    BY <2>1, <2>2, <2>3, <2>4, StoreCases
<1> QED
  BY <1>1, <1>2, <1>3, QueueInvHolds, PTL DEF Spec, ImplementsWorkQueue, Abstract!Spec

-----------------------------------------------------------------------------
(* Every item is handed out at most once, and nobody waits for each other   *)

\* What a pop has taken out was pushed, is in the heap no more, and is nobody else's.
HandedOut ==
    /\ \A p \in Poppers : got[p] # None => got[p] \in Pushed \ heap
    /\ \A p, q \in Poppers : got[p] # None /\ got[p] = got[q] => p = q

\* An item leaves the heap into the hands of one pop, and an item that was pushed once
\* never enters the heap again.
HandOutStep ==
    /\ \A i \in heap \ heap' : \E p \in Poppers : got'[p] = i /\ pop'[p] = "notify"
    /\ \A p \in Poppers : got'[p] \in {got[p], None} \/ got'[p] \in heap \ heap'
    /\ heap' \cap Pushed \subseteq heap

LEMMA HandOutCases ==
    ASSUME StoreInv, PushSide, PopSide, EndInv, HandedOut, [Next]_vars
    PROVE  HandedOut' /\ HandOutStep
<1>0. PushTypeOK /\ pop \in [Poppers -> PopStates] /\ got \in [Poppers -> Items \cup {None}]
  BY DEF PushSide, PopSide, EndInv
<1>1. \A i \in heap : i \in Pushed /\ i \in Items /\ i # None
  BY QueueAssumption DEF StoreInv, Pushed
<1>2. ASSUME NEW p \in Poppers, TryPop(p), heap # {}
      PROVE  HandedOut' /\ HandOutStep
  <2>1. PICK i \in heap :
          /\ heap' = heap \ {i} /\ got' = [got EXCEPT ![p] = i] /\ PopAt(p, "notify")
          /\ UNCHANGED push
    BY <1>2 DEF TryPop, TakeOut
  <2>2. /\ \A q \in Poppers : got'[q] = IF q = p THEN i ELSE got[q]
        /\ pop'[p] = "notify" /\ Pushed' = Pushed
    BY <1>0, <2>1 DEF PopAt, Pushed
  <2>3. \A q \in Poppers : got[q] # i
    BY <1>1 DEF HandedOut
  <2> QED
    BY <1>1, <2>1, <2>2, <2>3 DEF HandedOut, HandOutStep
<1>3. ASSUME UNCHANGED heap, Pushed' = Pushed,
             \A p \in Poppers : got'[p] \in {got[p], None}
      PROVE  HandedOut' /\ HandOutStep
  BY <1>3 DEF HandedOut, HandOutStep
<1>4. ASSUME NEW i \in Items, Put(i), UNCHANGED got
      PROVE  HandedOut' /\ HandOutStep
  <2>1. i \notin Pushed /\ Pushed' = Pushed \cup {i} /\ heap' = heap \cup {i}
    BY <1>0, <1>4 DEF Put, PushAt, PushTypeOK, Pushed
  <2> QED
    BY <1>4, <2>1 DEF HandedOut, HandOutStep
<1>5. CASE UNCHANGED push /\ UNCHANGED heap
  <2>1. \A p \in Poppers : got'[p] \in {got[p], None}
    <3>1. CASE \E p \in Poppers : PopCall(p)
      BY <1>0, <3>1 DEF PopCall
    <3>2. CASE \E p \in Poppers : TryPop(p)
      BY <1>1, <1>5, <3>2 DEF TryPop, TakeOut
    <3>3. CASE UNCHANGED got
      BY <3>3
    <3> QED
      BY <3>1, <3>2, <3>3
      DEF Next, vars, PushCall, PushStep, PushDrop, TryPush, PushNotify, PushListen,
          PushWake, PopStep, PopDrop, PopNotify, PopCheck, PopListen, PopWake,
          Close, ClosePoppers, ClosePushers
  <2> QED
    BY <1>3, <1>5, <2>1 DEF Pushed
<1>6. ASSUME NEW i \in Items, PushCall(i) \/ PushStep(i) \/ PushDrop(i)
      PROVE  HandedOut' /\ HandOutStep
  <2>1. UNCHANGED <<got, pop>>
    BY <1>6 DEF PushCall, PushStep, PushDrop, TryPush, PushNotify, PushListen, PushWake
  <2>2. \/ \E j \in Items : Put(j)
        \/ UNCHANGED innerVars /\ Pushed' = Pushed
    <3>1. \A j \in heap : ~Take(j)
      BY <1>1, <1>6
      DEF Take, TakeOut, PushCall, PushStep, PushDrop, TryPush, PushNotify, PushListen,
          PushWake, innerVars
    <3> QED
      BY <1>0, <3>1, PushedCases
  <2> QED
    BY <1>3, <1>4, <2>1, <2>2 DEF innerVars
<1>7. CASE \E p \in Poppers : TryPop(p) /\ heap # {}
  BY <1>2, <1>7
<1>8. CASE \/ \E p \in Poppers : PopCall(p) \/ PopDrop(p) \/ (PopStep(p) /\ ~TryPop(p))
           \/ \E p \in Poppers : TryPop(p) /\ heap = {}
           \/ Close \/ ClosePoppers \/ ClosePushers \/ UNCHANGED vars
  <2>1. UNCHANGED push /\ UNCHANGED heap
    BY <1>8
    DEF PopCall, PopDrop, PopStep, TryPop, PopNotify, PopCheck, PopListen, PopWake,
        Close, ClosePoppers, ClosePushers, vars, innerVars
  <2> QED
    BY <1>5, <2>1
<1> QED
  BY <1>6, <1>7, <1>8 DEF Next, PopStep

ItemsGoOnce == [][HandOutStep]_vars

\* No item is lost on its way out of the heap or handed to two pops, however many of
\* them race for it.
THEOREM ItemsAreHandedOutOnce == Spec => []HandedOut /\ ItemsGoOnce
<1>1. Init => HandedOut
  BY DEF Init, HandedOut
<1>2. QueueInv /\ HandedOut /\ [Next]_vars => HandedOut' /\ [HandOutStep]_vars
  BY HandOutCases DEF QueueInv
<1> QED
  BY <1>1, <1>2, QueueInvHolds, PTL DEF Spec, ItemsGoOnce

\* On an open queue with room for an item, the tasks that pop and the tasks that push
\* never all wait for each other: where every popper sleeps and a push sleeps as well,
\* another push is about to announce its item or to try again.
NoCircularWait ==
    Capacity > 0 /\ ~closed /\ Poppers # {}
        /\ (\A p \in Poppers : Asleep(item_available, p))
        /\ (\E i \in Items : Asleep(space_available, i)) =>
        \E i \in Items : push[i] \in {"notify", "try"} \/ Woken(space_available, i)

\* The heap holds items, and then they are tended, or it is empty, and then the
\* sleeping push is reachable.
THEOREM NobodyWaitsForEachOther == Spec => []NoCircularWait
<1>1. QueueInv /\ SomebodyTendsItems /\ SleepingPushReachable => NoCircularWait
  <2> SUFFICES ASSUME QueueInv, SomebodyTendsItems, SleepingPushReachable,
                      Capacity > 0, ~closed, Poppers # {},
                      \A p \in Poppers : Asleep(item_available, p),
                      NEW j \in Items, Asleep(space_available, j)
               PROVE  \E i \in Items : push[i] \in {"notify", "try"} \/ Woken(space_available, i)
    BY DEF NoCircularWait
  <2>1. \A p \in Poppers : pop[p] = "wait"
    BY DEF QueueInv, PopSide
  <2>2. CASE heap # {}
    BY <2>2 DEF SomebodyTendsItems
  <2>3. CASE heap = {}
    BY <2>1, <2>3 DEF SleepingPushReachable
  <2> QED
    BY <2>2, <2>3
<1> QED
  BY <1>1, QueueInvHolds, ItemsAreTended, SleepersAreReachable, PTL

=============================================================================
