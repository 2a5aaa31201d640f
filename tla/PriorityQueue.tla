--------------------------- MODULE PriorityQueue ----------------------------
(***************************************************************************)
(* BoundedPriorityQueue, src/src/queue/priority.rs, used by any number of  *)
(* tasks at once.  A step is one region under the mutex, one call on a     *)
(* Notify, or one poll of a future that waits on a Notify: between them    *)
(* the other tasks run.                                                    *)
(*                                                                         *)
(* Every item is the argument of one call of push or try_push; a popper    *)
(* makes one call of pop or try_pop after the other; close is called at    *)
(* most once.  A caller may drop the future of a push or a pop that waits  *)
(* (a timeout, a select, an abort), and the item of such a push with it.   *)
(* The mutex is never poisoned: nothing panics while it is held.           *)
(***************************************************************************)
EXTENDS Naturals, FiniteSets, Notify, Priority

CONSTANTS
    Items,      \* items that somebody pushes
    Poppers,    \* tasks that pop
    Prio,       \* priority of each item
    Capacity,
    SeqMod,     \* 2^64: sequence_counter is a u64 that wraps
    Patient,    \* items given to push; the others are given to try_push
    Eager,      \* poppers that call try_pop; the others call pop
    Hasty,      \* items and poppers whose future may be dropped while it waits
    Closing,    \* whether somebody calls close
    None

ASSUME QueueAssumption ==
    /\ Prio \in [Items -> Priorities]
    /\ Capacity \in Nat
    /\ SeqMod \in Nat \ {0}
    /\ Patient \subseteq Items
    /\ Eager \subseteq Poppers
    /\ Hasty \subseteq Items \cup Poppers
    /\ Closing \in BOOLEAN
    /\ Items \cap Poppers = {}
    /\ None \notin Items

VARIABLES
    heap,               \* items in QueueInner::heap
    sequence,           \* WorkItem::sequence of each item
    sequence_counter,
    closed,
    item_available,     \* the Notify that wakes poppers
    space_available,    \* the Notify that wakes pushers
    push,               \* progress of each item's push
    pop,                \* progress of each popper's current pop
    got,                \* what a popper's last pop took out
    closer,             \* progress of close
    arrivals            \* history: the items of the heap in the order of their pushes

innerVars == <<heap, sequence, sequence_counter, arrivals>>
vars == <<innerVars, closed, item_available, space_available, push, pop, got, closer>>

Init ==
    /\ heap = {}
    /\ sequence = [i \in Items |-> 0]
    /\ sequence_counter = 0
    /\ closed = FALSE
    /\ item_available = Quiet
    /\ space_available = Quiet
    /\ push = [i \in Items |-> "idle"]
    /\ pop = [p \in Poppers |-> "idle"]
    /\ got = [p \in Poppers |-> None]
    /\ closer = "idle"
    /\ arrivals = <<>>

PushAt(i, pc) == push' = [push EXCEPT ![i] = pc]
PopAt(p, pc) == pop' = [pop EXCEPT ![p] = pc]

-----------------------------------------------------------------------------
(* push and try_push                                                       *)

PushCall(i) ==
    /\ push[i] = "idle"
    /\ PushAt(i, "try")
    /\ UNCHANGED <<innerVars, closed, item_available, space_available, pop, got, closer>>

\* try_push_inner under the mutex
Full == Cardinality(heap) >= Capacity

\* Fault: the counter grows past the width of a u64.
TryPushUnbounded(i) ==
    /\ push[i] = "try"
    /\ ~closed /\ ~Full
    /\ heap' = heap \cup {i}
    /\ sequence' = [sequence EXCEPT ![i] = sequence_counter]
    /\ sequence_counter' = sequence_counter + 1
    /\ arrivals' = Append(arrivals, i)
    /\ PushAt(i, "notify")
    /\ UNCHANGED <<closed, item_available, space_available, pop, got, closer>>

TryPush(i) ==
    /\ push[i] = "try"
    /\ \/ /\ closed
          /\ PushAt(i, "closed")
          /\ UNCHANGED innerVars
       \/ /\ ~closed /\ Full
          /\ PushAt(i, IF i \in Patient THEN "full" ELSE "rejected")
          /\ UNCHANGED innerVars
       \/ /\ ~closed /\ ~Full
          /\ heap' = heap \cup {i}
          /\ sequence' = [sequence EXCEPT ![i] = sequence_counter]
          /\ sequence_counter' = (sequence_counter + 1) % SeqMod
          /\ arrivals' = Append(arrivals, i)
          /\ PushAt(i, "notify")
    /\ UNCHANGED <<closed, item_available, space_available, pop, got, closer>>

\* Fault: notify_waiters for notify_one, which leaves no permit.
PushNotifyWaiters(i) ==
    /\ push[i] = "notify"
    /\ item_available' = NotifyWaiters(item_available)
    /\ PushAt(i, "ok")
    /\ UNCHANGED <<innerVars, closed, space_available, pop, got, closer>>

\* item_available.notify_one(), after the mutex was released
PushNotify(i) ==
    /\ push[i] = "notify"
    /\ item_available' = NotifyOne(item_available)
    /\ PushAt(i, "ok")
    /\ UNCHANGED <<innerVars, closed, space_available, pop, got, closer>>

\* space_available.notified().await: the item goes back into `pending`
PushListen(i) ==
    /\ push[i] = "full"
    /\ space_available' = Listen(space_available, i)
    /\ PushAt(i, IF space_available.permit THEN "try" ELSE "wait")
    /\ UNCHANGED <<innerVars, closed, item_available, pop, got, closer>>

PushWake(i) ==
    /\ push[i] = "wait"
    /\ Woken(space_available, i)
    /\ space_available' = Wake(space_available, i)
    /\ PushAt(i, "try")
    /\ UNCHANGED <<innerVars, closed, item_available, pop, got, closer>>

PushDrop(i) ==
    /\ i \in Hasty
    /\ push[i] = "wait"
    /\ space_available' = Discard(space_available, i)
    /\ PushAt(i, "dropped")
    /\ UNCHANGED <<innerVars, closed, item_available, pop, got, closer>>

-----------------------------------------------------------------------------
(* pop and try_pop                                                         *)

PopCall(p) ==
    /\ pop[p] = "idle"
    /\ PopAt(p, "try")
    /\ got' = [got EXCEPT ![p] = None]
    /\ UNCHANGED <<innerVars, closed, item_available, space_available, push, closer>>

\* Fault: the sequence numbers compared the other way round, as a max-heap invites.
BeforeReversed(i, j) ==
    \/ Outranks(Prio[i], Prio[j])
    \/ Prio[i] = Prio[j] /\ sequence[i] > sequence[j]

\* WorkItem::cmp puts j after i: BinaryHeap gives i first.
Before(i, j) ==
    \/ Outranks(Prio[i], Prio[j])
    \/ Prio[i] = Prio[j] /\ sequence[i] < sequence[j]

TakeOut(i) ==
    /\ heap' = heap \ {i}
    /\ arrivals' = WithoutIndex(arrivals, CHOOSE k \in 1 .. Len(arrivals) : arrivals[k] = i)
    /\ UNCHANGED <<sequence, sequence_counter>>

\* try_pop under the mutex: an item that comes after no other
TryPop(p) ==
    /\ pop[p] = "try"
    /\ \/ \E i \in heap :
             /\ \A j \in heap : ~Before(j, i)
             /\ TakeOut(i)
             /\ got' = [got EXCEPT ![p] = i]
             /\ PopAt(p, "notify")
       \/ /\ heap = {}
          /\ PopAt(p, IF p \in Eager THEN "idle" ELSE "check")
          /\ UNCHANGED <<innerVars, got>>
    /\ UNCHANGED <<closed, item_available, space_available, push, closer>>

\* Fault: notify_waiters for notify_one, which leaves no permit.
PopNotifyWaiters(p) ==
    /\ pop[p] = "notify"
    /\ space_available' = NotifyWaiters(space_available)
    /\ PopAt(p, "idle")
    /\ UNCHANGED <<innerVars, closed, item_available, push, got, closer>>

\* space_available.notify_one(), after the mutex was released; then pop returns.
PopNotify(p) ==
    /\ pop[p] = "notify"
    /\ space_available' = NotifyOne(space_available)
    /\ PopAt(p, "idle")
    /\ UNCHANGED <<innerVars, closed, item_available, push, got, closer>>

\* Fault: the flag alone decides; an item pushed since the first look is lost.
PopCheckFlag(p) ==
    /\ pop[p] = "check"
    /\ PopAt(p, IF closed THEN "none" ELSE "listen")
    /\ UNCHANGED <<innerVars, closed, item_available, space_available, push, got, closer>>

\* Fault: `||` for `&&`.
PopCheckEither(p) ==
    /\ pop[p] = "check"
    /\ PopAt(p, IF closed \/ heap = {} THEN "none" ELSE "listen")
    /\ UNCHANGED <<innerVars, closed, item_available, space_available, push, got, closer>>

\* The second look, under the mutex again: None is final for this popper.
PopCheck(p) ==
    /\ pop[p] = "check"
    /\ PopAt(p, IF closed /\ heap = {} THEN "none" ELSE "listen")
    /\ UNCHANGED <<innerVars, closed, item_available, space_available, push, got, closer>>

\* item_available.notified().await
PopListen(p) ==
    /\ pop[p] = "listen"
    /\ item_available' = Listen(item_available, p)
    /\ PopAt(p, IF item_available.permit THEN "try" ELSE "wait")
    /\ UNCHANGED <<innerVars, closed, space_available, push, got, closer>>

PopWake(p) ==
    /\ pop[p] = "wait"
    /\ Woken(item_available, p)
    /\ item_available' = Wake(item_available, p)
    /\ PopAt(p, "try")
    /\ UNCHANGED <<innerVars, closed, space_available, push, got, closer>>

PopDrop(p) ==
    /\ p \in Hasty
    /\ pop[p] = "wait"
    /\ item_available' = Discard(item_available, p)
    /\ PopAt(p, "idle")
    /\ UNCHANGED <<innerVars, closed, space_available, push, got, closer>>

-----------------------------------------------------------------------------
(* close: the flag, then the poppers, then the pushers                     *)

Close ==
    /\ Closing
    /\ closer = "idle"
    /\ closed' = TRUE
    /\ closer' = "poppers"
    /\ UNCHANGED <<innerVars, item_available, space_available, push, pop, got>>

ClosePoppers ==
    /\ closer = "poppers"
    /\ item_available' = NotifyWaiters(item_available)
    /\ closer' = "pushers"
    /\ UNCHANGED <<innerVars, closed, space_available, push, pop, got>>

ClosePushers ==
    /\ closer = "pushers"
    /\ space_available' = NotifyWaiters(space_available)
    /\ closer' = "returned"
    /\ UNCHANGED <<innerVars, closed, item_available, push, pop, got>>

-----------------------------------------------------------------------------

\* Steps of a push or a pop that somebody has called.
PushStep(i) == TryPush(i) \/ PushNotify(i) \/ PushListen(i) \/ PushWake(i)

PopStep(p) ==
    TryPop(p) \/ PopNotify(p) \/ PopCheck(p) \/ PopListen(p) \/ PopWake(p)

Next ==
    \/ \E i \in Items : PushCall(i) \/ PushStep(i) \/ PushDrop(i)
    \/ \E p \in Poppers : PopCall(p) \/ PopStep(p) \/ PopDrop(p)
    \/ Close \/ ClosePoppers \/ ClosePushers

Spec == Init /\ [][Next]_vars

\* The runtime polls every task that can go on, and close runs to its end.
FairSpec ==
    /\ Spec
    /\ \A i \in Items : WF_vars(PushStep(i))
    /\ \A p \in Poppers : WF_vars(PopStep(p))
    /\ WF_vars(ClosePoppers \/ ClosePushers)

\* Moreover the tasks that use pop are workers that call it again and again.
WorkerSpec == FairSpec /\ \A p \in Poppers \ Eager : WF_vars(PopCall(p))

-----------------------------------------------------------------------------
(* Types                                                                   *)

\* Every variable stays in its domain: each Notify holds futures of its own side
\* only, and the counter fits its width.
TypeOK ==
    /\ heap \subseteq Items
    /\ sequence \in [Items -> 0 .. SeqMod - 1]
    /\ sequence_counter \in 0 .. SeqMod - 1
    /\ closed \in BOOLEAN
    /\ item_available \in NotifyType(Poppers)
    /\ space_available \in NotifyType(Items)
    /\ push \in [Items -> {"idle", "try", "full", "wait", "notify",
                           "ok", "rejected", "closed", "dropped"}]
    /\ pop \in [Poppers -> {"idle", "try", "notify", "check", "listen", "wait", "none"}]
    /\ got \in [Poppers -> Items \cup {None}]
    /\ closer \in {"idle", "poppers", "pushers", "returned"}
    /\ arrivals \in Seq(Items)

-----------------------------------------------------------------------------
(* Safety                                                                  *)

\* A pop that returned None has seen the end: the queue is closed, nothing is
\* left, and no push will add anything, however the two looks of pop interleave
\* with pushes and with close.
NoneIsFinal ==
    \A p \in Poppers : pop[p] = "none" => closed /\ heap = {}

\* While the queue holds items, not every task that pops sleeps, unless a push is
\* about to wake one.  (One of several may: see PopBlocksOnlyWhenEmpty.)
SomebodyTendsItems ==
    Poppers # {} /\ (\A p \in Poppers : Asleep(item_available, p)) /\ heap # {} =>
        \E i \in Items : push[i] = "notify"

\* A push that sleeps on an open queue can still be reached: by the pop of an
\* item, by a pop that has yet to notify, or by another push on its way to
\* insert an item, whose pop will notify.
SleepingPushReachable ==
    Capacity > 0 /\ ~closed /\ (\E i \in Items : Asleep(space_available, i)) =>
        \/ heap # {}
        \/ \E p \in Poppers : pop[p] = "notify"
        \/ \E i \in Items : push[i] = "try" \/ Woken(space_available, i)

-----------------------------------------------------------------------------
(* Refinement                                                              *)

Abstract == INSTANCE WorkQueue WITH buffer <- arrivals

\* However the calls interleave, the items come and go as WorkQueue says: never
\* more than Capacity, none twice, none lost, the most urgent first and among
\* these the oldest, nothing new after close.
ImplementsWorkQueue == Abstract!Spec

-----------------------------------------------------------------------------
(* Liveness                                                                *)

\* With a worker that keeps calling pop, every item that was taken in is handed
\* out, whether or not the queue is closed, pops are dropped, and items are
\* snatched by a try_pop.
ItemsAreTaken == \A i \in Items : i \in heap ~> i \notin heap

\* On a queue that stays open, with a worker, every push ends.
PushReturns ==
    \A i \in Items :
        push[i] = "try" ~> push[i] \in {"ok", "rejected", "dropped"} \/ closed

-----------------------------------------------------------------------------
(* Statements of the documentation that the code breaks                    *)

\* "`pop()` blocks when empty", src/src/queue/priority.rs:51: a pop does not
\* sleep for ever next to an item.
PopBlocksOnlyWhenEmpty ==
    \A p \in Poppers : pop[p] = "wait" /\ heap # {} ~> pop[p] # "wait" \/ heap = {}

\* "Wake all waiters so they can observe closure", src/src/queue/priority.rs:174.
WaitersSeeClosure ==
    \A p \in Poppers : closed /\ pop[p] = "wait" ~> pop[p] # "wait"

=============================================================================
