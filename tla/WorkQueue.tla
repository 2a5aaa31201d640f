----------------------------- MODULE WorkQueue ------------------------------
(***************************************************************************)
(* What BoundedPriorityQueue promises (src/src/queue/priority.rs:46-51 and *)
(* 169): a bounded buffer that hands out an item of the highest priority,  *)
(* the oldest of them first, and that takes nothing in once it is closed.  *)
(* "Priority ordering: Critical > High > Normal > Low".                    *)
(* No heap, sequence number, lock or wake-up appears here.                 *)
(***************************************************************************)
EXTENDS Naturals, Sequences

CONSTANTS Items, Prio, Capacity

VARIABLES
    buffer,     \* items held, oldest first
    closed

\* The priorities from the most urgent to the least.
Order == <<"Critical", "High", "Normal", "Low">>

\* Item i is at least as urgent as item j.
AsUrgent(i, j) ==
    \E m \in 1 .. Len(Order) : \E n \in m .. Len(Order) :
        Prio[i] = Order[m] /\ Prio[j] = Order[n]

Init == buffer = <<>> /\ closed = FALSE

Put(i) ==
    /\ ~closed
    /\ Len(buffer) < Capacity
    /\ buffer' = Append(buffer, i)
    /\ UNCHANGED closed

\* The item at k goes: nobody is more urgent, nobody as urgent came earlier.
Take(k) ==
    /\ \A j \in 1 .. Len(buffer) : AsUrgent(buffer[k], buffer[j])
    /\ \A j \in 1 .. k - 1 : ~AsUrgent(buffer[j], buffer[k])
    /\ buffer' = [j \in 1 .. Len(buffer) - 1 |-> IF j < k THEN buffer[j] ELSE buffer[j + 1]]
    /\ UNCHANGED closed

Close ==
    /\ closed' = TRUE
    /\ UNCHANGED buffer

Next ==
    \/ \E i \in Items : Put(i)
    \/ \E k \in 1 .. Len(buffer) : Take(k)
    \/ Close

Spec == Init /\ [][Next]_<<buffer, closed>>

=============================================================================
