------------------------------ MODULE WaitLine ------------------------------
(***************************************************************************)
(* The intrusive list in which tokio::sync keeps the futures that wait,    *)
(* oldest first.  External: the semaphore of src/src/agent/supervisor.rs   *)
(* and the two Notify of src/src/queue/priority.rs each have one.          *)
(***************************************************************************)
EXTENDS Integers, Sequences

\* The line q without its i-th entry: a future can leave from any place.
WithoutIndex(q, i) ==
    [k \in 1 .. Len(q) - 1 |-> IF k < i THEN q[k] ELSE q[k + 1]]

InLine(q, w) == \E i \in 1 .. Len(q) : q[i] = w

=============================================================================
