------------------------------- MODULE Notify -------------------------------
(***************************************************************************)
(* tokio::sync::Notify as BoundedPriorityQueue uses it.  External: modelled *)
(* from its use in src/src/queue/priority.rs.  A Notify is a record        *)
(*   permit  one stored notification; a second one is lost                 *)
(*   line    futures that wait, oldest first                               *)
(*   one     futures woken by notify_one and not polled since              *)
(*   all     futures woken by notify_waiters and not polled since          *)
(*                                                                         *)
(* notified() and the first poll of its future are one step, Listen: a     *)
(* notify_waiters that comes between them completes the future, which is   *)
(* what it does to a future that was polled just before.                   *)
(***************************************************************************)
EXTENDS WaitLine

\* A Notify whose futures belong to the tasks W.
NotifyType(W) == [permit : BOOLEAN, line : Seq(W), one : SUBSET W, all : SUBSET W]

Quiet == [permit |-> FALSE, line |-> <<>>, one |-> {}, all |-> {}]

\* Wakes the oldest future, or else leaves the permit.
NotifyOne(n) ==
    IF n.line = <<>>
    THEN [n EXCEPT !.permit = TRUE]
    ELSE [n EXCEPT !.line = Tail(@), !.one = @ \cup {Head(n.line)}]

\* Wakes those that wait now and leaves nothing for those that come later.
NotifyWaiters(n) ==
    [n EXCEPT !.line = <<>>, !.all = @ \cup {n.line[i] : i \in 1 .. Len(n.line)}]

\* The future w takes the permit, or else joins the line.
Listen(n, w) ==
    IF n.permit THEN [n EXCEPT !.permit = FALSE] ELSE [n EXCEPT !.line = Append(@, w)]

Asleep(n, w) == InLine(n.line, w)

Woken(n, w) == w \in n.one \cup n.all

\* The woken future w is polled and ends.
Wake(n, w) == [n EXCEPT !.one = @ \ {w}, !.all = @ \ {w}]

\* The future w is dropped unfinished; what notify_one gave it goes to the next.
Discard(n, w) ==
    IF w \in n.one
    THEN NotifyOne(Wake(n, w))
    ELSE IF Asleep(n, w)
         THEN [n EXCEPT !.line = WithoutIndex(@, CHOOSE i \in 1 .. Len(@) : @[i] = w)]
         ELSE Wake(n, w)

=============================================================================
