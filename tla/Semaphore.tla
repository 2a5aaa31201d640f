----------------------------- MODULE Semaphore ------------------------------
(***************************************************************************)
(* tokio::sync::Semaphore as the supervisor uses it: one permit per        *)
(* acquire, never closed, permits given out in the order of the requests.  *)
(* A permit that is released while requests wait goes straight to the      *)
(* oldest of them, which owns it from then on even though its task has yet *)
(* to be polled.  External: modelled from its use in                       *)
(* src/src/agent/supervisor.rs.                                            *)
(***************************************************************************)
EXTENDS Naturals, FiniteSets, WaitLine

CONSTANT MaxConcurrency     \* SupervisorConfig::max_concurrency

ASSUME MaxConcurrencyAssumption == MaxConcurrency \in Nat

VARIABLES
    permits,    \* permits that nobody owns
    holders,    \* owners of a permit
    waiting     \* requests that own no permit yet, oldest first

semaphoreVars == <<permits, holders, waiting>>

SemaphoreInit ==
    /\ permits = MaxConcurrency
    /\ holders = {}
    /\ waiting = <<>>

\* acquire() finds a permit and is ready at once.
AcquireNow(a) ==
    /\ permits > 0
    /\ permits' = permits - 1
    /\ holders' = holders \cup {a}
    /\ UNCHANGED waiting

\* acquire() finds none and joins the line.
AcquireLater(a) ==
    /\ permits = 0
    /\ waiting' = Append(waiting, a)
    /\ UNCHANGED <<permits, holders>>

\* The permit of a is dropped.
Release(a) ==
    \/ /\ waiting = <<>>
       /\ permits' = permits + 1
       /\ holders' = holders \ {a}
       /\ UNCHANGED waiting
    \/ /\ waiting # <<>>
       /\ holders' = (holders \ {a}) \cup {Head(waiting)}
       /\ waiting' = Tail(waiting)
       /\ UNCHANGED permits

\* The request of a is dropped before it was granted.
Withdraw(a) ==
    /\ \E i \in 1 .. Len(waiting) :
          /\ waiting[i] = a
          /\ waiting' = WithoutIndex(waiting, i)
    /\ UNCHANGED <<permits, holders>>

=============================================================================
