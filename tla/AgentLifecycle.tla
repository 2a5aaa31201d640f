--------------------------- MODULE AgentLifecycle ---------------------------
(***************************************************************************)
(* What a reader of agent records can rely on: the state machine that the  *)
(* comment of AgentState draws (src/src/agent/mod.rs:14-20), with the two  *)
(* arrows that it leaves out and the supervisor takes (FailEarly);         *)
(* terminal states with no further transition (line 40); at most           *)
(* max_concurrency agents executing (src/src/agent/supervisor.rs:25), and  *)
(* every agent in the end terminal.  No task, semaphore, handle or lock    *)
(* appears here, and nobody from outside who writes Cancelled.             *)
(***************************************************************************)
EXTENDS AgentState, Naturals, FiniteSets

CONSTANTS Agents, MaxConcurrency

VARIABLE state

\* Records that say the agent is at work.
AtWork == {a \in Agents : state[a] \in {"Executing", "Reporting"}}

Move(a, from, to) ==
    /\ state[a] = from
    /\ state' = [state EXCEPT ![a] = to]

Init == state = [a \in Agents |-> "Absent"]

Create(a) == Move(a, "Absent", "Queued")

Acquire(a) == Move(a, "Queued", "Acquiring")

Begin(a) ==
    /\ Cardinality(AtWork) < MaxConcurrency
    /\ Move(a, "Acquiring", "Executing")

Report(a) == Move(a, "Executing", "Reporting")

Complete(a) == Move(a, "Reporting", "Done")

\* The comment draws Error as an outcome of Reporting only: a result that does not
\* serialise.
Fail(a) == Move(a, "Reporting", "Error")

\* Not in the comment: a context that cannot be made, an execution that fails or
\* times out.
FailEarly(a) == Move(a, "Acquiring", "Error") \/ Move(a, "Executing", "Error")

Progress(a) ==
    Acquire(a) \/ Begin(a) \/ Report(a) \/ Complete(a) \/ Fail(a) \/ FailEarly(a)

Next == \E a \in Agents : Create(a) \/ Progress(a)

Spec == Init /\ [][Next]_state

FairSpec == Spec /\ \A a \in Agents : WF_state(Progress(a))

=============================================================================
