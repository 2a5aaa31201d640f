------------------------------ MODULE Priority -------------------------------
(* Priority, src/src/types.rs: four levels, compared by their weights.       *)
EXTENDS Naturals

Priorities == {"Low", "Normal", "High", "Critical"}

\* Priority::weight, the discriminant of the enum
Weight == [Low |-> 0, Normal |-> 1, High |-> 2, Critical |-> 3]

\* Ord::cmp gives Greater.
Outranks(p, q) == Weight[p] > Weight[q]

\* AgentTask::priority and Priority::default
DefaultPriority == "Normal"

=============================================================================
