-------------------------- MODULE MCPriorityQueue --------------------------
(* Instances of PriorityQueue for TLC: the Urgent items are Critical, the   *)
(* others Normal (Priority, src/src/types.rs).                              *)
EXTENDS PriorityQueue

CONSTANT Urgent

MCPrio == [i \in Items |-> IF i \in Urgent THEN "Critical" ELSE DefaultPriority]

=============================================================================
