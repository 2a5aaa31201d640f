---------------------------- MODULE MCSupervisor ----------------------------
(* Instances of Supervisor for TLC.  Agents that are treated alike by every *)
(* set of the configuration are interchangeable.                            *)
EXTENDS Supervisor, TLC

Symmetry == Permutations(Agents)

=============================================================================
