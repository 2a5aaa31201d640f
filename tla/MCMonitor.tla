----------------------------- MODULE MCMonitor ------------------------------
(* Instances of Monitor for TLC: every agent has a shard of its own.        *)
EXTENDS Monitor

CONSTANTS a1, a2

MCShardOf == [a \in Agents |-> IF a = a1 THEN 1 ELSE 2]

\* The sensor's tests and examples use 0.3.
MCThreshold == [num |-> 3, den |-> 10]

=============================================================================
