---------------------------- MODULE RegistryScan ----------------------------
(***************************************************************************)
(* The operations of AgentRegistry that visit every entry: get_group,      *)
(* by_state, snapshot, count_by_state and len.  DashMap keeps its entries  *)
(* in shards, each under a lock of its own, and an iteration visits one    *)
(* shard after the other; in between, writers are free to change shards    *)
(* already visited and shards still to come.  So a scan is as many steps   *)
(* as there are shards, and what it collects need not be the contents of   *)
(* the registry at any moment.                                             *)
(*                                                                         *)
(* A scan is the function from agents to the clones it has collected,      *)
(* Unread where there is none.                                             *)
(***************************************************************************)
EXTENDS Registry, Naturals, FiniteSets

CONSTANTS
    Shards,     \* number of shards of the map
    ShardOf     \* shard of each id, by its hash

ASSUME ShardAssumption ==
    /\ Shards \in Nat \ {0}
    /\ ShardOf \in [Agents -> 1 .. Shards]

Unread == [a \in Agents |-> None]

\* Shard k is read: the filter keeps the agents of S.
Gather(seen, k, S) ==
    [a \in Agents |->
        IF a \in S /\ ShardOf[a] = k /\ Registered(a) THEN Record(a) ELSE seen[a]]

\* get_group: membership is fixed by the record's creation.
ScanGroup(seen, k, members) == Gather(seen, k, members)

\* by_state
ScanState(seen, k, s) == Gather(seen, k, {a \in Agents : state[a] = s})

\* snapshot, and the iterations of count_by_state and len
ScanAll(seen, k) == Gather(seen, k, Agents)

Seen(seen) == {a \in Agents : seen[a] # None}

SeenIn(seen, s) == {a \in Seen(seen) : seen[a].state = s}

\* Fault: or_insert(1).
CountByStateFromOne(seen) ==
    [s \in LifecycleStates |-> IF SeenIn(seen, s) = {} THEN 0 ELSE Cardinality(SeenIn(seen, s)) + 1]

\* The map that count_by_state returns; a state without an entry counts 0.
CountByState(seen) == [s \in LifecycleStates |-> Cardinality(SeenIn(seen, s))]

SeenTerminal(seen, a) == seen[a].state \in TerminalStates

=============================================================================
