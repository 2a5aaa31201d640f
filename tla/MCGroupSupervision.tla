------------------------- MODULE MCGroupSupervision -------------------------
(* Instances of GroupSupervision for TLC: one shard for a1, one for all     *)
(* others.  The quorums are floats of three significant bits: the product   *)
(* of 3/8 and 3 is rounded to 1; 0/0 is NaN.                                *)
EXTENDS GroupSupervision

CONSTANTS a1

TLC == INSTANCE TLC

Symmetry == TLC!Permutations(Agents \ Blockable) \cup TLC!Permutations(Values)

MCShardOf == [a \in Agents |-> IF Shards = 1 \/ a = a1 THEN 1 ELSE 2]

MCMajority == {Majority}

MCRules ==
    {Majority, MinAgree(2), Unanimous, Any, Quorum(3, 8, {3}), Quorum(5, 8, {}),
     Quorum(0, 0, {})}

=============================================================================
