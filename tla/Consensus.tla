----------------------------- MODULE Consensus ------------------------------
(***************************************************************************)
(* ConsensusRule and ConsensusEngine::evaluate, src/src/consensus: what is *)
(* concluded from the records of a group that a scan has collected.        *)
(***************************************************************************)
EXTENDS RegistryScan, Integers

CONSTANT Precision      \* a product of two f64 is off by one part in Precision at most

ASSUME ConsensusAssumption == Precision \in Nat \ {0}

(* ConsensusRule.  A quorum is an f64.  num/den is its value, to the last   *)
(* bit; den = 0 stands for infinity (num > 0), for NaN and for minus        *)
(* infinity.  `down` lists the totals at which its product with the total   *)
(* comes out on the integer below, the rest being lost in the rounding.  On *)
(* an integer above the exact product it cannot come out: integers are      *)
(* representable, and rounding is monotone.                                 *)
MinAgree(n) == [kind |-> "MinAgree", n |-> n]
Majority == [kind |-> "Majority"]
Unanimous == [kind |-> "Unanimous"]
Any == [kind |-> "Any"]
Quorum(num, den, down) == [kind |-> "Quorum", num |-> num, den |-> den, down |-> down]

\* A product this close above an integer may be rounded to it.
MayRoundDown(rule, total) ==
    LET rest == (rule.num * total) % rule.den
    IN  0 < rest /\ rest * Precision <= rule.num * total

IsRule(r) ==
    \/ r \in {Majority, Unanimous, Any}
    \/ r.kind = "MinAgree" /\ r.n \in Nat
    \/ /\ r.kind = "Quorum"
       /\ r.num \in Int /\ r.den \in Nat /\ r.down \subseteq Nat
       /\ r.down # {} => r.num > 0 /\ r.den > 0
       /\ \A total \in r.down : MayRoundDown(r, total)

\* Fault: `as usize` without ceil.
RequiredTruncated(rule, total) == (rule.num * total) \div rule.den

\* (fraction * total).ceil() of a positive, finite fraction
Required(rule, total) ==
    (rule.num * total + rule.den - 1) \div rule.den - (IF total \in rule.down THEN 1 ELSE 0)

\* `as usize` makes 0 of NaN and of everything negative, and of infinity a number of
\* agents that no group has.
QuorumReached(rule, agreement, total) ==
    \/ rule.num <= 0
    \/ rule.den > 0 /\ agreement >= Required(rule, total)

\* Fault: half of the group is taken for a majority.
SatisfiedByHalf(rule, agreement, total) ==
    /\ total # 0
    /\ CASE rule.kind = "MinAgree"  -> agreement >= rule.n
         [] rule.kind = "Majority"  -> agreement >= total \div 2
         [] rule.kind = "Unanimous" -> agreement = total
         [] rule.kind = "Any"       -> agreement >= 1
         [] rule.kind = "Quorum"    -> QuorumReached(rule, agreement, total)

\* ConsensusRule::is_satisfied
Satisfied(rule, agreement, total) ==
    /\ total # 0
    /\ CASE rule.kind = "MinAgree"  -> agreement >= rule.n
         [] rule.kind = "Majority"  -> agreement > total \div 2
         [] rule.kind = "Unanimous" -> agreement = total
         [] rule.kind = "Any"       -> agreement >= 1
         [] rule.kind = "Quorum"    -> QuorumReached(rule, agreement, total)

\* Fault: a result counts as soon as it is there.
VotersUnfinished(seen) == {a \in Seen(seen) : seen[a].result # None}

\* Agents that participated: Done, with a result.
Voters(seen) == {a \in Seen(seen) : seen[a].state = "Done" /\ seen[a].result # None}

Supporters(seen, v) == {a \in Voters(seen) : seen[a].result = v}

Votes(seen, v) == Cardinality(Supporters(seen, v))

\* What the sort by decreasing support may put first: among equals it is the
\* value met first in the order of the map.  Nobody voted: there is no winner.
Winners(seen) ==
    IF Voters(seen) = {} THEN {None}
    ELSE {v \in Values : \A w \in Values : Votes(seen, w) <= Votes(seen, v)}

\* The results that evaluate may return.
Verdicts(seen, rule) ==
    {[rule |-> rule,
      achieved |-> Satisfied(rule, Votes(seen, v), Cardinality(Seen(seen))),
      winning_value |-> v,
      agreement_count |-> Votes(seen, v),
      total_participants |-> Cardinality(Voters(seen)),
      dissenting |-> Seen(seen) \ Supporters(seen, v)] : v \in Winners(seen)}

=============================================================================
