------------------------------ MODULE Guardian ------------------------------
(***************************************************************************)
(* OrchestrationSensor::detect, src/src/integration/guardian.rs: the rate  *)
(* of agents in Error first, then, in a second scan, agents that have been *)
(* Executing for too long.                                                 *)
(***************************************************************************)
EXTENDS Observers

CONSTANT Threshold      \* error_rate_threshold, as a fraction [num, den]

ASSUME ThresholdAssumption ==
    /\ Threshold \in [num : Nat, den : Nat \ {0}]
    /\ None \notin {"High", "Critical"}

\* detect_error_rate: count_by_state
Detect ==
    /\ view = "idle"
    /\ Turn("errors")

\* Fault: the division is done in integers.
HighRateInteger(errors, total) ==
    total # 0 /\ (errors \div total) * Threshold.den > Threshold.num

\* error_rate > error_rate_threshold, for a rate of errors / total
HighRate(errors, total) ==
    total # 0 /\ errors * Threshold.den > Threshold.num * total

\* error_rate > 0.5
CriticalRate(errors, total) == 2 * errors > total

\* The signal that detect_error_rate returns: its severity, or None.
ErrorSignal(errors, total) ==
    IF ~HighRate(errors, total) THEN None
    ELSE IF CriticalRate(errors, total) THEN "Critical" ELSE "High"

\* detect_stuck_agents: the time is taken before the records are read.
DetectStuck ==
    /\ view = "errors"
    /\ Scanned
    /\ Turn("stuck")

\* Fault: the time is taken after the records were read.
StuckSignalsLate == {a \in Seen(seen) : now - stamps[a] > StuckAfter}

\* The agents that detect_stuck_agents raises a signal for.
StuckSignals == {a \in Seen(seen) : started - stamps[a] > StuckAfter}

DetectReturn ==
    /\ view = "stuck"
    /\ Scanned
    /\ Turn("idle")

GuardianStep == Detect \/ DetectStuck \/ DetectReturn

-----------------------------------------------------------------------------

\* The counts behind the error rate may be torn, but not arbitrarily: a signal
\* needs a high rate of agents that were in Error at some moment among those that
\* were registered all the time, and such a rate of agents in Error all the time
\* among all that were registered at some moment always raises it.  The same
\* holds of the severity.
ErrorSignalJustified ==
    view = "errors" /\ Scanned =>
        LET signal == ErrorSignal(Cardinality(SeenIn(seen, "Error")), Cardinality(Seen(seen)))
            most   == Cardinality(Sometimes("Error"))
            least  == Cardinality(Always("Error"))
            few    == Cardinality(Agents \ Sometimes("Absent"))
            many   == Cardinality(Agents \ Always("Absent"))
        IN  /\ signal # None => most * Threshold.den > Threshold.num * few
            /\ signal = "Critical" => 2 * most > few
            /\ least * Threshold.den > Threshold.num * many => signal # None
            /\ signal # None /\ 2 * least > many => signal = "Critical"

\* A stuck signal names an agent that really was overdue at some moment while the
\* sensor looked, and an agent that was overdue all the time is not missed,
\* however records are refreshed, finished and removed meanwhile.
StuckSignalsJustified ==
    view = "stuck" /\ Scanned =>
        /\ StuckSignals \subseteq Sometimes("overdue")
        /\ Always("overdue") \subseteq StuckSignals

=============================================================================
