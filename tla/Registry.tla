------------------------------ MODULE Registry ------------------------------
(***************************************************************************)
(* AgentRegistry, src/src/agent/registry.rs: a concurrent map from agent   *)
(* ids to records, shared by the supervisor, the consensus engine, the     *)
(* status server and the guardian actuator.  Every operation below holds   *)
(* one DashMap entry for its whole duration, so it is one atomic step; two *)
(* operations of one caller are two steps.                                 *)
(*                                                                         *)
(* Of a record only the fields that some caller reads back are kept: its   *)
(* state, its result and its error.  The operations are action fragments:  *)
(* each says what happens to all the variables of this module.             *)
(***************************************************************************)
EXTENDS AgentState

CONSTANTS
    Agents,     \* agent ids; NexId::v4 never repeats, so an id is used once
    Values,     \* results a task can produce, as serialised by serde_json
    None        \* Option::None

ASSUME NoneAssumption == None \notin Values

\* The messages that set_error stores, one per call site in the supervisor.
Errors == {"mkdir", "failed", "timeout", "serialize"}

ASSUME ErrorAssumption == None \notin Errors

Records ==
    [state : LifecycleStates, result : Values \cup {None}, error : Errors \cup {None}]

\* Functions from agents to "a record or None" tell the two apart.
ASSUME RecordAssumption == None \notin Records

VARIABLES
    state,      \* state of each agent's record, "Absent" when there is none
    result,     \* AgentRecord::result
    error       \* AgentRecord::error

registryVars == <<state, result, error>>

-----------------------------------------------------------------------------

RegistryTypeOK ==
    /\ state \in [Agents -> LifecycleStates \cup {"Absent"}]
    /\ result \in [Agents -> Values \cup {None}]
    /\ error \in [Agents -> Errors \cup {None}]

RegistryInit ==
    /\ state = [a \in Agents |-> "Absent"]
    /\ result = [a \in Agents |-> None]
    /\ error = [a \in Agents |-> None]

-----------------------------------------------------------------------------

Registered(a) == state[a] # "Absent"

Terminal(a) == state[a] \in TerminalStates

\* A clone of the record, as get returns it.
Record(a) == [state |-> state[a], result |-> result[a], error |-> error[a]]

\* AgentRecord::new
NewRecord == [state |-> "Queued", result |-> None, error |-> None]

\* An id that is taken is refused; NexId::v4 never yields one.
Register(a) ==
    /\ ~Registered(a)
    /\ state' = [state EXCEPT ![a] = NewRecord.state]
    /\ result' = [result EXCEPT ![a] = NewRecord.result]
    /\ error' = [error EXCEPT ![a] = NewRecord.error]

\* Any state may replace any other: the registry does not look at the old one.
\* On an unknown id the call returns AgentNotFound and changes nothing.
UpdateState(a, s) ==
    /\ state' = IF Registered(a) THEN [state EXCEPT ![a] = s] ELSE state
    /\ UNCHANGED <<result, error>>

SetResult(a, v) ==
    /\ result' = IF Registered(a) THEN [result EXCEPT ![a] = v] ELSE result
    /\ UNCHANGED <<state, error>>

SetError(a, e) ==
    /\ error' = IF Registered(a) THEN [error EXCEPT ![a] = e] ELSE error
    /\ UNCHANGED <<state, result>>

Remove(a) ==
    /\ Registered(a)
    /\ state' = [state EXCEPT ![a] = "Absent"]
    /\ result' = [result EXCEPT ![a] = None]
    /\ error' = [error EXCEPT ![a] = None]

=============================================================================
