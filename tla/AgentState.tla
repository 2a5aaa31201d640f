----------------------------- MODULE AgentState -----------------------------
(***************************************************************************)
(* The lifecycle states of an agent record, src/src/agent/mod.rs.          *)
(* "Absent" is not a state of the code: it stands for an id that has no    *)
(* record in the registry.                                                 *)
(***************************************************************************)

LifecycleStates ==
    {"Queued", "Acquiring", "Executing", "Reporting", "Done", "Error", "Cancelled"}

\* AgentState::is_terminal
TerminalStates == {"Done", "Error", "Cancelled"}

=============================================================================
