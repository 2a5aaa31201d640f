------------------------------ MODULE Monitor -------------------------------
(***************************************************************************)
(* The guardian's sensor and the status server on one registry.  Start and *)
(* the requests of the server see no other reader, so every reader works   *)
(* alone (see Observers); the writers of the registry never stop.          *)
(***************************************************************************)
EXTENDS Guardian, StatusServer

monitorVars == <<observerVars, serverVars>>

Init == ObserverInit /\ ServerInit

Next ==
    \/ (\E a \in Agents : Write(a)) /\ UNCHANGED serverVars
    \/ (Tick \/ ReadShard) /\ UNCHANGED serverVars
    \/ GuardianStep /\ UNCHANGED serverVars
    \/ ServerStep

Spec == Init /\ [][Next]_monitorVars

-----------------------------------------------------------------------------

\* Every variable stays in its domain; no record is newer than the clock.
TypeOK ==
    /\ RegistryTypeOK
    /\ now \in 0 .. MaxTime
    /\ updated_at \in [Agents -> 0 .. now]
    /\ view \in Scans \cup {"idle", "probe", "bind", "started", "no port", "io error"}
    /\ shard \in 1 .. Shards + 1
    /\ seen \in [Agents -> Records \cup {None}]
    /\ stamps \in [Agents -> 0 .. now]
    /\ started \in 0 .. now
    /\ ever \in [Agents -> SUBSET (LifecycleStates \cup {"Absent", "overdue", "in time"})]
    /\ port \in 0 .. LastPort
    /\ unusable \subseteq Ports
    /\ busy \subseteq Ports
    /\ counts \in [LifecycleStates -> Nat]

=============================================================================
