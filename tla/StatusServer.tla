---------------------------- MODULE StatusServer ----------------------------
(***************************************************************************)
(* StatusServer::start, src/src/status/mod.rs, and the requests of         *)
(* src/src/status/routes.rs that scan the registry.                        *)
(*                                                                         *)
(* start looks for a port by binding one after the other, lets go of the   *)
(* one it could bind, and binds it again for the server.  A port that      *)
(* cannot be bound is `unusable`: another process has it, or the system    *)
(* refuses it (no permission, no file descriptor left); the code treats    *)
(* every error of bind alike.  That changes all the time.  Before and      *)
(* after nobody looks at the ports, and `unusable` is {}.                  *)
(***************************************************************************)
EXTENDS Observers

CONSTANT LastPort       \* ports are 1 .. LastPort, for 3100 ..= 3199

ASSUME PortAssumption == LastPort \in Nat \ {0}

Ports == 1 .. LastPort

VARIABLES
    port,       \* port that start tries, then the port of the server; 0: none
    unusable,   \* ports that cannot be bound now
    busy,       \* history: ports that were unusable at some moment of the search,
                \* and once it has found a port, those that became so since
    counts      \* health: the result of count_by_state

serverVars == <<port, unusable, busy, counts>>

NoCounts == [s \in LifecycleStates |-> 0]

ServerInit ==
    /\ port = 0
    /\ unusable = {}
    /\ busy = {}
    /\ counts = NoCounts

-----------------------------------------------------------------------------
(* start                                                                   *)

Searching == view \in {"probe", "bind"}

Start ==
    /\ view = "idle"
    /\ port = 0
    /\ port' = 1
    /\ unusable' \in SUBSET Ports
    /\ busy' = unusable'
    /\ Turn("probe")
    /\ UNCHANGED counts

\* start_on_port: no search before the bind.
StartOnPort ==
    /\ view = "idle"
    /\ port = 0
    /\ port' \in Ports
    /\ unusable' \in SUBSET Ports
    /\ busy' = unusable'
    /\ Turn("bind")
    /\ UNCHANGED counts

\* Other processes and the system: ports are bound and released, limits reached and
\* lifted.
Environment ==
    /\ Searching
    /\ unusable' \in SUBSET Ports
    /\ busy' = busy \cup (unusable' \ unusable)
    /\ UNCHANGED <<observerVars, port, counts>>

\* Fault: the search goes on past the end of the range.
ProbePastEnd ==
    /\ view = "probe"
    /\ \/ /\ port \notin unusable
          /\ Turn("bind")
          /\ busy' = {}
          /\ UNCHANGED port
       \/ /\ port \in unusable /\ port <= LastPort
          /\ port' = port + 1
          /\ UNCHANGED <<observerVars, busy>>
       \/ /\ port \in unusable /\ port > LastPort
          /\ Turn("no port")
          /\ UNCHANGED <<port, busy>>
    /\ UNCHANGED <<unusable, counts>>

\* Fault: `..` for `..=`, the last port is not tried.
ProbeExclusive ==
    /\ view = "probe"
    /\ \/ /\ port \notin unusable
          /\ Turn("bind")
          /\ busy' = {}
          /\ UNCHANGED port
       \/ /\ port \in unusable /\ port + 1 < LastPort
          /\ port' = port + 1
          /\ UNCHANGED <<observerVars, busy>>
       \/ /\ port \in unusable /\ port + 1 >= LastPort
          /\ Turn("no port")
          /\ UNCHANGED <<port, busy>>
    /\ UNCHANGED <<unusable, counts>>

\* find_available_port: the listener of a successful bind is dropped at once.
Probe ==
    /\ view = "probe"
    /\ \/ /\ port \notin unusable
          /\ Turn("bind")
          /\ busy' = {}
          /\ UNCHANGED port
       \/ /\ port \in unusable /\ port < LastPort
          /\ port' = port + 1
          /\ UNCHANGED <<observerVars, busy>>
       \/ /\ port \in unusable /\ port = LastPort
          /\ Turn("no port")
          /\ UNCHANGED <<port, busy>>
    /\ UNCHANGED <<unusable, counts>>

\* TcpListener::bind for the server: an error is not followed by another search.
Bind ==
    /\ view = "bind"
    /\ \/ port \notin unusable /\ Turn("started")
       \/ port \in unusable /\ Turn("io error")
    /\ UNCHANGED <<port, unusable, busy, counts>>

StartReturn ==
    /\ view \in {"started", "no port", "io error"}
    /\ port' = IF view = "started" THEN port ELSE 0
    /\ unusable' = {}
    /\ busy' = {}
    /\ Turn("idle")
    /\ UNCHANGED counts

-----------------------------------------------------------------------------
(* Requests                                                                *)

Serving == port # 0 /\ view = "idle"

\* GET /health: count_by_state, then len
Health ==
    /\ Serving
    /\ Turn("health")
    /\ UNCHANGED serverVars

\* The second scan belongs to the same request, so the history goes on.
HealthTotal ==
    /\ view = "health"
    /\ Scanned
    /\ view' = "total"
    /\ counts' = CountByState(seen)
    /\ StartScan
    /\ UNCHANGED <<registryVars, now, updated_at, started, ever, port, unusable, busy>>

\* GET /agents: snapshot; the filters of the query look at the clones only.
ListAgents ==
    /\ Serving
    /\ Turn("list")
    /\ UNCHANGED serverVars

RequestReturn ==
    /\ view \in {"list", "total"}
    /\ Scanned
    /\ Turn("idle")
    /\ counts' = NoCounts
    /\ UNCHANGED <<port, unusable, busy>>

ServerStep ==
    \/ Start \/ StartOnPort \/ Environment \/ Probe \/ Bind \/ StartReturn
    \/ Health \/ HealthTotal \/ ListAgents \/ RequestReturn

-----------------------------------------------------------------------------

\* start gives up for a cause only.  NoAvailablePort means that every port of the range
\* could not be bound at some moment of the search; an I/O error, that the port which
\* the search had found became impossible to bind after it was found.  (A port that the
\* caller named could not be bound at some moment of the call.)
StartFailsForCause ==
    /\ view = "no port" => busy = Ports
    /\ view = "io error" => port \in busy

\* Both numbers of /health are torn, and they need not agree with each other; but
\* the total lies between the agents that were registered all through the request
\* and those that were at some moment, and so does the count of each state.
HealthBounds ==
    view = "total" /\ Scanned =>
        /\ Cardinality(Seen(seen)) >= Cardinality(Agents \ Sometimes("Absent"))
        /\ Cardinality(Seen(seen)) <= Cardinality(Agents \ Always("Absent"))
        /\ \A s \in LifecycleStates :
              /\ counts[s] >= Cardinality(Always(s))
              /\ counts[s] <= Cardinality(Sometimes(s))

=============================================================================
