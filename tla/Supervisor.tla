----------------------------- MODULE Supervisor -----------------------------
(***************************************************************************)
(* AgentSupervisor, src/src/agent/supervisor.rs, on the registry it shares *)
(* with the rest of the crate.                                             *)
(*                                                                         *)
(* Every agent has one call of spawn, one tokio task, at most one call of  *)
(* wait_for, and any number of callers of cancel, of the guardian's Block  *)
(* and of AgentRegistry::remove.  All of them run in parallel: a step is   *)
(* what one of them does on one registry entry, on the semaphore, under    *)
(* the handles mutex or on the file system.                                *)
(*                                                                         *)
(* JoinHandle::abort only sets a flag.  The runtime drops an aborted task  *)
(* at an await point; a task that is being polled when the flag is set     *)
(* goes on to its next await point that is not ready.  Since a worker may  *)
(* have begun to poll before the flag was set, a flagged task that stands  *)
(* at an await point can either be dropped or go on.                       *)
(***************************************************************************)
EXTENDS Registry, Semaphore

CONSTANTS
    Cleanup,        \* SupervisorConfig::cleanup_contexts
    Faults,         \* what may go wrong in a task, a subset of FaultKinds
    Awaited,        \* agents some caller waits for
    Cancellable,    \* agents some caller may cancel
    Blockable,      \* agents the guardian may block
    Removable,      \* agents whose record may be removed from the registry
    Abandonable,    \* agents whose call of spawn may be dropped halfway
    Panicky         \* agents whose own code may panic

\* "rmdir": remove_dir_all fails.
FaultKinds == Errors \cup {"rmdir"}

ASSUME SupervisorAssumption ==
    /\ Cleanup \in BOOLEAN
    /\ Faults \subseteq FaultKinds
    /\ Awaited \subseteq Agents
    /\ Cancellable \subseteq Agents
    /\ Blockable \subseteq Agents
    /\ Removable \subseteq Agents
    /\ Abandonable \subseteq Agents
    /\ Panicky \subseteq Agents
    /\ None \notin Agents

VARIABLES
    spawner,    \* progress of each agent's call of spawn
    task,       \* where each agent's tokio task stands
    outcome,    \* what went wrong in the task so far, None when nothing did
    aborted,    \* tasks whose abort flag is set
    contexts,   \* agents whose context directory exists
    handles,    \* keys of AgentSupervisor::handles
    lock,       \* agent whose cancel holds the handles mutex, or None
    waiter,     \* progress of each agent's call of wait_for
    snapshot    \* record that wait_for has read and will return

taskVars == <<task, outcome, aborted, contexts>>
clientVars == <<spawner, handles, lock, waiter, snapshot>>
vars == <<registryVars, semaphoreVars, taskVars, clientVars>>

-----------------------------------------------------------------------------
(* Positions of a task, in the order of spawn_task_inner.                  *)

AwaitPoints == {"ready", "waiting", "execute"}

\* Positions at which the agent's own code runs: AgentTask::execute, and the
\* Serialize of its output inside serde_json::to_value.
UserCode == {"execute", "serialize"}

\* Positions at which `_permit` is alive.
WithPermit ==
    {"create", "enter", "execute", "report", "serialize", "finish",
     "fail", "failmsg", "cleanup", "exit"}

\* The future returned, was dropped by abort, or panicked.
Stopped == {"finished", "dropped", "panicked"}

Positions == {"none", "ready", "acquire", "waiting"} \cup WithPermit \cup Stopped

Goto(a, p) == task' = [task EXCEPT ![a] = p]

Init ==
    /\ RegistryInit
    /\ SemaphoreInit
    /\ spawner = [a \in Agents |-> "idle"]
    /\ task = [a \in Agents |-> "none"]
    /\ outcome = [a \in Agents |-> None]
    /\ aborted = {}
    /\ contexts = {}
    /\ handles = {}
    /\ lock = None
    /\ waiter = [a \in Agents |-> "idle"]
    /\ snapshot = [a \in Agents |-> None]

-----------------------------------------------------------------------------
(* spawn                                                                   *)

\* register, then tokio::spawn: from here on the task may run.
Spawn(a) ==
    /\ spawner[a] = "idle"
    /\ Register(a)
    /\ spawner' = [spawner EXCEPT ![a] = "insert"]
    /\ Goto(a, "ready")
    /\ UNCHANGED <<semaphoreVars, outcome, aborted, contexts,
                   handles, lock, waiter, snapshot>>

\* Fault: the handle is inserted under try_lock, and not at all when that fails.
InsertHandleTryLock(a) ==
    /\ spawner[a] = "insert"
    /\ handles' = IF lock = None THEN handles \cup {a} ELSE handles
    /\ spawner' = [spawner EXCEPT ![a] = "returned"]
    /\ UNCHANGED <<registryVars, semaphoreVars, taskVars, lock, waiter, snapshot>>

\* handles.lock().await.insert: possibly long after the task started.
InsertHandle(a) ==
    /\ spawner[a] = "insert"
    /\ lock = None
    /\ handles' = handles \cup {a}
    /\ spawner' = [spawner EXCEPT ![a] = "returned"]
    /\ UNCHANGED <<registryVars, semaphoreVars, taskVars, lock, waiter, snapshot>>

\* The future of spawn is dropped while it waits for the mutex.  The JoinHandle
\* goes with it, which detaches the task: nobody can abort it any more.
AbandonSpawn(a) ==
    /\ a \in Abandonable
    /\ spawner[a] = "insert"
    /\ spawner' = [spawner EXCEPT ![a] = "abandoned"]
    /\ UNCHANGED <<registryVars, semaphoreVars, taskVars, handles, lock, waiter, snapshot>>

-----------------------------------------------------------------------------
(* The tokio task, spawn_task_inner                                        *)

\* First poll.  A record that was removed in the meantime ends the task.
Start(a) ==
    /\ task[a] = "ready"
    /\ UpdateState(a, "Acquiring")
    /\ Goto(a, IF Registered(a) THEN "acquire" ELSE "finished")
    /\ UNCHANGED <<semaphoreVars, outcome, aborted, contexts, clientVars>>

\* Fault: `let _ =` drops the permit at once.
AcquirePermitUnheld(a) ==
    /\ task[a] = "acquire"
    /\ \/ permits > 0 /\ UNCHANGED semaphoreVars /\ Goto(a, "create")
       \/ AcquireLater(a) /\ Goto(a, "waiting")
    /\ UNCHANGED <<registryVars, outcome, aborted, contexts, clientVars>>

AcquirePermit(a) ==
    /\ task[a] = "acquire"
    /\ \/ AcquireNow(a) /\ Goto(a, "create")
       \/ AcquireLater(a) /\ Goto(a, "waiting")
    /\ UNCHANGED <<registryVars, outcome, aborted, contexts, clientVars>>

\* The waiting request owns a permit and the task is polled again.
PermitGranted(a) ==
    /\ task[a] = "waiting"
    /\ a \in holders
    /\ Goto(a, "create")
    /\ UNCHANGED <<registryVars, semaphoreVars, outcome, aborted, contexts, clientVars>>

\* IsolatedContext::create; directories of two agents never collide (SHA-256).
CreateDirectory(a) == contexts' = contexts \cup {a}

\* IsolatedContext::cleanup
RemoveDirectory(a) == contexts' = contexts \ {a}

\* Fault: a failed creation leaves the block by `?`, past update_state.
CreateContextBail(a) ==
    /\ task[a] = "create"
    /\ \/ CreateDirectory(a) /\ Goto(a, "enter")
       \/ "mkdir" \in Faults /\ Goto(a, "exit") /\ UNCHANGED contexts
    /\ UNCHANGED <<registryVars, semaphoreVars, outcome, aborted, clientVars>>

\* A directory that cannot be made ends the task.
CreateContext(a) ==
    /\ task[a] = "create"
    /\ \/ /\ CreateDirectory(a)
          /\ Goto(a, "enter")
          /\ UNCHANGED outcome
       \/ /\ "mkdir" \in Faults
          /\ outcome' = [outcome EXCEPT ![a] = "mkdir"]
          /\ Goto(a, "fail")
          /\ UNCHANGED contexts
    /\ UNCHANGED <<registryVars, semaphoreVars, aborted, clientVars>>

Enter(a) ==
    /\ task[a] = "enter"
    /\ UpdateState(a, "Executing")
    /\ Goto(a, "execute")
    /\ UNCHANGED <<semaphoreVars, outcome, aborted, contexts, clientVars>>

\* timeout(agent_timeout, task.execute(&context)) yields a value.
Execute(a) ==
    /\ task[a] = "execute"
    /\ \/ /\ Goto(a, "report")
          /\ UNCHANGED outcome
       \/ \E fault \in Faults \cap {"failed", "timeout"} :
             /\ outcome' = [outcome EXCEPT ![a] = fault]
             /\ Goto(a, "fail")
    /\ UNCHANGED <<registryVars, semaphoreVars, aborted, contexts, clientVars>>

\* Fault: the panic is caught and passed on as one more error.
PanicCaught(a) ==
    /\ a \in Panicky
    /\ task[a] \in UserCode
    /\ outcome' = [outcome EXCEPT ![a] = "panic"]
    /\ Goto(a, "fail")
    /\ UNCHANGED <<registryVars, semaphoreVars, aborted, contexts, clientVars>>

\* The agent's code panics: the future is unwound, which drops the permit and nothing
\* else.  The record stays in Executing or Reporting.
Panic(a) ==
    /\ a \in Panicky
    /\ task[a] \in UserCode
    /\ Release(a)
    /\ Goto(a, "panicked")
    /\ UNCHANGED <<registryVars, outcome, aborted, contexts, clientVars>>

Report(a) ==
    /\ task[a] = "report"
    /\ UpdateState(a, "Reporting")
    /\ Goto(a, "serialize")
    /\ UNCHANGED <<semaphoreVars, outcome, aborted, contexts, clientVars>>

\* Fault: a result that does not serialise is skipped.
SerializeOrSkip(a) ==
    /\ task[a] = "serialize"
    /\ \/ \E v \in Values : SetResult(a, v)
       \/ "serialize" \in Faults /\ UNCHANGED registryVars
    /\ Goto(a, "finish")
    /\ UNCHANGED <<semaphoreVars, outcome, aborted, contexts, clientVars>>

\* serde_json::to_value, then set_result when it succeeds.
Serialize(a) ==
    /\ task[a] = "serialize"
    /\ \/ /\ \E v \in Values : SetResult(a, v)
          /\ Goto(a, "finish")
          /\ UNCHANGED outcome
       \/ /\ "serialize" \in Faults
          /\ outcome' = [outcome EXCEPT ![a] = "serialize"]
          /\ Goto(a, "fail")
          /\ UNCHANGED registryVars
    /\ UNCHANGED <<semaphoreVars, aborted, contexts, clientVars>>

Finish(a) ==
    /\ task[a] = "finish"
    /\ UpdateState(a, "Done")
    /\ Goto(a, "cleanup")
    /\ UNCHANGED <<semaphoreVars, outcome, aborted, contexts, clientVars>>

\* Fault: only the message is recorded.
FailSilently(a) ==
    /\ task[a] = "fail"
    /\ Goto(a, "failmsg")
    /\ UNCHANGED <<registryVars, semaphoreVars, outcome, aborted, contexts, clientVars>>

\* The four error paths: the state first, ...
Fail(a) ==
    /\ task[a] = "fail"
    /\ UpdateState(a, "Error")
    /\ Goto(a, "failmsg")
    /\ UNCHANGED <<semaphoreVars, outcome, aborted, contexts, clientVars>>

\* Fault: a failed creation of the context is recorded without its message.
FailMessageOmitted(a) ==
    /\ task[a] = "failmsg"
    /\ \/ outcome[a] = "mkdir" /\ UNCHANGED registryVars /\ Goto(a, "exit")
       \/ outcome[a] # "mkdir" /\ SetError(a, outcome[a]) /\ Goto(a, "cleanup")
    /\ UNCHANGED <<semaphoreVars, outcome, aborted, contexts, clientVars>>

\* Fault: the `return` after a failed creation is missing.
FailMessageFallThrough(a) ==
    /\ task[a] = "failmsg"
    /\ SetError(a, outcome[a])
    /\ Goto(a, IF outcome[a] = "mkdir" THEN "enter" ELSE "cleanup")
    /\ UNCHANGED <<semaphoreVars, outcome, aborted, contexts, clientVars>>

\* Fault: every error path returns early.
FailMessageReturn(a) ==
    /\ task[a] = "failmsg"
    /\ SetError(a, outcome[a])
    /\ Goto(a, "exit")
    /\ UNCHANGED <<semaphoreVars, outcome, aborted, contexts, clientVars>>

\* ... then the message.  Only the failed creation of the context returns here.
FailMessage(a) ==
    /\ task[a] = "failmsg"
    /\ SetError(a, outcome[a])
    /\ Goto(a, IF outcome[a] = "mkdir" THEN "exit" ELSE "cleanup")
    /\ UNCHANGED <<semaphoreVars, outcome, aborted, contexts, clientVars>>

\* context.cleanup().ok(): a failure leaves the directory behind.
CleanUp(a) ==
    /\ task[a] = "cleanup"
    /\ \/ Cleanup /\ RemoveDirectory(a)
       \/ (~Cleanup \/ "rmdir" \in Faults) /\ UNCHANGED contexts
    /\ Goto(a, "exit")
    /\ UNCHANGED <<registryVars, semaphoreVars, outcome, aborted, clientVars>>

\* Fault: the permit is forgotten instead of dropped.
ExitForget(a) ==
    /\ task[a] = "exit"
    /\ Goto(a, "finished")
    /\ UNCHANGED <<registryVars, semaphoreVars, outcome, aborted, contexts, clientVars>>

\* The async block ends and `_permit` goes out of scope.
Exit(a) ==
    /\ task[a] = "exit"
    /\ Release(a)
    /\ Goto(a, "finished")
    /\ UNCHANGED <<registryVars, outcome, aborted, contexts, clientVars>>

\* The runtime drops an aborted task at an await point.
Drop(a) ==
    /\ a \in aborted
    /\ task[a] \in AwaitPoints
    /\ \/ task[a] = "ready" /\ UNCHANGED semaphoreVars
       \/ task[a] = "waiting" /\ a \notin holders /\ Withdraw(a)
       \/ a \in holders /\ Release(a)
    /\ Goto(a, "dropped")
    /\ UNCHANGED <<registryVars, outcome, aborted, contexts, clientVars>>

-----------------------------------------------------------------------------
(* cancel                                                                  *)

\* The handle leaves the map and its task is flagged; the guard of the mutex
\* lives to the end of the `if let`.
CancelBegin(a) ==
    /\ a \in Cancellable
    /\ lock = None
    /\ a \in handles
    /\ lock' = a
    /\ handles' = handles \ {a}
    /\ aborted' = aborted \cup {a}
    /\ UNCHANGED <<registryVars, semaphoreVars, task, outcome, contexts,
                   spawner, waiter, snapshot>>

CancelEnd(a) ==
    /\ lock = a
    /\ UpdateState(a, "Cancelled")
    /\ lock' = None
    /\ UNCHANGED <<semaphoreVars, taskVars, spawner, handles, waiter, snapshot>>

-----------------------------------------------------------------------------
(* wait_for                                                                *)

\* The caller has the id from spawn or from a snapshot of the registry.
WaitCall(a) ==
    /\ a \in Awaited
    /\ waiter[a] = "idle"
    /\ spawner[a] # "idle"
    /\ waiter' = [waiter EXCEPT ![a] = "polling"]
    /\ UNCHANGED <<registryVars, semaphoreVars, taskVars, spawner, handles, lock, snapshot>>

\* Fault: an agent that reports counts as finished.
WaitPollReporting(a) ==
    /\ waiter[a] = "polling"
    /\ Terminal(a) \/ state[a] = "Reporting"
    /\ waiter' = [waiter EXCEPT ![a] = "reclaim"]
    /\ snapshot' = [snapshot EXCEPT ![a] = Record(a)]
    /\ UNCHANGED <<registryVars, semaphoreVars, taskVars, spawner, handles, lock>>

\* A poll that decides; one that finds a running agent sleeps and changes nothing.
WaitPoll(a) ==
    /\ waiter[a] = "polling"
    /\ \/ /\ ~Registered(a)
          /\ waiter' = [waiter EXCEPT ![a] = "notfound"]
          /\ UNCHANGED snapshot
       \/ /\ Terminal(a)
          /\ waiter' = [waiter EXCEPT ![a] = "reclaim"]
          /\ snapshot' = [snapshot EXCEPT ![a] = Record(a)]
    /\ UNCHANGED <<registryVars, semaphoreVars, taskVars, spawner, handles, lock>>

\* "Clean up handle": dropping a JoinHandle detaches its task.
WaitReclaim(a) ==
    /\ waiter[a] = "reclaim"
    /\ lock = None
    /\ handles' = handles \ {a}
    /\ waiter' = [waiter EXCEPT ![a] = "returned"]
    /\ UNCHANGED <<registryVars, semaphoreVars, taskVars, spawner, lock, snapshot>>

-----------------------------------------------------------------------------
(* Other users of the registry                                             *)

\* ResponseAction::Block in OrchestrationActuator::execute
Block(a) ==
    /\ a \in Blockable
    /\ Registered(a)
    /\ UpdateState(a, "Cancelled")
    /\ UNCHANGED <<semaphoreVars, taskVars, clientVars>>

\* AgentRegistry::remove, public and reached through AgentSupervisor::registry
Purge(a) ==
    /\ a \in Removable
    /\ Remove(a)
    /\ UNCHANGED <<semaphoreVars, taskVars, clientVars>>

-----------------------------------------------------------------------------

TaskStep(a) ==
    \/ Start(a) \/ AcquirePermit(a) \/ PermitGranted(a) \/ CreateContext(a)
    \/ Enter(a) \/ Execute(a) \/ Panic(a) \/ Report(a) \/ Serialize(a)
    \/ Finish(a) \/ Fail(a) \/ FailMessage(a) \/ CleanUp(a) \/ Exit(a)
    \/ Drop(a)

Next ==
    \E a \in Agents :
        \/ Spawn(a) \/ InsertHandle(a) \/ AbandonSpawn(a)
        \/ TaskStep(a)
        \/ CancelBegin(a) \/ CancelEnd(a)
        \/ WaitCall(a) \/ WaitPoll(a) \/ WaitReclaim(a)
        \/ Block(a) \/ Purge(a)

Spec == Init /\ [][Next]_vars

\* The runtime polls every woken task, agent_timeout bounds execute, and a call
\* that was made is driven to its end.  No caller is obliged to make a call.
Fairness ==
    \A a \in Agents :
        /\ WF_vars(TaskStep(a))
        /\ WF_vars(InsertHandle(a))
        /\ WF_vars(CancelEnd(a))
        /\ WF_vars(WaitPoll(a))
        /\ WF_vars(WaitReclaim(a))

FairSpec == Spec /\ Fairness

-----------------------------------------------------------------------------
(* Types                                                                   *)

\* Every variable stays in its domain; the semaphore's line holds agents only.
TypeOK ==
    /\ RegistryTypeOK
    /\ permits \in Nat
    /\ holders \subseteq Agents
    /\ waiting \in Seq(Agents)
    /\ spawner \in [Agents -> {"idle", "insert", "returned", "abandoned"}]
    /\ task \in [Agents -> Positions]
    /\ outcome \in [Agents -> Errors \cup {None}]
    /\ aborted \subseteq Agents
    /\ contexts \subseteq Agents
    /\ handles \subseteq Agents
    /\ lock \in Agents \cup {None}
    /\ waiter \in [Agents -> {"idle", "polling", "notfound", "reclaim", "returned"}]
    /\ snapshot \in [Agents -> Records \cup {None}]

-----------------------------------------------------------------------------
(* Safety                                                                  *)

Running == {a \in Agents : task[a] \in WithPermit}

\* Requests that were granted while their task was parked.
Granted == {a \in holders : task[a] = "waiting"}

\* max_concurrency is a bound on the tasks between acquire and the end of the
\* async block, whatever is cancelled, panics or fails.
ConcurrencyBound == Cardinality(Running) <= MaxConcurrency

\* No permit is lost or duplicated: the free ones, those of running tasks and
\* those handed to parked tasks add up.  No wake-up is lost: a parked task owns
\* a permit or stands in the line, and none is free while anybody stands there.
PermitsAddUp ==
    /\ permits + Cardinality(Running \cup Granted) = MaxConcurrency
    /\ permits > 0 => waiting = <<>>
    /\ \A a \in Agents :
          task[a] = "waiting" => a \in Granted \/ InLine(waiting, a)

\* A task that ran to its end left a terminal record (or the record is gone):
\* only an abort or a panic can leave behind a record that nobody will finish.
CompletedIsTerminal ==
    \A a \in Agents : task[a] = "finished" => Terminal(a) \/ ~Registered(a)

\* "result: populated on Done": a Done record has its result and no error, both
\* in the registry and in what wait_for hands out.
DoneHasResult ==
    \A a \in Agents :
        /\ state[a] = "Done" => result[a] # None /\ error[a] = None
        /\ snapshot[a] # None /\ snapshot[a].state = "Done" =>
              snapshot[a].result # None /\ snapshot[a].error = None

\* "error: populated on Error" holds except in one window: a registered Error
\* record without its message belongs to a task between its two writes.
ErrorWindow ==
    \A a \in Agents :
        state[a] = "Error" /\ error[a] = None => task[a] = "failmsg"

OutcomesKept ==
    \A a \in Agents :
        state[a] \in {"Done", "Error"} => state'[a] \in {state[a], "Cancelled", "Absent"}

\* Done and Error are never taken back by the task or by a late call; only a
\* cancel or a Block can replace them, by Cancelled, and only remove deletes them.
OutcomeIsFinal == [][OutcomesKept]_vars

\* The task will not change the state of its record any more.
PastWork == {"failmsg", "cleanup", "exit"} \cup Stopped

\* The record that wait_for comes back with is the task's last word, although it is
\* old by then and cancel and Block write to the same record: when it says Done or
\* Error the task is past its last change of state, and when it says Cancelled
\* somebody else said so.
WaitReturnsAfterWork ==
    \A a \in Agents :
        waiter[a] \in {"reclaim", "returned"} =>
            \/ snapshot[a].state \in {"Done", "Error"} /\ task[a] \in PastWork
            \/ snapshot[a].state = "Cancelled" /\ a \in aborted \cup Blockable

\* Once spawn has returned, a task that has work to do is in the hands of cancel: its
\* handle is in the map or cancel has flagged it, although the task runs before the
\* handle is there and wait_for throws handles away.  There is one exception: Block
\* declared the agent Cancelled, wait_for believed it and dropped the handle.  Then
\* the task goes on and cancel answers AgentNotFound.  (A spawn that was dropped
\* has not returned.)
LiveTaskHasHandle ==
    \A a \in Agents :
        spawner[a] = "returned" /\ task[a] \notin PastWork =>
            \/ a \in handles \cup aborted
            \/ a \in Blockable /\ waiter[a] = "returned" /\ snapshot[a].state = "Cancelled"

\* With cleanup_contexts, a directory outlives its task only if the task was
\* aborted or panicked.
ContextRemoved ==
    Cleanup /\ "rmdir" \notin Faults =>
        \A a \in contexts : task[a] # "finished"

-----------------------------------------------------------------------------
(* Liveness                                                                *)

\* With a permit to go round, every spawned task stops: none starves in the line of
\* the semaphore, even if others panic, fail, or are aborted while they hold, or have
\* just been handed, a permit.
TasksStop ==
    MaxConcurrency > 0 => \A a \in Agents : task[a] = "ready" ~> task[a] \in Stopped

\* The task was aborted or panicked, its record is not terminal, and no cancel is
\* about to make it so: nobody will finish it.
Stranded(a) ==
    /\ task[a] \in {"dropped", "panicked"}
    /\ Registered(a) /\ ~Terminal(a)
    /\ lock # a

\* With a permit to go round, every wait_for ends, whatever fails in the task and also
\* if the agent is cancelled or blocked, unless the record is left stranded.
WaitEnds ==
    MaxConcurrency > 0 =>
        \A a \in Agents :
            waiter[a] = "polling" ~> waiter[a] \in {"notfound", "returned"} \/ Stranded(a)

-----------------------------------------------------------------------------
(* Refinement                                                              *)

Untouched == Agents \ (Cancellable \cup Blockable \cup Removable \cup Panicky)

Lifecycle ==
    INSTANCE AgentLifecycle WITH Agents <- Untouched, state <- [a \in Untouched |-> state[a]]

\* The records of agents that nobody cancels, blocks or removes, and whose code does
\* not panic, behave as AgentLifecycle says, whatever happens to the agents they
\* share the permits with.
ImplementsLifecycle == Lifecycle!FairSpec

-----------------------------------------------------------------------------
(* Statements of the documentation and the tests that the code breaks      *)

\* "OrchestrationActuator responds: cancels stuck agents",
\* src/src/integration/guardian.rs:4: the blocked agent produces nothing more.
BlockedStaysCancelled ==
    [][\A a \in Blockable \ Cancellable :
          state[a] = "Cancelled" => state'[a] \in {"Cancelled", "Absent"}]_vars

\* "Wait for a specific agent to reach a terminal state",
\* src/src/agent/supervisor.rs:143, after a cancel that reported success.
WaitReturns ==
    \A a \in Agents :
        waiter[a] = "polling" ~> waiter[a] \in {"notfound", "returned"}

=============================================================================
