# TLA+ models of nexcore-orchestration

Models, model-checking instances and machine-checked proofs for the
`nexcore-orchestration` crate: agents that run as tokio tasks under a
concurrency limit, a registry of their records, a bounded priority queue, a
consensus engine, and two views on the registry (guardian and status server).
Paths below are relative to the repository (`src/src/...` is the crate's code).

## 1. The system

| Component | State | Operations | Meets |
|---|---|---|---|
| Registry, `agent/registry.rs` | map id → `AgentRecord` (`state`, `result`, `error`, ...) in a DashMap | `register`, `get`, `update_state`, `set_result`, `set_error`, `remove`: one entry each, atomic. `get_group`, `by_state`, `snapshot`, `count_by_state`, `len`: scans, not atomic | everybody: shared by reference |
| Supervisor, `agent/supervisor.rs` | `semaphore`, `handles` (id → JoinHandle, under an async mutex) | `spawn`, `spawn_group`, `cancel`, `cancel_group`, `wait_for`, `wait_for_group` | registry, semaphore, one tokio task per agent |
| Agent task, `spawn_task_inner` | its position, the permit, the context directory | acquire, create context, execute under a timeout, report, clean up; four error paths | registry, semaphore, file system, `abort` |
| Context, `agent/context.rs` | a directory named by the SHA-256 of the id | `create`, `cleanup`, artifacts | agent task |
| Queue, `queue/priority.rs` | heap, sequence counter, closed flag (one mutex); two `Notify` | `push`, `try_push`, `pop`, `try_pop`, `close`, observers | its callers only; the supervisor does not use it |
| Consensus, `consensus/` | none | `await_consensus` (polls a group until a deadline), `evaluate`, `is_satisfied` | registry |
| Guardian, `integration/guardian.rs` | none | sensor: error rate, stuck agents; actuator: `Block` writes `Cancelled` | registry |
| Status server, `status/` | none | `/health`, `/agents`, `/agents/{id}`, search for a free port | registry |
| Types, errors, events, grounding | data only | - | - |

What makes it hard:

* a record has four kinds of writers (its task, `cancel`, the guardian, `remove`)
  and the registry checks no transition;
* `JoinHandle::abort` sets a flag; a task in the middle of a poll goes on to
  its next await point;
* the permit of an aborted, failed or panicking task must come back, also
  when the semaphore handed it over just before;
* what belongs together is written in two steps (result and `Done`, `Error`
  and message), with readers in between;
* the queue looks at the heap under the mutex and goes to sleep outside it;
  a `Notify` stores one wake-up at most, and `notify_waiters` stores none;
* group operations, consensus, guardian and status work on scans that are out of
  date, or that never existed;
* the future of `spawn` may be dropped after the task is there and before its
  handle is.

What makes each component correct:

* supervisor: at most `max_concurrency` tasks between acquire and end, permits
  conserved, every task stops, every task that completes leaves a terminal
  record, `Done` comes with its result, `cancel` can reach every live task,
  `wait_for` returns neither early nor never, no directory stays behind; where
  the code falls short of one of these, the property names the exception;
* registry: records follow the lifecycle of `agent/mod.rs:14-20`, with two
  arrows that its picture leaves out;
* queue: bounded, most urgent and oldest first, nothing lost or twice, nobody
  sleeps while there is something to do, `None` means closed and drained;
* consensus: a verdict says what the records say, the votes behind it stand, a
  majority of the whole group is never overturned, the call ends by its deadline;
* guardian: a signal is raised for what is there, and for all that is there; a
  blocked agent stops;
* status: counts within bounds, a start that fails for a cause only.

## 2. The modules

| Module | Models |
|---|---|
| `AgentState` | the states and `is_terminal` |
| `Registry` | the atomic operations on one record, as action fragments; `"Absent"` stands for an id without a record |
| `RegistryScan` | `get_group`, `by_state`, `snapshot`, `count_by_state`, `len`, shard by shard |
| `WaitLine`, `Semaphore`, `Notify` | the tokio primitives, from how the crate uses them (external) |
| `Supervisor` | `spawn`, `cancel`, `wait_for`, the agent task, `Block`, `remove`, all in parallel |
| `Consensus` | the rules, `is_satisfied` and `evaluate`, as operators on a scan |
| `GroupSupervision` | `Supervisor` with `spawn_group`, `wait_for_group`, `cancel_group` and `await_consensus` |
| `AgentLifecycle` | abstract: what the records promise |
| `Priority` | the priorities, their weights and their order |
| `PriorityQueue` | the queue, with dropped futures and `close` |
| `WorkQueue` | abstract: what the queue promises |
| `Observers` | readers of the whole registry next to its writers, with a clock |
| `Guardian`, `StatusServer` | on `Observers`: the sensor; `start`, `start_on_port`, `GET /health`, `GET /agents` |
| `Monitor` | the last two on one registry |
| `MCSupervisor`, `MCGroupSupervision`, `MCPriorityQueue`, `MCMonitor` | instances for TLC |
| `SupervisorProofs`, `PermitProofs`, `RecordProofs`, `ClientProofs` | theorems about `Supervisor` |
| `GroupProofs`, `MonitorProofs`, `NotifyProofs`, `QueueProofs` | theorems about `GroupSupervision`, `Monitor`, `Notify`, `PriorityQueue` |

### Supervisor

One step is what one caller does on one registry entry, on the semaphore,
under the handles mutex, or on the file system. `task[a]` is the place of the
agent's task in `spawn_task_inner`:

    ready -> acquire -> (waiting) -> create -> enter -> execute -> report
          -> serialize -> finish -> cleanup -> exit -> finished
    create, execute, serialize -> fail -> failmsg -> cleanup or exit
    ready, waiting, execute -> dropped (abort)
    execute, serialize -> panicked

`outcome` is the failure on its way to `set_error`, `aborted` the abort flags,
`contexts` the directories, `handles` the keys of the handle map, `lock` the
`cancel` that holds its mutex (the `if let` of `cancel` keeps the guard while it
updates the registry; the other users of the mutex hold it for one step).
`spawner` and `waiter` are the progress of the calls of `spawn` and `wait_for`;
`snapshot` is the record that `wait_for` read and returns after it got the mutex.

`AbandonSpawn` drops the future of `spawn` while it waits for the mutex: the
JoinHandle goes with it, the task is detached, and no `cancel` reaches it.

A flagged task that stands at an await point may be dropped, or go on (a
worker that was already polling it). The error arm of `semaphore.acquire()` is
left out: nothing closes the semaphore. Time is left out: `Execute` may end
in a timeout whenever `"timeout"` is among the `Faults`. Values, messages and
ids are model values.

The agent's own code runs in `execute` and, as the `Serialize` of its output, in
`serialize`; it may panic in both, which unwinds the task and leaves its record
in `Executing` or `Reporting`.

The callers are limited by constants: who is awaited, may be cancelled,
blocked, removed, abandoned, whose code may panic (`Panicky`), and which `Faults`
occur (`mkdir`, `rmdir`, `failed`, `timeout`, `serialize`).

`AgentLifecycle` is the picture in the comment of `AgentState`
(`agent/mod.rs:14-20`) with two more arrows, kept apart as `FailEarly`. The
picture draws `Error` as an outcome of `Reporting` only; in the code a context
that cannot be made leads there from `Acquiring` (`supervisor.rs:203`), and an
execution that fails or times out from `Executing` (lines 229, 234). So what the
refinement shows is not the picture to the letter, and could not be. The picture
also draws `Cancelled` after `Executing` only; `cancel` and `Block` write it over
any state, and the refinement leaves their agents out. `RecordChangesAreKnown`
(section 4) keeps the three apart.

### PriorityQueue

`push[i]` and `pop[p]` are program counters: `try` (under the mutex), `full` /
`check` / `listen` (between the mutex and `notified()`), `wait` (in the line of a
Notify), `notify` (between the mutex and `notify_one`). The heap is a set; a
pop takes an item that no other precedes under `WorkItem::cmp`. `close` is its
three steps. `PushDrop` and `PopDrop` drop a future that waits, and tokio passes
on a wake-up it had received. `arrivals`, a history variable, lists the items
of the heap in the order of their pushes and is the buffer of `WorkQueue`.
`SeqMod` is the 2^64 of the sequence counter.

### GroupSupervision

Everything `Supervisor` lets happen goes on (`SupervisorStep`); `SpawnMember`
spawns the members of the group one after the other. Each caller makes one
call: `call` is the call, `at` its place, `shard` and `seen` its scan. DashMap
locks one shard at a time, so `ReadShard` clones the members of one shard and
the other steps fall between two shards. Then the caller decides:
`WaitDecide`, `JudgeDecide` and `CancelGroup` are the bodies of the loops after
the scan, and a loop that goes on starts a new scan. `Expire` passes the
deadline of `await_consensus`. `cancel_group` works off `todo` with the very
steps of `cancel` (`CancelBegin`, `CancelEnd`) and ignores an agent without a
handle, as the code does. `known` is a history: the members that the last scan
cannot have missed, because they were registered (for `cancel_group`: spawned
to the end) when it began.

A rule is used once, in the decision, so it is chosen there. A quorum is an f64,
and `num / den` is its value to the last bit: the fraction 0.28 of the caller is
already above 28/100, and asks for 8 agents of 25. The code multiplies it by the
total, which is rounded to an f64, and rounds up to an integer. The first
rounding can only lose: a product just above an integer may come out on that
integer, and `down` lists the totals at which it does; a product cannot come out
above an integer it is not above, because integers are representable and rounding
is monotone. `Precision` bounds the loss to one part in that many, 2^53 for f64,
and `MayRoundDown` says where one can occur. `num <= 0` stands for everything
that `as usize` makes 0 of (zero, negative numbers, NaN, which is `num = 0`,
`den = 0`), and `num > 0`, `den = 0` for infinity, of which it makes a number that
no group reaches. The sort that finds the winner does not fix the order of ties, so
`Winners` is a set and any of its values may be returned.

### Monitor

The readers change nothing that another reader sees, so one works at a time:
`view` is what it is about. The writers (`Write`: register, update, touch,
remove) act between any two shards, and `Tick` moves the clock up to `MaxTime`.
`updated_at` and `stamps` are ticks; `StuckAfter` stands for the ten
minutes of the sensor, `Threshold` for its error rate, as a fraction. Results are not in the
model: the readers look at state and `updated_at` only. `ever` is a history
that collects what each agent has been since the reader began, so `Always(s)`
and `Sometimes(s)` bound what a correct scan can report. `start` probes the
ports `1 .. LastPort` in order, lets go of the one it could bind, and binds it
again. `unusable` are the ports that cannot be bound at the moment, for whatever
reason: another process has them, the system refuses them, or no socket is to be
had and it is all of them. The code tells these errors apart nowhere.
`Environment` changes the set at every step of a search. `busy` is a history: the
ports that were unusable at some moment of the search and, once a port was
found, those that became so since.

### Conventions

Operators introduced by "Fault:" are never part of a specification: each is a
plausible mistake in the definition below it, and `PROJECT.json` says which
property notices it.

## 3. What the runs show

All configurations set `CHECK_DEADLOCK FALSE`: every system here stops when all
calls have returned.

| Run | Instance | Shows |
|---|---|---|
| `supervisor_safety` | 2 agents, 1 permit, every caller, panics, 3 faults | types; completed tasks leave terminal records; `Done` has its result and no error, also in what `wait_for` returns; an `Error` without its message means that the task is about to write it; what a task reported is replaced by `Cancelled` only; `wait_for` is not early; live tasks are within reach of `cancel`, but for a blocked one whose handle `wait_for` dropped; no directory left |
| `supervisor_permits` | 4 agents, 2 permits, all may be cancelled or panic | the concurrency bound; permits add up, none free while somebody waits; no parked task falls out of the line |
| `supervisor_liveness` | 2 agents, 1 permit, every error path; one agent may also panic, be cancelled and be blocked | every task stops; every `wait_for` ends unless the record is stranded; the record of the agent that nobody touches implements `AgentLifecycle`, progress included |
| `queue_safety` | 3 items of 2 priorities, 2 places, 2 poppers, close, one push and one pop may be dropped | types; `None` is final; not all poppers sleep next to an item; the queue implements `WorkQueue` |
| `queue_workers` | 3 pushes, 1 place, one worker and one `try_pop`, close, dropped push and pop | a sleeping push stays reachable; accepted items are handed out; every push on an open queue returns |
| `groups` | a group of 2 agents in 2 shards, 1 permit; one caller, one of the three calls; `a1` may be cancelled on its own, `a2` may panic; rule `Majority` | types; no scan misses a member; a group wait is not early; votes stand; dissent is final, but for members seen `Cancelled`; `cancel_group` reaches whom it can; every group call ends, except a `wait_for_group` on a stranded member |
| `consensus` | a group of 3 agents, 2 values or a failure, `await_consensus`; every rule, quorums of numbers with three significant bits | consensus is declared if and only if the rule, as documented, says so, up to the last bit of a product; a majority stands, whichever rule asked for it |
| `monitor` | 2 agents in 2 shards, states Queued, Executing and Error, clock to 2, threshold 3/10, 2 ports | types; scans are regular; signals are justified and complete; `/health` is within bounds; `start` fails for a cause |

Runs that find a disagreement between the code and what it says of itself:

| Run | Statement | What happens |
|---|---|---|
| `blocked_stays_cancelled` | the actuator cancels stuck agents (`guardian.rs:4`) | `Block` only writes the record; the task goes on and overwrites it |
| `cancelled_wait` | `wait_for` waits for a terminal state (`supervisor.rs:143`) | the task overwrites `Cancelled` by `Executing` and is then dropped; the record never ends |
| `pop_sleeps` | `pop()` blocks when empty (`priority.rs:51`) | two wake-ups coalesce, a second popper sleeps next to an item |
| `close_missed` | all waiters observe closure (`priority.rs:174`) | a pop between its look at the flag and `notified()` sleeps for ever |

Consequences of the code that the properties admit and that have no run of
their own. In `Supervisor` and `PriorityQueue`:

* `cancel` overwrites `Done` while the handle is still in the map, against
  "terminal (no further transitions)" of `agent/mod.rs:40` (`OutcomeIsFinal`
  lets `Cancelled` through and nothing else);
* `Error` is entered from `Acquiring` and `Executing`, and `Cancelled` from every
  state, against the picture of `agent/mod.rs:14-20` (see section 2);
* `wait_for` may return an `Error` record without the message that
  `agent/mod.rs:86` promises (`ErrorWindow` says how long that can last);
* an agent whose code panics, and one that was cancelled in the middle of a poll,
  leaves a record that nobody finishes, and `wait_for` polls it for ever; so it
  does where `max_concurrency` is 0, because no task ever gets a permit
  (`WaitEnds` excepts the three);
* `wait_for` on a blocked agent returns at once and drops the handle; the task
  works on, and `cancel` answers `AgentNotFound` (`LiveTaskHasHandle` excepts it);
* a second pusher may sleep next to a free place, the mirror image of
  `pop_sleeps`.

In groups and consensus:

* while `spawn_group` is at work, `wait_for_group` and `await_consensus` see a
  part of the group, may return with it, and a majority of that part may be
  overturned; `GroupWaitSound` speaks of `known`, `MajorityStands` of the whole
  group;
* `cancel_group` skips a member whose handle is not in the map yet, or that was
  marked `Cancelled` by `Block`; an abandoned spawn stays out of reach for good;
* "not achieved" counts a `Cancelled` member as finished, although one that was
  aborted in the middle of a poll, or blocked, can go on, become `Done` and hold
  the result that was missing; `DissentIsFinal` excepts it;
* `MinAgree(0)` and a `Quorum` of 0, of a negative number or of NaN hold without a
  single vote, a `Quorum` of infinity never;
* a quorum may be met by one agent too few where its product is rounded down to
  an integer (`Quorum(0.33333333333333337)` of 3 asks for 1);
* `winning_value` is there although the rule does not hold, and among ties it
  depends on the order of the map;
* `ConsensusTimeout.achieved` is the number of agents that are `Done`, whatever
  their values (`consensus/mod.rs:76-86`, against `error.rs:54`).

In the readers:

* counts are torn, and a signal may be raised at a rate the registry never had;
  `ErrorSignalJustified` gives the bounds between which it can be wrong;
* only agents in `Executing` are reported stuck, though `guardian.rs:68` speaks
  of non-terminal states, and nothing looks for the queue saturation of
  `guardian.rs:3`;
* total and counts of one `/health` need not agree;
* `start` can fail with an I/O error while ports are free, when the one that was
  found cannot be bound a moment later; and with `NoAvailablePort` while all are
  free, when binding fails for another reason; `start_on_port(0)` listens on a port of the
  system's choice and records 0.

Why the bounds are enough. Two agents and one permit already produce every
position of a task against every position of another, and every order of
writers on one record; properties of one record do not depend on a third
agent. In `supervisor_liveness` one of the two has everything happen to it and
the other only fails: with both touched there would be no record left to
refine, and a third agent would have to wait longer for the same events. The
line of the semaphore needs two waiting tasks behind two holders
for a withdrawal from its middle and a handover to one of several: four
agents, two permits. In `queue_safety` two of the three items have one
priority, so the heap orders by priority and by sequence, and two places are
fewer than the items, so `push` and `try_push` both meet a full queue; two
poppers are enough for wake-ups to coalesce. In `queue_workers` three pushes
into one place leave two of them waiting, and the `try_pop` frees places behind
the worker's back. `SeqMod` equals the number of items: the wrap at 2^64 is
outside the runs, and order among equals is claimed for fewer than 2^64 pushes.
In `groups` two shards are the least that a scan can be torn between, and two
agents produce a group that is half spawned, half finished or half stranded.
The group caller and the caller of `cancel` on `a1` contend for the mutex; two
callers of group calls share nothing else but the records. The values do not
matter for these properties, and `consensus` has two of them and three agents:
agreement, ties, majorities and minorities, and a majority that is not
everybody. Its `Precision` is 8, numbers of three significant bits, so that the
edges of the arithmetic occur on a group of three: 3/8 of 3 is 9/8 and comes out
as 1, where the ceiling is 2; 5/8 of 2 and of 3 is rounded up; NaN is there too.
Neither run has a blocked agent, which the theorems of section 4 cover, as they
do what is larger. In `monitor` the two agents in two shards are the least a
count can be torn between, one agent in Error of two is a high rate and two of
two a critical one, a clock of 2 holds one interval longer than `StuckAfter`, and
of two ports one can become unusable behind the probe and one before the bind.
`supervisor_safety`, `supervisor_permits` and `consensus` use symmetry: their
agents have the same callers, the members of the group share one shard, and
`OutcomeIsFinal`, the only temporal property there, speaks of single steps.

Fairness. A task that can go on is polled by the runtime (weak fairness of
`TaskStep`, of the steps of a push or a pop that was called, and of the rest
of a `spawn`, `cancel`, `wait_for` or `close` that has begun); `agent_timeout`
bounds `execute`. Nobody has to make a call. Once a group
call has begun, its caller is polled and the clock goes on (weak fairness of
`CallerStep` and `Expire`). `WorkerSpec` adds that the
poppers which use `pop` call it again, as a worker loop does; those that use
`try_pop` need not come back. The runs on sleeping pops do without it.

Conditions in the properties. `TasksStop` and `WaitEnds` assume a permit to go
round, `MaxConcurrency > 0`. `WaitEnds` and, for `wait_for_group`, `GroupCallsEnd`
except a record that is `Stranded`: its task was aborted or has panicked, it is
not terminal, and no `cancel` is about to make it so. Nothing else is excepted,
cancelled and blocked agents included, and `StrandedRecords` proves which tasks
leave such a record; without the exception `cancelled_wait` shows the opposite.
`ImplementsLifecycle` speaks of the agents that nobody cancels, blocks or removes
and whose code does not panic, next to one to which all of this but the removal
happens. In the run that is one agent, so the run shows the arrows and the
progress; that no more than `max_concurrency` agents are at work is shown for any
number of them by `RecordsFollowLifecycle`. `PushReturns` stops at a close, see `close_missed`.

## 4. What is proved

For every set of agents, finite or not, every number of permits, and every
choice of callers and faults, from the named assumptions of the modules: `None`
is no value, no error, no record, no agent and no severity; `MaxConcurrency`,
the capacity of the queue and the times are natural numbers; the sets of
callers are sets of agents; every agent has a shard; a group is finite and its
rules are rules; the agents of the readers are finite in number; thresholds are
fractions; a quorum is any f64, rounded down only where `Precision`, a positive
number, lets it be.

The supervisor:

* `TypeCorrect`: `[]TypeOK`, one lemma per group of variables on top of one
  lemma per operation of the registry and of the semaphore.
* `ConcurrencyBounded`, `PermitsConserved`. Neither is inductive: that a
  release gives back a permit that was taken needs to know who owns one. The
  invariant `PermitInv` says so in three parts: free and owned permits make up
  the budget (`PermitCount`); tasks between acquire and the end own a permit,
  owners are such tasks or parked ones that were handed theirs
  (`PermitOwners`); the line holds parked tasks without a permit, each once,
  and is empty while a permit is free (`LineOK`). The uniqueness in the line is
  what makes a handover preserve the count and a withdrawal remove the task.
  That every parked task owns a permit or is in the line is `ParkedInv`.
* `SemaphoreIsWorkConserving`: whoever is parked without a permit is so because
  `max_concurrency` others own theirs, and one of these is past acquire or has
  been woken. `PermitsAreGrantedInOrder`, an action property: places in the line
  only improve and nobody gets a permit past somebody who stays in it, although
  aborted tasks withdraw from the middle. Together with
  `TasksNeverGoBack` (every action that moves a task moves it forward, and a
  `spawn` finds one that was never started) these are the safety facts behind
  `TasksStop`: a task that waits is not forgotten, not overtaken, and those
  before it have at most fourteen moves each.
* `CompletedTasksAreTerminal`, `DoneRecordsHaveResults`. `RecordInv` lists for
  every position of a task the states it can have left in its record
  (`StateMatchesTask`: anything else is `Cancelled` or gone), that a fault is
  known only on the error path and before the message (`FaultOrder`), and that
  the result precedes `Done` (`ResultOrder`).
* `ErrorsGetTheirMessage`, from `RecordInv` and from the fact that a task on an
  error path knows its fault; `OutcomesAreFinal`, an action property: at every
  place where a task writes a state, `StateMatchesTask` excludes `Done` and `Error`.
* `RecordChangesAreKnown`: the registry writes any state over any other, so that
  the documented machine (`agent/mod.rs`) is a claim about its callers. With
  `StateMatchesTask` every change of any record is one of the arrows that are
  drawn there, an `Error` from `Acquiring` or `Executing`, which is not drawn, a
  removal, a `cancel` under the mutex, a `Block`, or what the machine rules out: a
  task that goes on over `Cancelled`. There is no seventh case.
* `WaitIsNotEarly`, from `RecordInv` and from where `Cancelled` can come from
  (`OutsideInv`): what `wait_for` has read stays true of the task.
* `StrandedRecords`: of the tasks that have stopped, those that leave a record
  which is not terminal were dropped by `cancel` at an await point or panicked in
  the agent's own code. A task is dropped only with its flag set (`AbortInv`), and
  at every other end the record is terminal. This is the safety half of the
  exceptions that `WaitEnds` and `GroupCallsEnd` make.
* `LiveTasksAreReachable`: a handle leaves the map by `cancel`, which flags the
  task, or by a `wait_for` that has read a terminal record. By `WaitIsNotEarly`
  that is the record of a task past its work, or of one that was cancelled or
  blocked.
* `AbortedOnce`, an action property: a handle is in the map only after `spawn`
  returned and never after a `cancel` took it (`HandleInv`), so a task is flagged
  once, by the `cancel` that then holds the mutex.
* `ContextsAreRemoved`, from `ContextOrder`.

* `RecordsFollowLifecycle`: the safety part of the refinement. The records of the
  agents that nobody touches and whose code does not panic implement the steps of
  `AgentLifecycle`, whatever happens to the others, its bound on agents at work included. An untouched task is
  never aborted, so its record says what it wrote last (`UntouchedInv`); whoever
  is at work owns a permit, and a task that enters owns one without being at
  work yet (`RoomForOneMore`).

Groups:

* `GroupsImplementSupervisor`: every step of a group call is a step of
  `Supervisor` or leaves its variables alone, so that all theorems above hold
  with groups as well. The others use them.
* `GroupTypeCorrect`, with the owner of the mutex (`LockOwner`).
* `GroupWaitsAreSound`, `VotesAreKept`, `DissentFinal`, `CancelsReachTheGroup`
  share the invariant `CallInv`. A clone is old, but what it says of a
  finished agent lasts (`CloneOK`): its task is past its work, or the clone says
  `Cancelled` and somebody wrote that from outside, and a vote keeps its value,
  whatever `cancel` and `Block` do. A member that
  is known is in the clones of the shards already read (`ScanOK`). What was
  returned was decided on such clones (`ReturnOK`), and a member known to
  `cancel_group` is still on its list or has been reached (`CancelOK`).
* `AchievedByRule`: `is_satisfied` asks for no more than the rule's wording
  (`CeilIsExact`), whatever the quorum, and for no less (`CeilCovers`) but where
  the product is rounded down, and then by one part in `Precision` at most
  (`FloorNearlyCovers`).
* `MajorityIsFinal`: two values cannot have more than half of one group, and
  votes that were counted are still there. It speaks of every rule that asks for
  more than half (`Decisive`), quorums included; `DecisiveRules` names them.
* `ConsensusIsConsistent`: two callers may look at any two times. What they saw
  of a finished agent agrees (`ClonesAgree`, by `CloneOK` against the records at
  the time of either scan), and two majorities of a group have a member in
  common.
* `MajoritiesAreUnambiguous`, `TiesAreHarmless`: `evaluate` takes the maximum
  over a hash map. A majority is the only maximum, and among equals the order
  of the map decides what is named and nothing else. That there is a maximum at
  all (`SomebodyLeads`) is found without induction: the votes that a value lacks
  are naturals, and a non-empty set of naturals has a least element because `<`
  on them is well-founded (`LeastNatural`).
* `CancelsAreCountedOnce`: callers of `cancel_group` walk lists that were read
  before the mutex was taken. The member that the owner of the mutex is about to
  count is in nobody's count (`CountInv`), because its handle left the map just
  then and flags are kept (`FlagsAreKept`).

The queue:

* `Notify` first: `Sound` says that a future is in line once, or woken, never
  both, and that a permit is stored only while nobody waits; each operation
  keeps it, and a notification is kept, stored or handed over until it is used.
* `QueueTypeCorrect`, `NoneFinal` from invariants of the heap (`StoreInv`), of
  the two sides (`PushSide`, `PopSide`) and of the closed queue (`EndInv`).
* `ItemsAreTended`, `SleepersAreReachable`: `SomebodyTendsItems` and
  `SleepingPushReachable` say nothing of the moment between a look and a
  sleep; `Tended` and `Reached` name who is on the way then.
* `ItemsAreHandedOutOnce`: an item leaves the heap only into the hands of one
  pop, is then in nobody else's and never enters again.
* `NobodyWaitsForEachOther`, a consequence of both: on an open queue with room
  for an item, where all poppers sleep and a push sleeps too, another push is
  about to announce its item or to try again. If the heap is empty that is
  `SleepingPushReachable`, otherwise `SomebodyTendsItems`.
* `QueueImplementsWorkQueue`: for fewer items than sequence numbers, the queue
  implements `WorkQueue`. The counter is the number of pushes and sequence
  numbers increase along `arrivals` (`Numbered`), so the heap's order among
  equals is the order of arrival; `SeqMod` is any number larger than that of
  the items, 2^64 included.

The readers:

* `MonitorTypeCorrect`, with the range of the port.
* `ScansAreRegular`, `StuckSignalsAreJustified`: the history holds what an agent
  is (`PresentInv`), shards not read yet have no clones (`FreshInv`), and an
  agent that was read in time, or overdue, was so at that moment (`StuckInv`).
* `HealthIsBounded`, `ErrorSignalsAreJustified`: what was collected lies between
  the agents that were such all the time and those that were at some moment, so
  do the counts, and a rate grows with its numerator and falls with its
  denominator.
* `CalmScansAreExact`: where no relevant write comes in between, a scan is the
  registry as it is, the counts and the total are those of its records, and the
  stuck signals are the overdue agents. The bounds above are what writes cost.
* `StartFailuresHaveCauses`: while the search goes on, the ports below the one
  tried are in `busy`; when it has found one, `busy` begins anew, and a port that
  is unusable then and was not when it was found is in it.

Only model-checked: liveness (`TasksStop`, `WaitEnds`,
`ItemsAreTaken`, `PushReturns`, `GroupCallsEnd`) and the progress that
`ImplementsLifecycle` claims. Fairness and ENABLED are out of the prover's reach.

## 5. Plan

*Done*: the supervisor on the registry, the queue, groups and consensus, the
readers, and the theorems of section 4: every safety property that a passing run
checks is also proved, next to properties over more agents, callers and calls
than a run can hold.

*Left*: `GET /agents/{id}` and the filters of `GET /agents`, which add one `get`
and a choice among clones; the two numbers of `ConsensusTimeout`; the order of
equals across the wrap of the sequence counter, after 2^64 pushes.

## 6. Not modelled

* `integration/events.rs`: data types that nothing emits.
* `grounding.rs`, `lib.rs`: declarations.
* `error.rs`: values; calls that return one end in a position of their own. The
  numbers of `ConsensusTimeout` decide nothing and are left out.
* Artifacts of a context: file I/O inside one task.
* HTTP: routing, JSON, `GET /agents/{id}` (one `get`) and the filters of
  `GET /agents`, which look at clones only; a group filter that does not parse
  is ignored.
* Guardian: `Alert` and the other actions of the actuator change nothing; of a
  signal the models keep the severity and the agent, not its description, which
  names the agent by the first eight digits of its id.
* Priorities of agents: stored in the record, read by nobody; permits are
  given in the order of the requests.
* The `Display` of ids: eight digits, which could repeat; nothing looks an agent
  up by them.
