# Verification of the AIOS agent runtime of `rust_tools`

`rust_tools` is a collection of command line tools; the one with a life of its
own is `a`/`ai` (`src/bin/ai`), an agent runtime built on a small in-process
"operating system" for LLM agents (`crates/aios_kernel`). Agents are processes:
they are spawned, wait for each other, sleep, signal and kill each other, share
channels, futexes and memory, and are scheduled by an event loop that runs their
turns as asynchronous tasks. A turn asks a model, runs the tools it calls and
records what was said in a session history that several processes share. That
kernel, that loop, the protocol of sub-agent tasks on top of them, the loop of one
turn and the history are the program's own concurrent and stateful core, and what
this project models.

## 1. Inventory

| Component | State | Operations | Interacts with |
|---|---|---|---|
| Process table (`aios_kernel/src/local.rs`) | `processes`, `ready_queue`/`ready_set`, `wait_queue`, `children_by_parent`, `wakeup_heap`, `current_pid`, tick | spawn, wait_on, sleep_current, kill, reap, signal, daemon restart, pop/requeue, advance_ticks | the loop and every turn, under one mutex |
| Event waits (`local.rs`) | `completed_events` and their order, `event_waiters`, `event_source_refs` | wait_on_events, notify_events_completed, wake_process, pruning, timeouts | channels, futexes, epoll, turns |
| Channels (`local.rs`) | `channels`: queue, capacity, holders, closed flag, event id | create, send, receive, peek, retain/release, close, destroy, GC | event waits, sub-agent tasks |
| Futexes and epoll (`local.rs`) | values, sequence numbers, waiters, registrations | CAS, add, store, wake, destroy; ctl, wait, destroy | event waits |
| Shared memory, resource limits, LLM ledger, daemon registry, trace, VFS (`local.rs`) | entries, counters, ring buffers, handles | create, charge, account, drain, register | turns |
| Scheduler loop (`driver/mod.rs`, `scheduler.rs`, `background_dispatch.rs`, `process_context.rs`) | dispatch meta, in-flight count, notification permit, clock | dispatch, resume, start, wait, finalise | process table |
| Sub-agent tasks (`tools/task_tools.rs`) | `TASK_REGISTRY`, result channel and completion futex per task, `TASK_WAIT_STATES`, durable evidence | spawn, wait, status, integrate, cancel, retry, time out, discard | channels, futexes, process table, loop |
| Turn runtime (`driver/turn_runtime`) | supervisor, retry counters, overrides of `app.cli`, `turn_messages` and what of them is persisted | request, retry, reopen, run tools, force a final answer, finalise | model, tools, history |
| Session history (`ai/history`, `driver/commands`) | SQLite file (messages, meta counters, context snapshot), checkpoint files, rollback manifest, context cache | append, truncate, reserve a turn number, compact, read, clear, delete, checkpoint, roll back, recover | turns of several OS processes |
| Tool storage, MCP, providers, terminal, command line utilities | files, subprocesses, HTTP | | outside the core |

The hard behaviour is in the interleaving. The kernel is one value behind one
mutex, so a kernel method is atomic; but the driver takes the mutex many times in
what looks like one operation (selecting a batch, preparing it, launching it;
looking for foreground work, then for background work, then opening the prompt),
and the turns it launched run between any two of them. A turn acts in the name
of its pid even after its process was woken, stopped, killed or dropped by
somebody else. Time is the loop's own (ticks advance only while it waits). The
history has the same problem with files in place of the kernel: a compaction reads
it, waits minutes for a model, and writes a summary over whatever became of it.
Each hazard is listed at its line in `PROJECT.json`.

What makes the components correct:

* process table: no lost wake-up (exit waits, timers), nobody stranded outside
  the ready set, nobody schedulable who must not run, the child index mirrors the
  parent chain, kills are complete, waits cannot be circular;
* loop: every running process is driven by a turn, the loop does not sleep with
  nothing to wake it (it does in one case, section 3), parked foreground processes are
  resumed;
* events: no lost notification, retention does not forget what is still waited
  for; channels: bounded FIFO, backpressure, closed only after draining;
* sub-agent tasks: one result per task, decided once, delivered once and as it was
  decided, whoever publishes it; an owner that is parked for results wakes; what a
  task used is gone once it is collected;
* turns: every retry is bounded, what was overridden for a retry is given back, a
  turn ends and leaves exactly one answer;
* history: a request shows each message once, however summaries and changes
  overtake each other; the counters that fence stale writers never go back; no turn
  number is used twice; a cached context is what the file holds.

## 2. Plan

Done:

1. `ProcTable` - the kernel's process methods as functions on a kernel record.
2. `AgentSched` - the loop, the turns and their system calls over `ProcTable`;
   `AgentSched_proofs` - the inductive invariant of the kernel and its theorems;
   `ProcTree_proofs` - the tree walks of `ProcTable` as recursive equations, and the
   least number principle for pids; `AgentTree_proofs` - the theorems about the process
   tree, about who runs and about who wakes the loop.
3. `EventTable` - completed events, waiters, channels and futexes as functions on a
   record; `EventWait` - processes that park on them, in every order;
   `EventWait_proofs`.
4. `TaskContract` - what the sub-agent protocol promises; `TaskPipe` (EXTENDS
   `ProcTable`) - the protocol, the loop and its turns, shown to implement it;
   `TaskPipe_proofs` - the pipes of the tasks and the refinement; `TaskKernel_proofs`
   (EXTENDS it and `ProcTree_proofs`) - what relates the pipes to the process table.
5. `TurnLoop` - the loop of one turn; `TurnLoop_proofs`.
6. `HistoryStore` - the history of a session; `HistoryStore_proofs`.

Left: `ReadyQueue` (lazy tombstones and cached priorities, refining a set with an
order), `ShmPerm` (cached permission decisions against the uncached walk),
`Rlimit`, `LlmLedger` (a ring against an unbounded log), `DaemonRegistry`,
mailboxes and the shared yield flag.

`TaskPipe` composes the process table with the channels and futexes of the tasks.
It does so over `ProcTable` alone and keeps of a channel and a futex what a task
makes of them (one message, two holders, one store), since `EventWait` has already
shown that whoever parks on sources is woken by each of their transitions.

### All runs

| Run | Module | Expected |
|---|---|---|
| `SchedWaits`, `SchedSignals` | `AgentSched` | pass |
| `EventAny`, `EventAll` | `EventWait` | pass |
| `Tasks`, `TasksLive` | `TaskPipe` | pass |
| `Turn` | `TurnLoop` | pass |
| `History`, `HistoryReads` | `HistoryStore` | pass |
| `DocAwakened`, `DocWaitAll`, `DocDeleted` | `AgentSched`, `EventWait`, `HistoryStore` | violation |

Deadlock is checked in no run: bounds on pids, ticks, messages and turns stop each of
the systems, and so does a user who asks nothing.

## 3. `ProcTable` and `AgentSched`

`ProcTable` keeps the shape of the code. The kernel is one value, `k`, and every
method of `LocalOS` is an operator from `k` to the next `k`; methods that call
each other compose (`SysKill` is `TerminatePids` of a `Cascade`). A process state
is a pair, `<<"sleep", t>>` for `Sleeping { until_tick: t }`. Data no step looks at
(goals, results, mailboxes, environments, quotas) is left out, as is the order of
the ready queue: `Dispatch` may select any full batch of what is ready (all of it, if it
fits), so whatever order the priorities and scores give is among the behaviours.

`AgentSched` has one thread of control for the loop (`loop` says where it is) and
any number of turns in flight. Each action holds the kernel mutex once:

| Action | Code |
|---|---|
| `Dispatch`, `Prepare`, `Launch`, `DispatchFails` | selection, first pass, second pass of `dispatch_background_batch`, `publish_background_task_failure` |
| `ResumeForeground`, `NoForegroundReady`, `FrontSignals` | `pop_foreground_ready`, `run_foreground_resume` |
| `GoToWait`, `StartForeground` | the checks before the prompt, the prompt and `begin_foreground` |
| `ClockWait` | `SchedulerClock::wait` |
| `EndBackground`, `EndResume`, `EndFresh`, `TaskDies` | the three ways a turn is finalised, and a task that panics |
| `Restart`, `RestartsDone` | `check_daemon_restart` and the requeue after it |
| `SysSpawn` ... `SysSignal` | the system calls, made by any turn in flight |

`EndBackground` joins the end of the turn and the drop of its in-flight guard, which
follows at once in the same task; `EndResume` and `EndFresh` are the code after
`run_turn` returns. `failed` is a history variable for the properties: some process
of this iteration's batch could not be dispatched. Only the interactive mode is modelled. The prompt answers whenever it likes, a
dispatch fails whenever it likes, a turn ends in success or failure at any moment.

### Runs

| Run | Question | Bounds |
|---|---|---|
| `SchedWaits` | exit waits, sleeps, kills and a daemon's restart never lose a wake-up, a process or part of a kill; waiting and sleeping foreground processes are woken | 3 pids, 1 tick, 2 turns per pid, batches of 2, 1 restart |
| `SchedSignals` | nobody is stranded and nobody schedulable who must not run, with signals, stop and continue above all, with reaping, and with turns that panic | 3 pids, 1 pending signal, 1 turn per pid |
| `DocAwakened` | `os_tools.rs` 163: a process is awakened when the one it waits for terminates | 3 pids, batches of 2 |

Three pids are a foreground process with a child and a grandchild, or with two
children: enough for a cascade, for a waiter that waits for a descendant of another
victim, for orphans and unreapable zombies. One tick distinguishes a timer that
is due from one that is not; `MaxInFlight = 2` lets a process be dispatched while its
previous turn is still running. `SchedWaits` has no panics (`TasksDie` is FALSE): a
background task that panics runs only its guard's `Drop`, so its process stays
Running with nobody to drive it, which `RunningIsDriven` excludes on purpose.
`SchedSignals` has them, and what the table promises holds all the same.

Fairness (`FairSpec`): the loop takes its steps (`LoopStep`), turns end (`EndTurn`,
`EndBackground`), because iterations and requests of a turn are bounded (this is
what `TurnEnds` of section 6 is about). Nothing obliges the user to type, an agent
to call, or a task to die. `SchedWaits` runs under `SteadySpec`, which follows from
it: the loop does not stay in the middle of an iteration, and no number of turns in flight is
there for ever. It says no more of the system and TLC evaluates it on states, in a
fraction of the time. What passes under the weaker assumption passes under
`FairSpec`, and the violation `DocAwakened` is found under `FairSpec` itself.

`DocAwakened`: the foreground process waits for B, and B for C. B's turn has ended, the loop
has used up its permit and selected C, whose history cannot be prepared.
`publish_background_task_failure` terminates C, which makes B Ready after the selection, and
calls `notify_scheduler` only inside `if let Some(addr) = completion_futex_addr`
(`scheduler.rs` 356). Processes of `spawn_process` have no such futex, those of tasks
do (hence the difference between the two `DispatchFails`). The loop finds no foreground
process Ready, a foreground process pending, and waits: no permit, an empty heap, no
turn in flight. Nothing runs again until somebody interrupts it. A process that
was Ready and did not fit in the batch is left in the same way if everybody in the batch
fails. `LoopCanWake` says that this is the only way to get there, and
`ForegroundWoken` excepts it and nothing else.

### What the code does that its documentation does not say

Met while modelling, and in the behaviours of `AgentSched`:

* a terminated process is revived by its own turn, if that turn sleeps or waits after
  the kill: `sleep_current` and `wait_on` set the state of `current_pid` without a
  look at it;
* a SIGTERM pending behind a SIGCANCEL is dropped with the rest of the pending
  signals once the first is delivered;
* a process runs in two turns at once when its sleep ends before its turn does;
* a foreground process that is woken before the turn that parked it has ended is
  closed by that end, since it is no longer parked then;
* a daemon without a parent is dropped from the table when it ends, so that it is never
  seen by `check_daemon_restart`.

None of them breaks an invariant of the table: the theorems hold with them.

### Proofs

`AgentSched_proofs` proves, for every number of pids and ticks and every set of
capabilities and signals, the type invariant and five safety invariants. The
argument is one inductive invariant, `IInv`: the loop's variables have their types
and the kernel satisfies `KernelInv`. `KernelInv` adds to the five invariants only
that a pid not yet allocated has no entry (`FreshPids`), without which a spawn could
overwrite a live process. Each kernel method preserves `KernelInv` on its own (one
lemma per method, `TerminateInv` being the heart of it), so the interleaving of
loop, turns and calls does not matter, and that is why the invariants hold although
the driver drops the mutex everywhere. The assumptions are the named ones of the two
modules (bounds are naturals, at least one pid, one turn and one selection).

`AgentTree_proofs` proves what needs the tree. `is_ancestor_of` walks up the
`parent_pid` chain, the kill cascade walks down `children_by_parent`; that the two agree
is not a matter of one step. Both walks are recursive functions on pids.
`ProcTree_proofs` unfolds them (`AncestorStep`, `DescendantStep`), and the proofs reason
about them by the least number principle (`LeastPid`): the smallest process that is below a victim going up
and not going down would have a parent that is smaller still. The inductive invariant is
`TreeInv`: children are younger than their parents, the index misses no child of a
process of the table, and waits go down. It gives `ChildIndexComplete`, `WaitsGoDown` and,
with `AncestryIndexed`, `KillIsComplete`. `ChildIndexComplete` speaks of parents in the
table only: a daemon that is restarted leaves children behind whose `parent_pid` names
nobody.

`RunningIsDriven` is proved under the assumption `~TasksDie`, with `DrivenInv`: a batch
is at hand only in the phase that works through it, and a fresh foreground turn runs
alone, so that `current_pid` still names its process when `EndFresh` finalises
whatever `current_pid` names, or that process does not run any more.

`LoopCanWake` is proved (`LoopWakes`) under `~TasksDie` and without SIGSTOP among the
signals, since a stopped process keeps the loop from its prompt with nothing in flight
until somebody continues it, and an abandoned one is waited for in vain. If no dispatch
failed, nobody is Ready, since the loop found nothing to dispatch, and whoever is Ready
after a failed one is a background process, since it found no foreground process either
(`QuietInv` keeps what it saw on its way to the wait). It remains to show that somebody is.
If nobody were, with nobody asleep, since the heap is empty, the foreground process the
loop waits for could only wait for an exit. The youngest process that does waits for one that is
younger still and so does not wait: it is Stopped or Running (`StuckBelow`), and who
runs has a turn by `RunningIsDriven`.

Only model-checked: the liveness properties.

Two things the loop does not promise are not stated as properties: a process that
becomes Ready while the loop is on its way to the prompt is dispatched after the
user's next question, and ticks stand still while the prompt is open, background
sleepers included. No fairness of the user would be justified.

## 4. `EventTable` and `EventWait`

`EventTable` treats the event half of `LocalOS` as `ProcTable` treats the process
half: a state is one record, `e`, and each method an operator on it. An event is a
number, as in the code; ids `1..MaxEvent` are those the kernel allocates for its own
objects (`next_internal_event_id`), `Outside` are ids that come from elsewhere. A
channel or futex is a slot used once, since ids are never reused. Each of them owns
one event, counted in `refs` (`event_source_refs`), that stands for its next
transition: `Rotated` completes it and puts a new one in its place.

The agent parks through `epoll_wait_many`, which looks at the sources and parks on the
events of those that are not ready, under one lock. `WaitMany` is that call; its
temporary epoll set is created and destroyed within it and leaves no trace, so it has
no state here. `RawWait` is the kernel's own `wait_on_events`. `EventWait` has one
action per call and one per change of a process by others (signals, kills, ticks, the
wall clock of `task_wait`). `parked` is a history variable: what a waiting process
asked for, the events that were completed since, and whether one it waits for was
pruned.

| Run | Question | Bounds |
|---|---|---|
| `EventAny` | no wake-up is lost, events have one owner each, holders are counted | 2 processes, 1 channel of capacity 1 with 2 holders, 1 futex, 1 outside event, 4 ids, retention 1 |
| `EventAll` | waits for all of several events end, timers are armed, the log of completed events is bounded | 2 processes, 1 futex, 2 outside events, 2 ids, 1 tick, retention 2 |
| `DocWaitAll` | a wait for all outlives its condition once an event was pruned | 1 futex, 1 outside event, retention 1 |

Small retentions make almost every completion prune. Four ids let channel and futex
rotate once, or one of them twice; two processes are a waiter and one who changes the
source, or two waiters on one source. Two sources per wait suffice for the
difference between any and all. `EventAll` waits directly as well because only
`wait_on_events` registers waiters on events that are completed already, the live
entries pruning has to put back. `MaxHeld = 1` leaves out a holder that is named
twice: its references are added up in one slot of the list and counted the same way.

`NoMissedSource` is about what the agent asked for, not about event ids: a source that
was ready, drained and is ready again counts. It holds because the look and the
parking are one critical section, because each transition to ready completes an
event, and because a destroyed channel was closed before.

`DocWaitAll`: when the first event of a wait for all is completed, its waiters leave the
index although they still wait. The comment there relies on `completed_events`, but
without waiters and owner the event may be pruned from it, and the wait is then for
an event that nobody completes again; should it be completed again all the same, the
waiter is no longer in its index. Without pruning (`RememberedWaitsEnd`) the wait
ends. `task_wait` parks on any of its sources, whatever policy its caller asked for.

Proofs (`EventWait_proofs`): `NoMissedSource`, `RememberedWaitsEnd`, `TimeoutsArmed` and
`SourcesOwnEvents`, and `TypeOK`, `HoldersCounted` and `RetentionBounded`, for any number of
processes, channels, futexes, events and ticks.
The proof goes in layers: what each method does to the fields of the record
(`Told` for a notification, `Slept` for a wait, `Hushed` for what completes nothing), then
what may happen to a wait or to the owners of events, then one lemma per action.
`NoMissedSource` is not inductive. That nobody sleeps on a ready source needs that the
sleeper waits for the *present* event of each of its sources (`Watches`) and is in the index
of every event it still needs (`Alert`), and that events are not shared, nor completed
before they are handed out (`Owned`): otherwise the rotation of one object could satisfy or
starve those who wait for another. `Alert` speaks of waits of which no completed event was
pruned, and of all waits for any: these lose nothing by pruning, as `DocWaitAll` shows that
waits for all do.

The other three need a second invariant, `Tidy`: the log is a sequence of events, and each
channel's queue is within its capacity and its `ref_count` the cardinality of the set of
references its holders have (`Counted`), none once it is destroyed. A count is so related
to a set, to which a retain adds one element and from which a release takes one away.
`Prune` sifts the oldest entries of the log one by one (`Survivors`); that it leaves live
events only is shown by the least index at which it could go wrong (`SiftExists`,
`SurvivorsLive`). `RetentionBounded` is an action property. A call prunes with the waiters
and owners of some moment within the step; `NextTidies` shows for every action that what is
live then was live before. No property of `EventWait` is left to TLC alone.

## 5. `TaskContract` and `TaskPipe`

`TaskContract` is what `task_tools.rs` promises, with none of its mechanics: a task is
new, running, ended, and then delivered or discarded. Its result is decided when it
ends, never changes, and leaves once. One call may move several tasks.

`TaskPipe` is the mechanics. A foreground process (the owner) spawns a process per task,
each with a result channel of capacity one and a completion futex; it parks on the
channels and futexes of several tasks; turns of the tasks publish; the loop ends tasks
that take too long; the agent cancels, retries, stops and kills them; the user deletes
the session they belong to. What makes it hard is that a result has many writers (the
task's turn, a cancel, the reaper, the failed dispatch, a scan that finds the process
gone) and that these act in the name of different processes, whose right to kill, send
and destroy differs.

| Action | Code |
|---|---|
| `Reap` | `reap_timed_out_subagents`, in the name of `current_pid` |
| `WakeExpired` | `wake_expired_task_waits` |
| `Dispatch`, `Launch`, `DispatchFails`, `ResumeForeground`, `ClockWait`, `Ask`, `EndTurn` | the loop, as in `AgentSched` |
| `Finish`, `Dies` | the end of a background turn with its publication; a future that panics or was aborted |
| `TaskSpawn`, `TaskRetry` | `spawn_subagent_kernel_task_attempt`, `task_retry` |
| `TaskWait`, `TaskWaitFails` | `execute_task_wait`: scan, collect, clean up, park; the scan that fails half-way |
| `TaskStatus`, `TaskStatusFails`, `TaskCancel` | `execute_task_status`, `execute_task_cancel` |
| `Discard` | `discard_tasks_for_session` |
| `OsKill`, `OsSignal` | the kernel's own calls on a task's process |
| `GrowsOld`, `Elapses` | the wall clock of a task, of a wait |

`Publish`, `WriteTerminal` and `CleanUp` are the three operations all of them are made of:
send, close, release and store; the same after a kill; and the release of both ends
with the removal of the process.

### Refinement

`Implements` is `Contract!Spec` under the mapping of `PhaseOf` and `ResultOf`. A task
counts as delivered once its result is in the durable evidence (`ledger`), as ended
while its channel holds a message, and as discarded when its session was deleted. That
is where the protocol commits: evidence is written before anything is released, so a
collection that fails in the middle leaves tasks delivered that are still registered,
and the next scan must not deliver them again with another status. It does not: a task that was
collected and is still registered has no channel, the scan fails there, and the ledger
stays.

### Runs

| Run | Question | Bounds |
|---|---|---|
| `Tasks` | the protocol implements its contract; a parked owner sees nothing and can be woken | 3 pids, 2 tasks, waits for all of both, panics, failing dispatches, stopped tasks |
| `TasksLive` | channels belong to collectable tasks, collected tasks are gone, a parked owner wakes | 3 pids, 2 tasks, waits for any of both, evidence that cannot be written |

Three pids are an owner with two tasks, or an owner with a task and its successor after the
next question, who is refused. Two tasks are what the difference between any and all, a
scan that fails after an earlier task, and a second attempt need. There are no
ticks: no process of this protocol sleeps on the kernel's clock.

Fairness (`FairSpec`): the loop leaves each of its phases and a foreground turn ends, the turns of
a task end (a future that was told to stop stops), budgets run out and tasks grow old.
The first three are written `[]<>` of what the step establishes, which is weak
fairness of that step, as each is enabled until it happens.

`OwnerAwakes` is not unconditional. The turn that parked its process goes on until it
ends, and may call `task_wait` again. That second wait, when its budget is used up, ends
without parking and takes the budget entry with it, so that the process stays parked
without one. If its tasks are then all stopped, the reaper passes over them, no source is
ever notified, and nobody wakes the owner. The property therefore speaks of owners with a
budget or with a task that can still end; `ParkedCanBeWoken` shows that each task an owner is
parked for is in the registry and has its channel, so that somebody could still publish
there, not that he must.

### Proofs

`TaskPipe_proofs` proves for any number of pids, tasks, policies and turns that a task
not yet collected keeps its pipe (`UncollectedCorrect`), that no pipe outlives its
registry entry (`PipeTrackedCorrect`), and that `TaskPipe` implements `TaskContract`
(`ImplementsContract`). The invariant, `PipeInv`, is one formula per task: which of
registry, ledger, pid and channel go together in each part of its life. It says
nothing about the kernel, which is why the proof does not depend on who may kill
whom: every change of a pipe is one of four moves (idle, spawn, collect, discard), every action
makes one of them for each task, and each move preserves the invariant and
maps to a move of the contract. The refinement theorem has the usual two steps, the
initial state and the step, each from that case analysis.

`TaskKernel_proofs` proves what does depend on it: `TypeOK`, `ParkedSeesNothing`,
`ParkedCanBeWoken` and `CollectedIsGone`. Each call of the kernel the protocol makes is
shown to be `Mild`: it keeps the table sound, creates no entry, cuts a child from its
parent only when one of the two has left, ends no foreground process and parks nobody. Mild
calls compose, so a handler made of any number of them, for any set of tasks, is mild;
what is left to look at are the spawn and the wait, which alone create and park. The
inductive invariant, `KInv`, adds to `PipeInv` that a task's process is its owner's child
as long as both are in the table, that nobody else is in the background
(`TaskFacts`, `Owned`), and that a parked owner is in the foreground and parked for
registered tasks whose channels are empty and whose futexes are zero (`WatchOK`). The
first is why a collection ends the process whatever state it is in: who collects is alive
and an ancestor, so that the kill is not refused. Only the liveness property is left to TLC.

## 6. `TurnLoop`

One turn, as `run_turn_body` and its helpers run it. The model, the tools, the loop
detectors and the parent's wrap-up signal are choices; the loop's own rules are not:
which counters an answer resets, which overrides a retry sets and who gives them back,
which gates a final answer passes and with which marker each is passed only once, what
withdraws the tools, what is pushed into the turn's messages and what of them is saved.

| Action | Code |
|---|---|
| `StartTurn`, `Finish` | `prepare_turn` and the locals of `run_turn_body`; its end and `finalize_turn` |
| `Ask` | the head of the loop up to the request |
| `Interrupted`, `WrapUpFinal`, `RequestFails`, `RoundFails` | outcomes of a request that are no answer |
| `EmptyResponse`, `StreamError`, `Truncated` | the three kinds that are retried, each with its counter |
| `FinalResponse` | the gates of `handle_final_response`, `record_final_stream_response` |
| `ToolCall` (`Refuses`, `Preflight`, `Runs`) | tools that were withdrawn, that need instructions read first, that run |

`row` is a history variable: the kind of the last answers, if they are retried, and how many.

Run `Turn`: two iterations, one empty answer and one stream error are retried, two
truncations, one round on the house, one halving of `max_tokens`, two turns. Each limit
is the smallest that has a step below it, at it and beyond it; the code's own values
(5, 16, 3, 8) differ in length, not in kind. Two turns are needed because the note of a refused
call is saved with the turn and found again by the next.

Fairness: the head of the loop, the answer and the end. A request has an end since the
client and the stream have timeouts. `TurnEnds` has a premise: from some point on, no
more than one kind of answer is retried. Without it a turn need not end: an empty
answer and a cut-off one reset each other's counter (`Calm`, `EmptyResponse`), and
answers that are retried count no iterations beyond the limit.

One line of the code has no effect: the third truncation in a row disables reasoning for
the next request (`orchestrator.rs` 4635-4645), but the turn ends with the third.

Proved, for all values of the limits: the type invariant, with the bounds of the counters
in it; `AnswerOnce`, `DowngradeIsTracked`, `GivesUpForReason` and `HandoffEnds`. The
inductive invariant adds to them how the counters and `row` correspond while the loop is
at work, and that a second refused call finds the note of the first. Only model-checked:
`TurnEnds`.

## 7. `HistoryStore`

One session and the processes that have it open. A file has its messages (row id and
identity), the sequence SQLite counts row ids with, a revision and a generation, the
next turn number, and a context snapshot: which messages it stands for, up to which
row, of which generation, and under which configuration.

| Action | Code |
|---|---|
| `Append`, `Truncate`, `Reserve` | `append_history_sqlite_for_model`, `truncate_messages_sqlite`, `reserve_turn_index_sqlite` |
| `ClearHistory`, `Delete` | `clear_session_history`, `delete_session` |
| `StartCompaction`, `FinishCompaction`, `GiveUpCompaction` | the read, the write and the failure of a compaction, with the model in between |
| `LookUp`, `ReadContext` | `build_context_history`: the key first, the file second |
| `Begin`, `Act`, `Restore`, `Remove`, `Fail` | an operation on checkpoints: lock and recovery, its work, the steps of a rollback, an error in one |
| `Switch`, `Crash` | leaving a session; the end of a process |

The messages of one turn stand for one: they are appended in one SQLite transaction.
A rollback is a transaction of its own over several files, with a manifest that the
next operation on checkpoints, or the next start, completes; the model may stop it
between any two steps.

| Run | Question | Bounds |
|---|---|---|
| `History` | a request shows each message once; turn numbers are unique; the counters go up | 2 processes, 2 messages, 3 revisions, 2 turn numbers, failures, files of an older version |
| `HistoryReads` | a cached context is what a read would give | the same, no turn numbers, with crashes and switching |
| `DocDeleted` | `session.rs` 578: nothing writes a session's file again once it is deleted | 2 processes |

Two messages are an older one in a summary and a newer one after it; two processes are one that
compacts and one that rewinds, of which one has another configuration (`Usual`), so
that the fingerprint matters; three revisions are a change, a rollback and another change.

`DocDeleted`: a compaction that is waiting for the model when its session is deleted finds
the generation it started with, 0, in the file it creates anew, and writes the summary
of the deleted messages there. The comment speaks of the sub-agents' futures, which are
ended first; the compaction is not among them. `ContextIsCanonical` is stated for files
this did not happen to (`stray`).

A rollback that failed after the file was replaced is completed by the next operation on
checkpoints or at the next start; what the session wrote in between is then replaced as
well. Nothing in the documents excludes that.

Proofs (`HistoryStore_proofs`), for all numbers of processes, messages and revisions: the
types and the lock, `ContextIsCanonical`, `CacheIsFresh`, `TurnIndexUnique` and
`CountersGoUp`. Each has its inductive invariant. `ContextIsCanonical` needs
`SnapshotsFenced`: not only the snapshot of the live file, but each compaction under way
and each file that may be put in its place, stands for exactly the rows up to its
mark, or is of an older generation. `CacheIsFresh` needs `ViewsFenced`: an entry, or a read
whose key was taken, is of the present revision only if nothing has changed since.
`TurnIndexUnique` needs `TurnsCounted`: the numbers handed out lie below the next,
which no rollback lowers. `AllRowsFine` (row ids lie below the sequence) is what
all of them rest on.

There is no liveness here: nothing obliges a process to come back and finish a rollback.

## 8. Proofs and what is beyond them

Thirty-five theorems are listed in `PROJECT.json`; the lemmas they rest on are in the same
modules and in `ProcTree_proofs`. Between them they state every invariant and every action
property that a passing run checks, and the refinement. Each assumes only the named
assumptions of its module on the constants; `WhoRunsIsDriven` and `LoopWakes` assume also
that no background task dies, and `LoopWakes` that SIGSTOP is not among the signals, as is
the case in `SchedWaits`, whose run checks both.

Model-checked only: liveness (in `SchedWaits` and `TasksLive`, and `TurnEnds`), since neither
ENABLED nor fairness is within the prover's reach. The library's induction theorems take an
operator as a parameter, which no installed prover can instantiate. Where a proof needs
induction, on the process tree and along the log, it goes by the least counterexample:
the least element of a set of numbers, from the theorems on well-founded relations.

## 9. What is not modelled

* Process groups, environment, working directory, mailboxes and priorities; persistent
  epoll sets and `futex_wake`, which the agent does not use; one-shot mode and hot
  reload of the loop; shared memory (the tools `shm_*`), limits, ledger and daemon
  registry (see the plan).
* Of the tasks: the choice of an agent and its model, progress texts, evidence as text.
* Of the turn: what the loop detectors compute, the compression of a context that is too
  long, the tools themselves.
* Of the history: forks, archives, titles, pruning, the assets of a checkpoint, the
  in-process cache of revisions (`sqlite.rs` 402).
* Model requests, streaming, MCP, terminal and the other command line tools: I/O or sequential
  text processing without shared state. The repository has 165000 lines, most of
  them such tools, providers and rendering; the modules map the stateful core, a small
  share of it.
