------------------------------ MODULE TaskPipe ------------------------------
(***************************************************************************)
(* Sub-agent tasks (src/bin/ai/tools/task_tools.rs): a foreground process  *)
(* spawns processes that work on a task each and publish one result in a   *)
(* channel of capacity one and a completion futex; it parks until results  *)
(* are there, collects them, cancels tasks, and the event loop ends those  *)
(* that take too long.                                                     *)
(*                                                                         *)
(* The processes are those of ProcTable, with its rules of who may kill    *)
(* whom; a wait for events is one more state, whose registration and       *)
(* wake-up modules EventTable and EventWait look at in detail.             *)
(***************************************************************************)
EXTENDS ProcTable

CONSTANTS MaxTask,     \* tasks 1..MaxTask may be spawned
          Asks,        \* the sets of tasks task_wait is called with
          Policies,    \* and its wait policies
          MaxInFlight, \* bound on the turns in flight for one task
          Faults       \* what may happen: evidence that cannot be written, turns
                       \* that panic or cannot be launched, tasks that are stopped

Task == 1..MaxTask

ASSUME PipeAssumption == /\ MaxTask \in Nat
                         /\ Asks \subseteq (SUBSET Task) \ {{}}
                         /\ Policies \subseteq {"any", "all"}
                         /\ MaxInFlight \in Nat \ {0}
                         /\ Faults \subseteq {"persist", "panic", "dispatch", "stop"}

Status   == {"completed", "failed", "timeout", "cancelled"}
NoStatus == "none"

\* Waiting { Events }: the state of an owner that is parked for the tasks of T.
Watching(T) == <<"events", T>>
IsWatching(s) == s[1] = "events"

VARIABLES
  k,        \* the kernel
  pipe,     \* per task: its result channel, futex and who holds the channel
  pid,      \* per task: its process, or None
  owner,    \* per task: the process that spawned it
  tracked,  \* the keys of TASK_REGISTRY
  ledger,   \* durable task evidence: how a delivered task ended
  budget,   \* TASK_WAIT_STATES: per owner, policy and tasks
  overdue,  \* tasks older than SUBAGENT_WALL_CLOCK_TIMEOUT
  aborted,  \* tasks with a Tokio future that was told to stop
  turns,    \* per task: Tokio futures in flight
  loop, front, picked, \* the event loop, as in AgentSched
  dropped   \* history: tasks of a session that was deleted

tasks == <<pipe, pid, owner, tracked, ledger, dropped>>
clock == <<budget, overdue>>
sched == <<loop, front, picked>>
vars  == <<k, tasks, clock, aborted, turns, sched>>

Key == Pid \X Policies \X Asks

NoPipe == [chan |-> "none", queue |-> <<>>, held |-> {}, futex |-> "none"]
NewPipe == [chan |-> "open", queue |-> <<>>, futex |-> "zero",
            held |-> {"producer", "consumer"}]

Pipe == [chan : {"none", "open", "closed", "gone"}, queue : BoundedSeq(Status, 1),
         held : SUBSET {"producer", "consumer"}, futex : {"none", "zero", "one", "gone"}]

Init == /\ k = EmptyKernel
        /\ pipe = [t \in Task |-> NoPipe]
        /\ pid = [t \in Task |-> None] /\ owner = [t \in Task |-> None]
        /\ tracked = {} /\ dropped = {}
        /\ ledger = [t \in Task |-> NoStatus]
        /\ budget = [x \in Key |-> "none"]
        /\ overdue = {} /\ aborted = {}
        /\ turns = [t \in Task |-> 0]
        /\ loop = "reap" /\ front = None /\ picked = {}

-----------------------------------------------------------------------------
(* The kernel's side: a world is the process table with the pipes.         *)

World == [k |-> k, pipe |-> pipe]

HasChan(w, t) == w.pipe[t].chan \in {"open", "closed"}

\* kill_process in the name of me, of every process of V at once; the callers
\* here ignore its error.
MayKill(s, me, p) == me # None /\ Exists(s, me) /\ me # p /\ IsAncestor(s, me, p)
Killed(s, me, V) ==
  LET victims == {p \in V : MayKill(s, me, p) /\ s.st[p] # Terminated}
  IN  TerminatePids(s, UNION {Cascade(s, p) : p \in victims})

\* is_task_pending
Pending(s, p) == s.st[p] \notin {Absent, Stopped, Terminated}

\* channel_allows_sender, of processes in no group: relatives of the owner.
MaySend(s, p, o) ==
  \/ p = o \/ IsAncestor(s, p, o) \/ IsAncestor(s, o, p)
  \/ Exists(s, p) /\ Exists(s, o) /\ s.parent[p] # None /\ s.parent[p] = s.parent[o]

\* channel_send is refused when the channel is gone, closed or full.
CanSend(w, t) == /\ w.pipe[t].chan = "open" /\ w.pipe[t].queue = <<>>
                 /\ MaySend(w.k, pid[t], owner[t])

\* Every transition of a task's channel or futex completes events; the owner
\* that is parked on them becomes Ready.
Woken(s, T) ==
  LET W == {p \in Pid : IsWatching(s.st[p]) /\ s.st[p][2] \cap T # {}}
  IN  [s EXCEPT !.st = [p \in Pid |-> IF p \in W THEN Ready ELSE s.st[p]],
                !.ready = @ \cup W]

\* Mutant: the result is written and nobody is told.
PublishSilently(w, T, status) ==
  [w EXCEPT !.pipe = [t \in Task |->
     IF t \notin T THEN w.pipe[t]
     ELSE [w.pipe[t] EXCEPT
             !.queue = IF CanSend(w, t) THEN Append(@, status) ELSE @,
             !.held  = @ \ {"producer"},
             !.futex = IF @ = "zero" THEN "one" ELSE @]]]

\* Mutant: the capacity of the channel is not looked at.
PublishUnchecked(w, T, status) ==
  [k |-> Woken(w.k, T),
   pipe |-> [t \in Task |->
     IF t \notin T THEN w.pipe[t]
     ELSE [w.pipe[t] EXCEPT !.queue = Append(@, status), !.held = @ \ {"producer"},
                            !.futex = "one"]]]

\* How a producer, or somebody in its name, publishes: channel_send, channel_close
\* (refused: the channel is the parent's), channel_release_named, futex_store.
Publish(w, T, status) ==
  [k |-> Woken(w.k, {t \in T : CanSend(w, t) \/ w.pipe[t].futex = "zero"}),
   pipe |-> [t \in Task |->
     IF t \notin T THEN w.pipe[t]
     ELSE [w.pipe[t] EXCEPT
             !.queue = IF CanSend(w, t) THEN Append(@, status) ELSE @,
             !.held  = @ \ {"producer"},
             !.futex = IF @ = "zero" THEN "one" ELSE @]]]

\* write_terminal_subagent_result, in the name of me.
WriteTerminal(w, me, T, status) ==
  Publish([w EXCEPT !.k = Killed(w.k, me, {pid[t] : t \in T})], T, status)

\* Mutant: cleanup_collected_task releases the consumer only.
ReleasedByConsumer(p) ==
  [p EXCEPT !.held = @ \ {"consumer"}, !.futex = "gone",
            !.chan = IF p.queue = <<>> /\ p.held \subseteq {"consumer"}
                     THEN "gone" ELSE "closed"]

\* channel_close, both releases, channel_destroy and futex_destroy by the runtime:
\* a channel that still holds a message is not destroyed.
Released(p) == [p EXCEPT !.held = {}, !.futex = "gone",
                         !.chan = IF p.queue = <<>> THEN "gone" ELSE "closed"]

\* Mutant: cleaning up wakes nobody and leaves the process to itself.
CleanUpReleasesOnly(w, me, C) ==
  [w EXCEPT !.pipe = [t \in Task |-> IF t \in C
                                     THEN Released([w.pipe[t] EXCEPT !.queue = <<>>])
                                     ELSE w.pipe[t]]]

\* cleanup_collected_task for each task of C, whose results were received, by
\* their owner me.
CleanUp(w, me, C) ==
  LET left   == {pid[t] : t \in C} \ {p \in Pid : ~Exists(w.k, p)}
      killed == Killed(Woken(w.k, C), me, left)
      doomed == {p \in left : killed.st[p] = Terminated}
      gone   == RemoveEntries(killed, UNION {Removed(killed, p) : p \in doomed})
  IN  [k |-> IF left = {} THEN killed ELSE SetCurrent(gone, me),
       pipe |-> [t \in Task |-> IF t \in C
                                THEN Released([w.pipe[t] EXCEPT !.queue = <<>>])
                                ELSE w.pipe[t]]]

Becomes(w) == k' = w.k /\ pipe' = w.pipe

\* JoinHandle::abort of the futures that are in flight.
Abort(T) == aborted' = aborted \cup {t \in T : turns[t] > 0}

-----------------------------------------------------------------------------
(* The event loop, as in AgentSched: one epoch is reap, wake, dispatch and *)
(* the foreground.                                                         *)

\* Mutant: the reaper removes what it reaped from the registry's pipes.
ReapDestroys ==
  LET late == {t \in tracked \cap overdue : Pending(k, pid[t])}
  IN  /\ loop = "reap"
      /\ Becomes([WriteTerminal(World, k.cur, late, "timeout")
                    EXCEPT !.pipe = [t \in Task |-> IF t \in late THEN Released(pipe[t])
                                                    ELSE pipe[t]]])
      /\ Abort(tracked \cap overdue)
      /\ loop' = "wake"
      /\ UNCHANGED <<pid, owner, tracked, ledger, dropped, clock, turns,
                     front, picked>>

\* reap_timed_out_subagents: it has no process of its own, so it acts in the
\* name of whichever one current_pid names.
Reap ==
  LET late == {t \in tracked \cap overdue : Pending(k, pid[t])}
  IN  /\ loop = "reap"
      /\ Becomes(WriteTerminal(World, k.cur, late, "timeout"))
      /\ Abort(tracked \cap overdue)
      /\ loop' = "wake"
      /\ UNCHANGED <<pid, owner, tracked, ledger, dropped, clock, turns,
                     front, picked>>

\* Mutant: an expired wait is marked, its owner is not woken.
WakeExpiredMarksOnly ==
  /\ loop = "wake"
  /\ budget' = [x \in Key |-> IF budget[x] = "due" THEN "expired" ELSE budget[x]]
  /\ loop' = "dispatch"
  /\ UNCHANGED <<k, tasks, overdue, aborted, turns, front, picked>>

\* wake_expired_task_waits, wake_process
WakeExpired ==
  LET W == {p \in Pid : /\ \E x \in Key : x[1] = p /\ budget[x] = "due"
                        /\ IsWatching(k.st[p]) \/ IsSleeping(k.st[p]) \/ IsWaiting(k.st[p])}
  IN  /\ loop = "wake"
      /\ budget' = [x \in Key |-> IF budget[x] = "due" THEN "expired" ELSE budget[x]]
      /\ k' = [k EXCEPT !.st = [p \in Pid |-> IF p \in W THEN Ready ELSE k.st[p]],
                        !.ready = @ \cup W]
      /\ loop' = "dispatch"
      /\ UNCHANGED <<tasks, overdue, aborted, turns, front, picked>>

Dispatch ==
  LET free == k.ready \ k.fg
  IN  /\ loop = "dispatch"
      /\ IF free = {} THEN loop' = "pop" /\ UNCHANGED <<k, picked>>
         ELSE \E S \in (SUBSET free) \ {{}} : \E first \in S :
                /\ k' = PopBatch(k, S, first)
                /\ picked' = S
                /\ loop' = "launch"
      /\ UNCHANGED <<tasks, clock, aborted, turns, front>>

TaskOf(p) == CHOOSE t \in Task : pid[t] = p

InTurn == loop \in {"fresh", "resume"}

AfterLaunch(rest) == IF rest = {} THEN "pop" ELSE "launch"

Launch(p) ==
  /\ loop = "launch" /\ p \in picked /\ turns[TaskOf(p)] < MaxInFlight
  /\ k' = SetCurrent(k, p)
  /\ turns' = [turns EXCEPT ![TaskOf(p)] = @ + 1]
  /\ aborted' = aborted \ {TaskOf(p)}
  /\ picked' = picked \ {p} /\ loop' = AfterLaunch(picked \ {p})
  /\ UNCHANGED <<tasks, clock, front>>

\* publish_background_task_failure
DispatchFails(p) ==
  LET w == Publish(World, {TaskOf(p)}, "failed")
  IN  /\ "dispatch" \in Faults
      /\ loop = "launch" /\ p \in picked
      /\ Becomes([w EXCEPT !.k = TerminateAndCleanup(w.k, p)])
      /\ picked' = picked \ {p} /\ loop' = AfterLaunch(picked \ {p})
      /\ UNCHANGED <<pid, owner, tracked, ledger, dropped, clock, aborted,
                     turns, front>>

ResumeForeground(p) ==
  /\ loop = "pop" /\ p \in k.fg \cap k.ready
  /\ k' = PopForegroundReady(k, p)
  /\ front' = p /\ loop' = "resume"
  /\ UNCHANGED <<tasks, clock, aborted, turns, picked>>

ForegroundPending == \E p \in k.fg : k.st[p] \notin {Absent, Terminated, Ready}
Prompting == /\ loop = "pop" /\ k.fg \cap k.ready = {} /\ ~ForegroundPending
             /\ \A t \in Task : turns[t] = 0

\* SchedulerClock::wait, which the timers of waits and lifetimes end as well.
ClockWait ==
  /\ loop = "pop" /\ k.fg \cap k.ready = {} /\ ~Prompting
  /\ loop' = "reap"
  /\ UNCHANGED <<k, tasks, clock, aborted, turns, front, picked>>

\* The user's next question.
Ask == /\ Prompting /\ CanAllocate(k)
       /\ k' = BeginForeground(k)
       /\ front' = k.next /\ loop' = "fresh"
       /\ UNCHANGED <<tasks, clock, aborted, turns, picked>>

\* discard_tasks_for_session, when the user deletes the session of these tasks.
Discard ==
  LET all    == tracked
      killed == Killed(World.k, k.cur, {pid[t] : t \in all})
      doomed == {p \in {pid[t] : t \in all} : killed.st[p] = Terminated}
  IN  /\ Prompting /\ all # {}
      /\ k' = RemoveEntries(killed, UNION {Removed(killed, p) : p \in doomed})
      /\ pipe' = [t \in Task |-> IF t \in all THEN Released(pipe[t]) ELSE pipe[t]]
      /\ Abort(all)
      /\ tracked' = {} /\ dropped' = dropped \cup all
      /\ budget' = [x \in Key |-> "none"] /\ overdue' = {}
      /\ loop' = "reap"
      /\ UNCHANGED <<pid, owner, ledger, turns, front, picked>>

\* The end of the foreground turn, after it consumed the yield of a call that
\* parked it.  The code after a fresh turn asks current_pid which process that was:
\* a parked one has left it empty.
IsParkedOwner(s, p) == IsParked(s.st[p]) \/ IsWatching(s.st[p])
EndTurn ==
  /\ InTurn
  /\ front' = None /\ loop' = "reap"
  /\ \E ok \in BOOLEAN, me \in {IF loop = "fresh" THEN k.cur ELSE front} :
       \E ended \in {IF me = None THEN k
                     ELSE IF ok /\ IsParkedOwner(k, me) THEN SetCurrent(k, me)
                     ELSE TerminateAndCleanup(k, me)} :
         k' = [ended EXCEPT !.yield = FALSE]
  /\ UNCHANGED <<tasks, clock, aborted, turns, picked>>

-----------------------------------------------------------------------------
(* The turns of the tasks.                                                 *)

Leaves(t) == /\ turns' = [turns EXCEPT ![t] = @ - 1]
             /\ aborted' = IF turns[t] = 1 THEN aborted \ {t} ELSE aborted

\* should_publish_subagent_task_result: a turn that ended well, with nothing to
\* say and its process parked, goes on later.
ShouldPublish(p, succeeded, spoke) ==
  ~succeeded \/ spoke \/ ~IsParked(k.st[p])

\* The end of a background turn: publication and finalisation are one critical
\* section.  A turn may end well and its result be rejected (response_schema).
Finish(t) ==
  /\ turns[t] > 0 /\ Leaves(t)
  /\ \E ok, valid, spoke \in BOOLEAN :
       LET now == [World EXCEPT !.k = SetCurrent(k, pid[t])]
           succeeded == ok /\ valid
           told == IF ShouldPublish(pid[t], succeeded, spoke)
                   THEN Publish(now, {t}, IF succeeded THEN "completed" ELSE "failed")
                   ELSE now
           ended == IF ok /\ IsParked(told.k.st[pid[t]]) THEN told.k
                    ELSE TerminateAndCleanup(told.k, pid[t])
       IN  Becomes([told EXCEPT !.k = RequeueCurrent(ended)])
  /\ UNCHANGED <<pid, owner, tracked, ledger, dropped, clock, sched>>

\* A future that panics, or that stops because it was aborted.
Dies(t) ==
  /\ turns[t] > 0 /\ Leaves(t)
  /\ t \in aborted \/ "panic" \in Faults
  /\ UNCHANGED <<k, tasks, clock, sched>>

-----------------------------------------------------------------------------
(* The calls of the foreground turn.                                       *)

\* spawn_subagent_kernel_task_attempt.  No task is dispatched before the turn
\* gives the loop the thread back, so the registry entry is there in time.
SpawnTask(t) ==
  /\ CanAllocate(k)
  /\ pid[t] = None /\ \A u \in 1..(t - 1) : pid[u] # None
  /\ k' = Spawn(k, front, 0)
  /\ pid' = [pid EXCEPT ![t] = k.next]
  /\ owner' = [owner EXCEPT ![t] = front]
  /\ pipe' = [pipe EXCEPT ![t] = NewPipe]
  /\ tracked' = tracked \cup {t}
  /\ UNCHANGED <<ledger, dropped, clock, aborted, turns, sched>>

TaskSpawn(t) == InTurn /\ SpawnTask(t)

\* task_retry: another attempt, once the failure of this one was collected.
TaskRetry(t) ==
  /\ InTurn /\ owner[t] = front
  /\ ledger[t] \in {"failed", "timeout", "cancelled"}
  /\ \E u \in Task : SpawnTask(u)

\* What the scan of task_wait or task_status finds.
Answered(w, T) == {t \in T : w.pipe[t].queue # <<>>}
Silent(w, T)   == {t \in T : w.pipe[t].queue = <<>> /\ ~Pending(w.k, pid[t])}
Over(w, T)     == Answered(w, T) \cup Silent(w, T)

\* Mutant: a process that has ended is looked at before its result is.
RecordedAsMissing(w, C) ==
  ledger' = [t \in Task |-> IF t \notin C THEN ledger[t]
                            ELSE IF ~Pending(w.k, pid[t]) THEN "failed"
                            ELSE Head(w.pipe[t].queue)]

\* collect_ready_task_result, collect_missing_task_result
Recorded(w, C) ==
  ledger' = [t \in Task |-> IF t \notin C THEN ledger[t]
                            ELSE IF w.pipe[t].queue # <<>> THEN Head(w.pipe[t].queue)
                            ELSE "failed"]

\* Every requested task is the caller's or was delivered before.
Valid(S) == \A t \in S : IF t \in tracked THEN owner[t] = front
                         ELSE ledger[t] # NoStatus

\* load_or_create_task_wait_state
Loaded(x) == CASE budget[x] = "none" -> "armed"
               [] budget[x] = "due"  -> "expired"
               [] OTHER              -> budget[x]

\* execute_task_wait that gets through its scan.
TaskWait(S, policy) ==
  LET me   == front
      T    == S \cap tracked
      x    == <<me, policy, S>>
      w    == WriteTerminal(World, me, T \cap overdue, "timeout")
      C    == Over(w, T)
      rest == T \ C
      done == CleanUp(w, me, C)
      parks == /\ rest # {} /\ Loaded(x) # "expired"
               /\ ~(policy = "any" /\ C # {})
               /\ \A t \in rest : done.pipe[t].chan = "open" /\ done.pipe[t].futex = "zero"
  IN  /\ InTurn /\ Valid(S) /\ T # {}
      /\ \A t \in T : HasChan(World, t)
      /\ pipe' = done.pipe
      /\ k' = IF parks THEN [done.k EXCEPT !.st[me] = Watching(rest), !.cur = None,
                                           !.yield = TRUE]
              ELSE done.k
      /\ Recorded(w, C)
      /\ tracked' = tracked \ C
      /\ overdue' = overdue \ C
      /\ budget' = [budget EXCEPT ![x] = IF parks THEN Loaded(x) ELSE "none"]
      /\ Abort(T \cap overdue)
      /\ UNCHANGED <<pid, owner, dropped, turns, sched>>

\* The scan of T fails at task f, after those of D: its evidence cannot be
\* written, or its channel is gone.  Nothing leaves the registry.
ScanFails(w, f, D) ==
  LET done == CleanUp(w, front, Over(w, D))
  IN  /\ \/ "persist" \in Faults /\ f \in Over(w, {f})
         \/ ~HasChan(World, f)
      /\ \A t \in D : HasChan(World, t)
      /\ Becomes(done)
      /\ Recorded(w, Over(w, D))

TaskWaitFails(S, policy) ==
  LET T == S \cap tracked
      x == <<front, policy, S>>
  IN  /\ InTurn /\ Valid(S)
      /\ \E f \in T : \E D \in SUBSET (T \ {f}) :
           ScanFails(WriteTerminal(World, front, (D \cup {f}) \cap overdue, "timeout"), f, D)
      /\ budget' = [budget EXCEPT ![x] = Loaded(x)]
      /\ Abort(T \cap overdue)
      /\ UNCHANGED <<pid, owner, tracked, dropped, overdue, turns, sched>>

\* execute_task_status
Mine == {t \in tracked : owner[t] = front}

TaskStatus ==
  LET C == Over(World, Mine)
  IN  /\ InTurn /\ Mine # {}
      /\ \A t \in Mine : HasChan(World, t)
      /\ Becomes(CleanUp(World, front, C))
      /\ Recorded(World, C)
      /\ tracked' = tracked \ C /\ overdue' = overdue \ C
      /\ UNCHANGED <<pid, owner, dropped, budget, aborted, turns, sched>>

TaskStatusFails ==
  /\ InTurn
  /\ \E f \in Mine : \E D \in SUBSET (Mine \ {f}) : ScanFails(World, f, D)
  /\ UNCHANGED <<pid, owner, tracked, dropped, clock, aborted, turns, sched>>

\* execute_task_cancel, of one task.
TaskCancel(t) ==
  /\ InTurn /\ t \in Mine
  /\ Becomes(IF Pending(k, pid[t]) THEN WriteTerminal(World, front, {t}, "cancelled")
             ELSE World)
  /\ Abort({t})
  /\ UNCHANGED <<pid, owner, tracked, ledger, dropped, clock, turns, sched>>

\* The kernel's own calls, of which a task's process is no exception: kill_process,
\* SIGSTOP and SIGCONT.
OsKill(t) ==
  /\ InTurn /\ pid[t] # None /\ MayKill(k, front, pid[t])
  /\ k' = Killed(k, front, {pid[t]})
  /\ UNCHANGED <<tasks, clock, aborted, turns, sched>>

OsSignal(t) ==
  /\ "stop" \in Faults
  /\ InTurn /\ pid[t] # None /\ IsAncestor(k, front, pid[t])
  /\ k.st[pid[t]] \notin {Absent, Terminated}
  /\ k' \in {DeliverStop(k, pid[t]), DeliverCont(k, pid[t])}
  /\ UNCHANGED <<tasks, clock, aborted, turns, sched>>

-----------------------------------------------------------------------------
(* Time: a task grows too old, the budget of a wait runs out.              *)

GrowsOld(t) == /\ t \in tracked \ overdue
               /\ overdue' = overdue \cup {t}
               /\ UNCHANGED <<k, tasks, budget, aborted, turns, sched>>

Elapses(x) == /\ budget[x] = "armed"
              /\ budget' = [budget EXCEPT ![x] = "due"]
              /\ UNCHANGED <<k, tasks, overdue, aborted, turns, sched>>

LoopStep == \/ Reap \/ WakeExpired \/ Dispatch \/ ClockWait
            \/ \E p \in picked : Launch(p)
            \/ \E p \in Pid : ResumeForeground(p)

Calls == \/ \E t \in Task : TaskSpawn(t) \/ TaskRetry(t) \/ TaskCancel(t)
                            \/ OsKill(t) \/ OsSignal(t)
         \/ \E S \in Asks, policy \in Policies : TaskWait(S, policy)
                                                 \/ TaskWaitFails(S, policy)
         \/ TaskStatus \/ TaskStatusFails

Next == \/ LoopStep \/ Ask \/ Discard \/ EndTurn \/ Calls
        \/ \E p \in picked : DispatchFails(p)
        \/ \E t \in Task : Finish(t) \/ Dies(t) \/ GrowsOld(t)
        \/ \E x \in Key : Elapses(x)

Spec == Init /\ [][Next]_vars

(* The loop runs on until it is at the prompt, turns end (see AgentSched;   *)
(* a future that was told to stop stops), and time passes.  Nothing        *)
(* obliges an agent to call, nor the user to ask.  That a phase does not   *)
(* last for ever is weak fairness of the step that ends it, which TLC      *)
(* checks without evaluating ENABLED.                                      *)
FairSpec == /\ Spec
            /\ \A phase \in {"reap", "wake", "dispatch", "launch"} : []<>(loop # phase)
            /\ []<>(loop # "pop" \/ Prompting)
            /\ []<>~InTurn
            /\ \A t \in Task : []<>(turns[t] = 0) /\ WF_vars(GrowsOld(t))
            /\ \A x \in Key : WF_vars(Elapses(x))

-----------------------------------------------------------------------------
\* Types.
TypeOK ==
  /\ pipe \in [Task -> Pipe]
  /\ pid \in [Task -> Pid \cup {None}] /\ owner \in [Task -> Pid \cup {None}]
  /\ tracked \subseteq Task /\ dropped \subseteq Task
  /\ ledger \in [Task -> Status \cup {NoStatus}]
  /\ budget \in [Key -> {"none", "armed", "due", "expired"}]
  /\ overdue \subseteq Task /\ aborted \subseteq Task
  /\ turns \in [Task -> 0..MaxInFlight]
  /\ k.st \in [Pid -> State \cup ({"events"} \X SUBSET Task)]
  /\ (InTurn <=> front # None) /\ (picked # {} <=> loop = "launch")

\* A tracked task whose result is not in the ledger has its channel and futex:
\* what a cancel, a timeout or the task itself publishes there can be collected.
UncollectedHasPipe ==
  \A t \in tracked : ledger[t] = NoStatus => HasChan(World, t) /\ pipe[t].futex # "gone"

\* A channel or futex belongs to a task that can still be collected (or was of a
\* deleted session): collecting releases both ends, whoever published.
PipeIsTracked ==
  \A t \in Task : HasChan(World, t) => t \in tracked \/ t \in dropped

\* Collecting a result ends the task's process, whatever state it is in and
\* whoever published in its name.
CollectedIsGone == \A t \in Task : ledger[t] # NoStatus => ~Exists(k, pid[t])

\* A parked owner is not parked for a task that has something for it, or that
\* has ended without a word.
ParkedSeesNothing ==
  \A p \in Pid : IsWatching(k.st[p]) =>
    \A t \in k.st[p][2] : pipe[t].queue = <<>> /\ pipe[t].futex = "zero"

\* Somebody can still wake a parked owner: it is parked for tasks, and each of them is
\* in the registry, so that it may be reaped, and has its channel, so that whatever is
\* published there completes the wait.
ParkedCanBeWoken ==
  \A p \in Pid : IsWatching(k.st[p]) =>
    /\ k.st[p][2] # {}
    /\ \A t \in k.st[p][2] : t \in tracked /\ HasChan(World, t)

HasBudget(p) == \E x \in Key : x[1] = p /\ budget[x] \in {"armed", "due"}

\* An owner that is parked when its turn is over, with a budget or for a task that
\* can still end, is woken.
OwnerAwakes ==
  \A p \in Pid :
    /\ IsWatching(k.st[p]) /\ ~InTurn
    /\ HasBudget(p) \/ \E t \in k.st[p][2] \cap tracked : Pending(k, pid[t])
    ~> ~IsWatching(k.st[p])

\* The protocol implements its contract: a result is decided once and delivered
\* once, and what is delivered is what was decided.
PhaseOf(t) == IF ledger[t] # NoStatus THEN "delivered"
              ELSE IF t \in dropped THEN "discarded"
              ELSE IF pid[t] = None THEN "new"
              ELSE IF pipe[t].queue # <<>> THEN "ended"
              ELSE "running"
ResultOf(t) == IF ledger[t] # NoStatus THEN ledger[t]
               ELSE IF t \notin dropped /\ pipe[t].queue # <<>> THEN Head(pipe[t].queue)
               ELSE NoStatus

Contract == INSTANCE TaskContract
              WITH phase <- [t \in Task |-> PhaseOf(t)],
                   result <- [t \in Task |-> ResultOf(t)]
Implements == Contract!Spec

=============================================================================
