----------------------------- MODULE AgentSched -----------------------------
(***************************************************************************)
(* The agent scheduler: the driver's event loop (src/bin/ai/driver/mod.rs, *)
(* scheduler.rs, background_dispatch.rs) and the turns it runs, over the   *)
(* process table of module ProcTable.                                      *)
(*                                                                         *)
(* The loop is one thread of control: it dispatches ready background       *)
(* processes as tokio tasks, resumes or starts the foreground process,     *)
(* whose turn it awaits itself, and otherwise waits on its clock.  A       *)
(* dispatched turn runs concurrently with the loop and with other turns;   *)
(* it makes system calls in the name of its own pid (TASK_PID) and ends by *)
(* finalising its process.  Every step below holds the kernel mutex once.  *)
(***************************************************************************)
EXTENDS ProcTable

CONSTANTS Caps,        \* ProcessCapabilities every process runs with
          Signals,     \* signals the agents send
          Naps,        \* durations agents sleep for
          BatchMax,    \* background_execute_limit
          MaxInFlight, \* bound on the turns in flight for one pid
          TasksDie     \* whether a background task may panic or be aborted

Capability == {"spawn", "wait", "sleep", "manage_children", "reap", "signal"}

ASSUME SchedAssumption == /\ Caps \subseteq Capability
                          /\ Signals \subseteq Signal
                          /\ Naps \subseteq Nat \ {0}
                          /\ BatchMax \in Nat \ {0}
                          /\ MaxInFlight \in Nat \ {0}
                          /\ TasksDie \in BOOLEAN

VARIABLES k,         \* the kernel
          loop,      \* what the event loop is doing
          front,     \* pid of the foreground turn the loop awaits, or None
          toPrep,    \* selected pids whose signals are not yet processed
          toLaunch,  \* selected pids whose task is not yet spawned
          turns,     \* background turns in flight, per pid
          notified,  \* SCHEDULER_NOTIFY holds a permit
          failed     \* history variable, read by properties only: some process
                     \* of this iteration's batch could not be dispatched

vars == <<k, loop, front, toPrep, toLaunch, turns, notified, failed>>

LoopState == {"dispatch", "prep", "pop", "pending", "wait", "signals",
              "fresh", "resume", "restart"}

Init == /\ k = EmptyKernel
        /\ loop = "dispatch"
        /\ front = None
        /\ toPrep = {} /\ toLaunch = {}
        /\ turns = [p \in Pid |-> 0]
        /\ notified = FALSE
        /\ failed = FALSE

HasTurn(p) == turns[p] > 0 \/ (front = p /\ loop # "signals")

NoTurnInFlight == \A p \in Pid : turns[p] = 0

-----------------------------------------------------------------------------
(* Closing a process.                                                      *)

\* Mutant: a failed turn leaves its process behind.
FinalizeIgnoresFailure(s, p, ok) ==
  IF ~ok \/ IsParked(s.st[p]) THEN SetCurrent(s, p) ELSE TerminateAndCleanup(s, p)

\* The end of a turn (classify_process_outcome, finalize_turn_quota): a
\* process that parked itself is left alone, any other one is terminated, and
\* so is every process whose turn failed.
Finalize(s, p, ok) ==
  IF ok /\ IsParked(s.st[p]) THEN SetCurrent(s, p) ELSE TerminateAndCleanup(s, p)

-----------------------------------------------------------------------------
(* The event loop.                                                         *)

\* dispatch_background_batch, up to the selection: a full batch, or everybody.
Dispatch ==
  LET free == k.ready \ k.fg IN
  /\ loop = "dispatch"
  /\ \/ /\ free = {}
        /\ loop' = "pop"
        /\ UNCHANGED <<k, toPrep>>
     \/ \E S \in (SUBSET free) \ {{}} : \E first \in S :
          /\ Cardinality(S) = BatchMax \/ (S = free /\ Cardinality(S) < BatchMax)
          /\ k' = PopBatch(k, S, first)
          /\ toPrep' = S
          /\ loop' = "prep"
  /\ UNCHANGED <<front, toLaunch, turns, notified, failed>>

\* Where the loop goes with prep and launch still to be worked through.
AfterPrep(prep, launch) == IF prep \cup launch = {} THEN "pop" ELSE "prep"

\* First pass over the batch: pending signals; the verdict is not looked at.
Prepare(p) ==
  /\ loop = "prep" /\ p \in toPrep
  /\ k' = ProcessPendingSignals(SetCurrent(k, p))
  /\ toPrep' = toPrep \ {p}
  /\ toLaunch' = toLaunch \cup {p}
  /\ UNCHANGED <<loop, front, turns, notified, failed>>

\* clear_tool_cancel, with which a background turn begins: the SIGCANCEL goes
\* (deliver_signal queues no second one).
ClearToolCancel(s, p) ==
  IF ~Contains(s.sigs[p], "SigCancel") THEN s
  ELSE [s EXCEPT !.sigs[p] =
          RemoveAt(@, CHOOSE i \in DOMAIN @ : s.sigs[p][i] = "SigCancel")]

\* Second pass: the turn becomes a task of its own.
Launch(p) ==
  /\ loop = "prep" /\ toPrep = {} /\ p \in toLaunch
  /\ turns[p] < MaxInFlight
  /\ k' = ClearToolCancel(k, p)
  /\ turns' = [turns EXCEPT ![p] = @ + 1]
  /\ toLaunch' = toLaunch \ {p}
  /\ notified' = TRUE
  /\ loop' = AfterPrep(toPrep, toLaunch \ {p})
  /\ UNCHANGED <<front, toPrep, failed>>

\* publish_background_task_failure, in either pass: an unreadable goal, an
\* unknown agent, a history that cannot be opened.  It notifies the scheduler
\* only of a process with a completion futex, and none of spawn_process has one
\* (those of tasks do: module TaskPipe).
DispatchFails(p) ==
  /\ loop = "prep"
  /\ \/ p \in toPrep
     \/ toPrep = {} /\ p \in toLaunch
  /\ k' = TerminateAndCleanup(k, p)
  /\ toPrep' = toPrep \ {p}
  /\ toLaunch' = toLaunch \ {p}
  /\ failed' = TRUE
  /\ loop' = AfterPrep(toPrep \ {p}, toLaunch \ {p})
  /\ UNCHANGED <<front, turns, notified>>

\* pop_foreground_ready
ResumeForeground(p) ==
  /\ loop = "pop" /\ p \in k.fg \cap k.ready
  /\ k' = PopForegroundReady(k, p)
  /\ front' = p
  /\ loop' = "signals"
  /\ failed' = FALSE
  /\ UNCHANGED <<toPrep, toLaunch, turns, notified>>

NoForegroundReady ==
  /\ loop = "pop" /\ k.fg \cap k.ready = {}
  /\ loop' = "pending"
  /\ UNCHANGED <<k, front, toPrep, toLaunch, turns, notified, failed>>

\* The start of run_foreground_resume; again the verdict is not looked at.
FrontSignals ==
  /\ loop = "signals"
  /\ k' = ProcessPendingSignals(SetCurrent(k, front))
  /\ loop' = "resume"
  /\ UNCHANGED <<front, toPrep, toLaunch, turns, notified, failed>>

\* has_pending_foreground_process
ForegroundPending == \E p \in k.fg : k.st[p] \notin {Absent, Terminated, Ready}

GoToWait ==
  /\ loop = "pending"
  /\ ForegroundPending \/ ~NoTurnInFlight
  /\ loop' = "wait"
  /\ UNCHANGED <<k, front, toPrep, toLaunch, turns, notified, failed>>

\* The prompt is open until the user's next question (interactive mode).
StartForeground ==
  /\ loop = "pending" /\ ~ForegroundPending /\ NoTurnInFlight
  /\ CanAllocate(k)
  /\ k' = BeginForeground(k)
  /\ front' = k.next
  /\ loop' = "fresh"
  /\ failed' = FALSE
  /\ UNCHANGED <<toPrep, toLaunch, turns, notified>>

\* SchedulerClock::wait returns on a notification, or when the first entry of
\* the wake-up heap is due, and then accounts for the ticks that went by.
ClockWait ==
  /\ loop = "wait"
  /\ \E n \in 0..(MaxTick - k.tick) :
       /\ \/ notified
          \/ n > 0 /\ \E e \in k.heap : e[1] <= k.tick + n
       /\ k' = AdvanceTicks(k, n)
  /\ notified' = FALSE
  /\ failed' = FALSE
  /\ loop' = "dispatch"
  /\ UNCHANGED <<front, toPrep, toLaunch, turns>>

-----------------------------------------------------------------------------
(* The end of a turn.                                                      *)

\* Mutant: the guard of a finished task does not notify the scheduler.
EndBackgroundSilently(p) ==
  /\ turns[p] > 0
  /\ \E ok \in BOOLEAN : k' = RequeueCurrent(Finalize(k, p, ok))
  /\ turns' = [turns EXCEPT ![p] = @ - 1]
  /\ UNCHANGED <<loop, front, toPrep, toLaunch, notified, failed>>

\* A background task: in round-robin mode (the default) the process would be
\* requeued if it still ran, which Finalize leaves no process to do.
EndBackground(p) ==
  /\ turns[p] > 0
  /\ \E ok \in BOOLEAN : k' = RequeueCurrent(Finalize(k, p, ok))
  /\ turns' = [turns EXCEPT ![p] = @ - 1]
  /\ notified' = TRUE
  /\ UNCHANGED <<loop, front, toPrep, toLaunch, failed>>

\* A background task that panics or is aborted: only BgSubagentGuard's Drop runs.
TaskDies(p) ==
  /\ TasksDie /\ turns[p] > 0
  /\ turns' = [turns EXCEPT ![p] = @ - 1]
  /\ notified' = TRUE
  /\ UNCHANGED <<k, loop, front, toPrep, toLaunch, failed>>

\* Mutant: the loop forgets that its foreground turn is over.
EndResumeKeepsFront ==
  /\ loop = "resume"
  /\ \E ok \in BOOLEAN : k' = Finalize(k, front, ok)
  /\ loop' = "dispatch"
  /\ UNCHANGED <<front, toPrep, toLaunch, turns, notified, failed>>

EndResume ==
  /\ loop = "resume"
  /\ \E ok \in BOOLEAN : k' = Finalize(k, front, ok)
  /\ front' = None
  /\ loop' = "dispatch"
  /\ UNCHANGED <<toPrep, toLaunch, turns, notified, failed>>

\* A fresh turn finalises whichever process current_pid names by now.
EndFresh ==
  /\ loop = "fresh"
  /\ \E ok \in BOOLEAN :
       /\ k' = IF k.cur = None THEN k ELSE Finalize(k, k.cur, ok)
       /\ loop' = IF ok THEN "restart" ELSE "dispatch"
  /\ front' = None
  /\ UNCHANGED <<toPrep, toLaunch, turns, notified, failed>>

\* check_daemon_restart, one daemon at a time: no turn is in flight, so the
\* loop is the only actor.
Restart(p) ==
  /\ loop = "restart" /\ p \in DeadDaemons(k) /\ CanAllocate(k)
  /\ k' = RestartDaemon(k, p)
  /\ UNCHANGED <<loop, front, toPrep, toLaunch, turns, notified, failed>>

RestartsDone ==
  /\ loop = "restart" /\ (DeadDaemons(k) = {} \/ ~CanAllocate(k))
  /\ k' = IF k.ready = {} THEN k ELSE RequeueCurrent(k)
  /\ loop' = "dispatch"
  /\ UNCHANGED <<front, toPrep, toLaunch, turns, notified, failed>>

-----------------------------------------------------------------------------
(* System calls of a turn, through the tools of os_tools.rs.               *)

Caller(me, cap) == HasTurn(me) /\ Exists(k, me) /\ cap \in Caps

Syscall(next) == k' = next /\ UNCHANGED <<loop, front, toPrep, toLaunch, turns, notified, failed>>

SysSpawn(me) ==
  /\ Caller(me, "spawn") /\ CanAllocate(k)
  /\ \E restarts \in 0..MaxRestart : Syscall(Spawn(k, me, restarts))

\* Mutants: wait_on without the scope check, and without the check that the
\* target still runs.
SysWaitUnscoped(me, p) ==
  /\ Caller(me, "wait")
  /\ p # me /\ Exists(k, p)
  /\ k.st[p] # Terminated
  /\ Syscall(WaitOn(k, me, p))

SysWaitUnchecked(me, p) ==
  /\ Caller(me, "wait")
  /\ p # me /\ IsAncestor(k, me, p)
  /\ Syscall(WaitOn(k, me, p))

SysWait(me, p) ==
  /\ Caller(me, "wait")
  /\ p # me /\ IsAncestor(k, me, p)
  /\ k.st[p] \notin {Absent, Terminated}
  /\ Syscall(WaitOn(k, me, p))

SysSleep(me) ==
  /\ Caller(me, "sleep")
  /\ \E n \in Naps : k.tick + n <= MaxTick /\ Syscall(SleepCurrent(k, me, n))

SysKill(me, p) ==
  /\ Caller(me, "manage_children")
  /\ p # me /\ IsAncestor(k, me, p)
  /\ k.st[p] # Terminated
  /\ Syscall(TerminatePids(k, Cascade(k, p)))

SysReap(me, p) ==
  /\ Caller(me, "reap")
  /\ InScope(k, me, p)
  /\ k.st[p] = Terminated
  /\ Syscall(RemoveEntry(k, p))

SysSignal(me, p) ==
  /\ Caller(me, "signal")
  /\ InScope(k, me, p)
  /\ k.st[p] \notin {Absent, Terminated}
  /\ \E sig \in Signals : /\ sig \in {"SigCancel", "SigTerm"} => Len(k.sigs[p]) < MaxSig
                          /\ Syscall(DeliverSignal(k, p, sig))

-----------------------------------------------------------------------------
LoopStep == \/ Dispatch \/ FrontSignals \/ NoForegroundReady \/ GoToWait \/ ClockWait \/ RestartsDone
            \/ \E p \in Pid : \/ Prepare(p) \/ Launch(p) \/ ResumeForeground(p)
                              \/ Restart(p)

EndTurn == EndFresh \/ EndResume

Next == \/ LoopStep \/ EndTurn \/ StartForeground
        \/ \E p \in Pid : DispatchFails(p) \/ EndBackground(p) \/ TaskDies(p)
        \/ \E me \in Pid : SysSpawn(me) \/ SysSleep(me)
        \/ \E me, p \in Pid : \/ SysWait(me, p) \/ SysKill(me, p)
                              \/ SysReap(me, p) \/ SysSignal(me, p)

Spec == Init /\ [][Next]_vars

(* The loop runs on, and every turn ends: an LLM turn is bounded by its    *)
(* iteration limit and its requests by their timeouts.  Nothing obliges    *)
(* the user to ask a question or an agent to make a call.                  *)
FairSpec == /\ Spec
            /\ WF_vars(LoopStep)
            /\ WF_vars(EndTurn)
            /\ \A p \in Pid : WF_vars(EndBackground(p))

\* The prompt is open: the loop waits for the user.
AtPrompt == loop = "pending" /\ ~ForegroundPending /\ NoTurnInFlight

\* The clock is empty: only a notification would end the wait.
ClockEmpty == loop = "wait" /\ ~notified /\ k.heap = {}

\* No turn is left that could end and notify either: the loop sleeps for good.
LoopAsleep == ClockEmpty /\ NoTurnInFlight

(* What FairSpec implies of the states, and all the properties need of it: *)
(* the loop comes round again and again unless it waits for the user or    *)
(* for a notification, and no number of turns in flight is there for ever. *)
(* TLC checks it in a fraction of the time, having no ENABLED to evaluate. *)
SteadySpec == /\ Spec
              /\ []<>(loop # "dispatch")
              /\ []<>(loop = "dispatch" \/ AtPrompt \/ ClockEmpty)
              /\ \A p \in Pid, n \in 1..MaxInFlight : []<>(turns[p] # n)

-----------------------------------------------------------------------------
\* Types: the kernel record, and the loop awaits a foreground turn exactly
\* while it is in one.
TypeOK ==
  /\ k \in Kernel
  /\ k.next \in 1..(MaxPid + 1)
  /\ loop \in LoopState
  /\ front \in Pid \cup {None} /\ (front # None <=> loop \in {"signals", "fresh", "resume"})
  /\ toPrep \subseteq Pid /\ toLaunch \subseteq Pid
  /\ turns \in [Pid -> 0..MaxInFlight]
  /\ notified \in BOOLEAN /\ failed \in BOOLEAN

\* No process is stranded: a Ready process is in ready_set, so the scheduler
\* can see it, whatever made it ready (terminate_pid, advance_ticks, signals).
NoStranded == \A p \in Pid : k.st[p] = Ready => p \in k.ready

\* ready_set holds no process the scheduler must not run: none that left the
\* table, terminated or was stopped while it was queued.
ReadySetSound == \A p \in k.ready : k.st[p] \notin {Absent, Terminated, Stopped}

\* No lost exit wake-up: whoever waits for the exit of p is registered in
\* wait_queue under p, and p can still exit.
ExitWaitersRegistered ==
  \A w, p \in Pid : k.st[w] = WaitingExit(p) =>
    w \in k.waitq[p] /\ k.st[p] \notin {Absent, Terminated}

\* No lost timer: whoever sleeps is due in the future and in wakeup_heap.
SleepersArmed ==
  \A p \in Pid : IsSleeping(k.st[p]) => /\ k.st[p][2] > k.tick
                                        /\ <<k.st[p][2], p>> \in k.heap

\* children_by_parent lists no process that is not the child it is listed as.
ChildIndexSound ==
  \A p \in Pid : \A c \in k.kids[p] : Exists(k, c) /\ k.parent[c] = p

\* children_by_parent is complete for the processes of the table: what
\* ensure_child_scope sees going up, the kill cascade sees going down.
ChildIndexComplete ==
  \A c, p \in Pid : Exists(k, c) /\ Exists(k, p) /\ k.parent[c] = p => c \in k.kids[p]

\* Exit waits cannot deadlock: a waiter only waits for a younger process, so
\* following the waits always ends at a process that does not wait.
WaitsGoDown == \A w, p \in Pid : k.st[w] = WaitingExit(p) => w < p

\* No process is forgotten by the driver: one that is Running is in a turn, or
\* in the batch that is being dispatched.
RunningIsDriven ==
  \A p \in Pid : k.st[p] = Running => HasTurn(p) \/ front = p \/ p \in toPrep \cup toLaunch

\* The loop goes to sleep on an empty clock with nobody left to wake it in one
\* case only: a process of the batch could not be dispatched, whose end nobody
\* notified the loop of and which made a background process Ready, too late for
\* this iteration's selection.
LoopCanWake ==
  LoopAsleep => failed /\ \E p \in k.ready : p \notin k.fg

\* A kill takes the whole subtree with it: nobody the caller could have managed
\* through the victim survives kill_process.
KillIsComplete ==
  [][\A me, p \in Pid : SysKill(me, p) =>
       \A q \in Pid : q = p \/ IsAncestor(k, p, q) => k'.st[q] = Terminated]_vars

\* An exit wait is answered: a foreground process that waits for a child does
\* not wait for ever, since every turn ends and ends its process or parks it,
\* unless a failed dispatch has put the loop to sleep for good.
ForegroundWoken ==
  \A p \in Pid : []<>(p \in k.fg /\ IsWaiting(k.st[p]) => LoopAsleep /\ failed)

\* A foreground process that sleeps is woken: while it sleeps the loop stays
\* away from the prompt, so its clock runs.
ForegroundAwakes ==
  \A p \in Pid : []<>~(p \in k.fg /\ IsSleeping(k.st[p]))

\* What the tool wait_process tells its caller, "Will be awakened when PID {}
\* terminates" (os_tools.rs), and the loop's own comment on a foreground process
\* that waits (mod.rs): as long as one does, whoever is Ready gets to run.
\* The code breaks it: see DispatchFails.
AwakenedRuns ==
  \A p \in Pid : k.st[p] = Ready ~> k.st[p] # Ready \/ ~ForegroundPending

=============================================================================
