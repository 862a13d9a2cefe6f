----------------------------- MODULE ProcTable -----------------------------
(***************************************************************************)
(* The process table of the AIOS kernel (`LocalOS' in                      *)
(* crates/aios_kernel/src/local.rs): process states, the parent/child      *)
(* tree, the set of schedulable pids, the exit wait queue, signals and the *)
(* wake-up heap.                                                           *)
(*                                                                         *)
(* The kernel is one value behind one mutex, so every method is an atomic  *)
(* function of it.  This module keeps that shape: a kernel state is the    *)
(* record k, every method is an operator from k (and its arguments) to the *)
(* next k, and methods that call each other compose.  The modules that     *)
(* EXTEND it hold k in a variable.                                         *)
(*                                                                         *)
(* Abstracted here: mailbox texts, environment, tool lists and quotas (no  *)
(* state change below depends on them), and the order of `ready_queue'.    *)
(* Event waits are in EventWait.                                           *)
(***************************************************************************)
EXTENDS Integers, SequencesExt

CONSTANTS MaxPid,     \* pids 1..MaxPid may be allocated
          MaxTick,    \* scheduler ticks 0..MaxTick
          MaxRestart, \* max_restarts a daemon may be given
          MaxSig      \* bound on the length of pending_signals

ASSUME TableAssumption == /\ MaxPid \in Nat \ {0}
                          /\ MaxTick \in Nat
                          /\ MaxRestart \in Nat
                          /\ MaxSig \in Nat

Pid  == 1..MaxPid
None == 0             \* Option::None where a pid is optional

Signal  == {"SigCancel", "SigTerm", "SigStop", "SigCont", "SigKill"}

\* ProcessState, and Absent for a pid with no entry in `processes'.
Absent     == <<"absent", 0>>
Ready      == <<"ready", 0>>
Running    == <<"running", 0>>
Stopped    == <<"stopped", 0>>
Terminated == <<"terminated", 0>>
WaitingExit(p) == <<"exit", p>>       \* Waiting { ProcessExit { on_pid } }
Sleeping(t)    == <<"sleep", t>>      \* Sleeping { until_tick }

State == {Absent, Ready, Running, Stopped, Terminated}
           \cup ({"exit"} \X Pid) \cup ({"sleep"} \X Nat)

IsWaiting(s)  == s[1] = "exit"
IsSleeping(s) == s[1] = "sleep"
IsParked(s)   == IsWaiting(s) \/ IsSleeping(s) \/ s = Stopped

Kernel ==
  [ st      : [Pid -> State],            \* Process.state
    parent  : [Pid -> Pid \cup {None}],  \* Process.parent_pid
    kids    : [Pid -> SUBSET Pid],       \* children_by_parent
    fg      : SUBSET Pid,                \* Process.is_foreground
    left    : [Pid -> Nat],              \* max_restarts - restart_count of a daemon
    sigs    : [Pid -> Seq(Signal)],      \* Process.pending_signals
    ready   : SUBSET Pid,                \* ready_set
    waitq   : [Pid -> SUBSET Pid],       \* wait_queue: pid -> who waits for its exit
    heap    : SUBSET (Nat \X Pid),       \* wakeup_heap
    cur     : Pid \cup {None},           \* current_pid
    yield   : BOOLEAN,                   \* yield_requested
    tick    : Nat,
    next    : Nat ]                      \* next_pid

EmptyKernel ==
  [ st |-> [p \in Pid |-> Absent],
    parent |-> [p \in Pid |-> None], kids |-> [p \in Pid |-> {}],
    fg |-> {}, left |-> [p \in Pid |-> 0], sigs |-> [p \in Pid |-> <<>>],
    ready |-> {}, waitq |-> [p \in Pid |-> {}], heap |-> {},
    cur |-> None, yield |-> FALSE, tick |-> 0, next |-> 1 ]

Exists(k, p) == k.st[p] # Absent

-----------------------------------------------------------------------------
(* The process tree.  A child's pid is always larger than its parent's,    *)
(* which is what makes the two functions below well defined.               *)

\* is_ancestor_of: the walk up the parent_pid chain, which ends at a pid that
\* is no longer in the table.
IsAncestor(k, a, p) ==
  LET below[q \in Pid] == /\ Exists(k, q)
                          /\ k.parent[q] # None
                          /\ \/ k.parent[q] = a
                             \/ /\ k.parent[q] < q
                                /\ below[k.parent[q]]
  IN  below[p]

\* ensure_child_scope: a process manages itself and its descendants.
InScope(k, me, p) == me = p \/ IsAncestor(k, me, p)

\* collect_descendants: the walk down the children_by_parent index.
Descendants(k, p) ==
  LET below[q \in Pid] ==
        \E a \in 1..(q - 1) : q \in k.kids[a] /\ (a = p \/ below[a])
  IN  {q \in Pid : below[q]}

-----------------------------------------------------------------------------
(* terminate_pid, for one victim or for the victims of a kill cascade.     *)
(* The cascade runs children first, and a process waits only for its       *)
(* descendants, so a victim that waits for another victim is woken before  *)
(* it is terminated itself.  Every other waiter is made Ready, whatever    *)
(* state it is in by now.                                                  *)

Waiters(k, V) == {w \in UNION {k.waitq[v] : v \in V} : Exists(k, w)}

\* Mutant: the waiters become Ready but are not enqueued.
TerminatePidsNoEnqueue(k, V) ==
  LET woken == Waiters(k, V) \ V
  IN  [k EXCEPT !.st = [p \in Pid |-> IF p \in V /\ Exists(k, p) THEN Terminated
                                      ELSE IF p \in woken THEN Ready
                                      ELSE k.st[p]],
                !.ready = k.ready \ V,
                !.waitq = [p \in Pid |-> IF p \in V THEN {} ELSE k.waitq[p]]]

TerminatePids(k, V) ==
  LET woken == Waiters(k, V) \ V
  IN  [k EXCEPT !.st = [p \in Pid |-> IF p \in V /\ Exists(k, p) THEN Terminated
                                      ELSE IF p \in woken THEN Ready
                                      ELSE k.st[p]],
                !.ready = (k.ready \cup woken) \ V,
                !.waitq = [p \in Pid |-> IF p \in V THEN {} ELSE k.waitq[p]]]

\* Mutant: a kill without the cascade.
CascadeNone(k, p) == {p}

\* kill_process and SIGKILL.  The code skips descendants that are terminated
\* already: they are in no queue and nobody is registered as waiting for them.
Cascade(k, p) == {p} \cup Descendants(k, p)

\* terminate_current
TerminateCurrent(k) ==
  IF k.cur = None THEN k ELSE [TerminatePids(k, {k.cur}) EXCEPT !.cur = None]

(* remove_process_entry: the entry goes, with it every zombie nobody can   *)
(* reap any more (a terminated child, or one whose parent is not in the    *)
(* table); the children that are alive become orphans.                     *)
Removed(k, p) ==
  LET unreapable[q \in Pid] ==
        /\ k.st[q] = Terminated
        /\ k.parent[q] # None
        /\ \/ k.parent[q] = p
           \/ ~Exists(k, k.parent[q])
           \/ k.parent[q] < q /\ unreapable[k.parent[q]]
  IN  {p} \cup {q \in Pid : k.st[q] = Terminated /\ unreapable[q]}

\* Mutant: remove_process_entry_raw forgets to unregister the child.
RemoveEntriesKeepsIndex(k, G) ==
  [k EXCEPT !.st = [p \in Pid |-> IF p \in G THEN Absent ELSE k.st[p]],
            !.parent = [p \in Pid |-> IF p \in G \/ k.parent[p] \in G THEN None
                                      ELSE k.parent[p]],
            !.ready = @ \ G,
            !.waitq = [p \in Pid |-> IF p \in G THEN {} ELSE k.waitq[p]]]

RemoveEntries(k, G) ==
  LET orphans == (UNION {k.kids[g] : g \in G}) \ G
  IN  [k EXCEPT !.st     = [p \in Pid |-> IF p \in G THEN Absent ELSE k.st[p]],
                !.parent = [p \in Pid |-> IF p \in G \cup orphans THEN None
                                          ELSE k.parent[p]],
                !.kids   = [p \in Pid |-> IF p \in G THEN {} ELSE k.kids[p] \ G],
                !.fg     = @ \ G,
                !.left   = [p \in Pid |-> IF p \in G THEN 0 ELSE k.left[p]],
                !.sigs   = [p \in Pid |-> IF p \in G THEN <<>> ELSE k.sigs[p]],
                !.ready  = @ \ G,
                !.waitq  = [p \in Pid |-> IF p \in G THEN {} ELSE k.waitq[p]]]

RemoveEntry(k, p) == RemoveEntries(k, Removed(k, p))

\* drop_terminated
DropTerminated(k, p) == IF k.st[p] = Terminated THEN RemoveEntry(k, p) ELSE k

-----------------------------------------------------------------------------
(* Creation.                                                               *)

CanAllocate(k) == k.next \in Pid

\* The table entry spawn, begin_foreground and check_daemon_restart insert.
NewEntry(k, par, state, restarts) ==
  LET p == k.next
  IN  [k EXCEPT !.st[p] = state, !.parent[p] = par,
                !.left[p] = restarts, !.sigs[p] = <<>>, !.next = p + 1]

\* Mutant: spawn without register_child.
SpawnUnregistered(k, par, restarts) ==
  [NewEntry(k, par, Ready, restarts) EXCEPT !.ready = @ \cup {k.next}]

\* spawn and spawn_daemon (restarts = max_restarts; 0 for a plain process).
\* Only a restarted daemon can be without a parent.
Spawn(k, par, restarts) ==
  LET p == k.next
  IN  [NewEntry(k, par, Ready, restarts)
         EXCEPT !.kids = [q \in Pid |-> IF q = par THEN k.kids[q] \cup {p} ELSE k.kids[q]],
                !.ready = @ \cup {p}]

BeginForeground(k) ==
  LET p == k.next
  IN  [NewEntry(k, None, Running, 0) EXCEPT !.fg = @ \cup {p}, !.cur = p]

\* One daemon of check_daemon_restart: the dead entry is dropped without
\* remove_process_entry, so its children keep their parent_pid.
RestartDaemon(k, old) ==
  LET dropped == [k EXCEPT !.st[old] = Absent, !.parent[old] = None,
                           !.left[old] = 0, !.sigs[old] = <<>>,
                           !.kids = [q \in Pid |-> IF q = old THEN {}
                                                   ELSE k.kids[q] \ {old}],
                           !.ready = @ \ {old}, !.waitq[old] = {}]
  IN  Spawn(dropped, k.parent[old], k.left[old] - 1)

DeadDaemons(k) == {p \in Pid : k.st[p] = Terminated /\ k.left[p] > 0}

-----------------------------------------------------------------------------
(* Blocking calls of process me.                                           *)

\* Mutant: wait_on does not push the caller on wait_queue.
WaitOnUnregistered(k, me, p) ==
  [k EXCEPT !.st[me] = WaitingExit(p), !.cur = None, !.yield = TRUE]

WaitOn(k, me, p) ==
  [k EXCEPT !.st[me] = WaitingExit(p), !.waitq[p] = @ \cup {me},
            !.cur = None, !.yield = TRUE]

\* Mutant: sleep_current does not push on wakeup_heap.
SleepCurrentUnarmed(k, me, turns) ==
  [k EXCEPT !.st[me] = Sleeping(k.tick + turns), !.cur = None, !.yield = TRUE]

\* sleep_current: at least one tick.
SleepCurrent(k, me, turns) ==
  LET until == k.tick + turns
  IN  [k EXCEPT !.st[me] = Sleeping(until), !.heap = @ \cup {<<until, me>>},
                !.cur = None, !.yield = TRUE]

\* Mutant: < for <= in the comparison with the heap's top.
AdvanceTicksLate(k, n) ==
  LET now   == k.tick + n
      due   == {e \in k.heap : e[1] < now}
      woken == {p \in Pid : IsSleeping(k.st[p]) /\ <<k.st[p][2], p>> \in due}
  IN  [k EXCEPT !.st = [p \in Pid |-> IF p \in woken THEN Ready ELSE k.st[p]],
                !.ready = k.ready \cup woken, !.heap = k.heap \ due, !.tick = now]

\* advance_ticks: every entry that is due leaves the heap; it wakes its
\* process only when that process still sleeps until that very tick.
AdvanceTicks(k, n) ==
  LET now   == k.tick + n
      due   == {e \in k.heap : e[1] <= now}
      woken == {p \in Pid : IsSleeping(k.st[p]) /\ <<k.st[p][2], p>> \in due}
  IN  [k EXCEPT !.st = [p \in Pid |-> IF p \in woken THEN Ready ELSE k.st[p]],
                !.ready = k.ready \cup woken, !.heap = k.heap \ due, !.tick = now]

-----------------------------------------------------------------------------
(* Signals.                                                                *)

DeliverCancel(k, p) ==
  IF Contains(k.sigs[p], "SigCancel") THEN k
  ELSE [k EXCEPT !.sigs[p] = Append(@, "SigCancel")]

DeliverTerm(k, p) ==
  LET queued == [k EXCEPT !.sigs[p] = Append(@, "SigTerm")]
  IN  IF k.st[p] # Stopped THEN queued
      ELSE [queued EXCEPT !.st[p] = Ready, !.ready = @ \cup {p}]

\* Mutant: SIGSTOP leaves the process in ready_set.
DeliverStopQueued(k, p) ==
  IF k.st[p] = Stopped THEN k
  ELSE [k EXCEPT !.st[p] = Stopped,
                 !.cur = IF @ = p THEN None ELSE @, !.yield = @ \/ k.cur = p]

DeliverStop(k, p) ==
  IF k.st[p] = Stopped THEN k
  ELSE [k EXCEPT !.st[p] = Stopped, !.ready = @ \ {p},
                 !.cur = IF @ = p THEN None ELSE @, !.yield = @ \/ k.cur = p]

\* Mutant: SIGCONT does not enqueue.
DeliverContUnqueued(k, p) == IF k.st[p] # Stopped THEN k ELSE [k EXCEPT !.st[p] = Ready]

DeliverCont(k, p) ==
  IF k.st[p] # Stopped THEN k
  ELSE [k EXCEPT !.st[p] = Ready, !.ready = @ \cup {p}]

\* deliver_signal to a process that exists and is not terminated.
DeliverSignal(k, p, sig) ==
  CASE sig = "SigCancel" -> DeliverCancel(k, p)
    [] sig = "SigKill"   -> TerminatePids(k, Cascade(k, p))
    [] sig = "SigTerm"   -> DeliverTerm(k, p)
    [] sig = "SigStop"   -> DeliverStop(k, p)
    [] sig = "SigCont"   -> DeliverCont(k, p)

\* The scan of process_pending_signals stops at the first SIGTERM; a SIGCANCEL
\* met before it is acted upon first.
TermPending(s)   == Contains(s, "SigTerm")
CancelPending(s) == \E i \in DOMAIN s : /\ s[i] = "SigCancel"
                                        /\ \A j \in 1..i : s[j] # "SigTerm"

ProcessPendingSignals(k) ==
  LET p == k.cur
      cleared == [k EXCEPT !.sigs[p] = <<>>]
  IN  IF p = None \/ ~Exists(k, p) THEN k
      ELSE IF CancelPending(k.sigs[p]) \/ ~TermPending(k.sigs[p]) THEN cleared
      ELSE TerminateCurrent(cleared)

-----------------------------------------------------------------------------
(* Scheduling.                                                             *)

\* pop_all_ready as select_background_batch uses it: the processes it pops
\* and does not select are requeued under the same lock, S is the rest.
PopBatch(k, S, first) ==
  [k EXCEPT !.st = [p \in Pid |-> IF p \in S THEN Running ELSE k.st[p]],
            !.ready = k.ready \ S, !.cur = first, !.yield = FALSE]

PopForegroundReady(k, p) ==
  [k EXCEPT !.st[p] = Running, !.ready = @ \ {p}, !.cur = p, !.yield = FALSE]

SetCurrent(k, p) == [k EXCEPT !.cur = p]

\* requeue_current
RequeueCurrent(k) ==
  LET p == k.cur
  IN  IF p = None THEN k
      ELSE IF ~Exists(k, p) THEN [k EXCEPT !.cur = None]
      ELSE IF k.st[p] # Running \/ p \in k.fg THEN k
      ELSE [k EXCEPT !.st[p] = Ready, !.ready = @ \cup {p}, !.cur = None]

\* terminate_and_cleanup of the driver: a terminated process nobody can reap is
\* dropped.
TerminateAndCleanup(k, p) ==
  LET dead == TerminateCurrent(SetCurrent(k, p))
  IN  IF dead.parent[p] = None THEN DropTerminated(dead, p) ELSE dead

=============================================================================
