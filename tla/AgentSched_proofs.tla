-------------------------- MODULE AgentSched_proofs --------------------------
(***************************************************************************)
(* Proofs about AgentSched, for every number of processes and ticks, every *)
(* set of capabilities and signals, and daemons with any restart budget.   *)
(*                                                                         *)
(* All of them rest on one inductive invariant of the kernel, KernelInv.   *)
(* It is preserved by every kernel method of ProcTable (the lemmas of the  *)
(* first part), hence by every step of the scheduler, however the driver   *)
(* and the turns interleave those methods.                                 *)
(***************************************************************************)
EXTENDS AgentSched, TLAPS

\* A pid that was never allocated has no entry.
FreshPids(s) == \A p \in Pid : p >= s.next => s.st[p] = Absent

\* The invariants of AgentSched, as predicates of a kernel state.
ReadyQueued(s) == \A p \in Pid : s.st[p] = Ready => p \in s.ready
ReadyClean(s)  == \A p \in s.ready : s.st[p] \notin {Absent, Terminated, Stopped}
WaitersKnown(s) ==
  \A w, p \in Pid : s.st[w] = WaitingExit(p) =>
    w \in s.waitq[p] /\ s.st[p] \notin {Absent, Terminated}
TimersArmed(s) ==
  \A p \in Pid : IsSleeping(s.st[p]) => /\ s.st[p][2] > s.tick
                                        /\ <<s.st[p][2], p>> \in s.heap
IndexSound(s) == \A p \in Pid : \A c \in s.kids[p] : s.st[c] # Absent /\ s.parent[c] = p

KernelInv(s) == /\ s \in Kernel
                /\ s.next \in 1..(MaxPid + 1)
                /\ FreshPids(s)
                /\ ReadyQueued(s)
                /\ ReadyClean(s)
                /\ WaitersKnown(s)
                /\ TimersArmed(s)
                /\ IndexSound(s)

-----------------------------------------------------------------------------
(* Process states: the tuples that stand for them are told apart by their  *)
(* first component.                                                        *)

LEMMA States ==
  /\ Absent \in State /\ Ready \in State /\ Running \in State
  /\ Stopped \in State /\ Terminated \in State
  /\ \A p \in Pid : WaitingExit(p) \in State
  /\ \A t \in Nat : Sleeping(t) \in State
  /\ Absent # Ready /\ Absent # Running /\ Absent # Stopped /\ Absent # Terminated
  /\ Ready # Running /\ Ready # Stopped /\ Ready # Terminated
  /\ Running # Stopped /\ Running # Terminated /\ Stopped # Terminated
  /\ \A p : WaitingExit(p) \notin {Absent, Ready, Running, Stopped, Terminated}
  /\ \A t : Sleeping(t) \notin {Absent, Ready, Running, Stopped, Terminated}
  /\ \A p, t : WaitingExit(p) # Sleeping(t)
  /\ \A p, q : WaitingExit(p) = WaitingExit(q) => p = q
  /\ \A x \in {Absent, Ready, Running, Stopped, Terminated} : ~IsSleeping(x)
  /\ \A p : ~IsSleeping(WaitingExit(p))
  /\ \A t : IsSleeping(Sleeping(t)) /\ Sleeping(t)[2] = t
BY DEF State, Absent, Ready, Running, Stopped, Terminated, WaitingExit, Sleeping,
       IsSleeping

\* terminate_pid of a set of victims.
LEMMA TerminateInv ==
  ASSUME NEW s, KernelInv(s), NEW V \in SUBSET Pid
  PROVE  KernelInv(TerminatePids(s, V))
<1> DEFINE n == TerminatePids(s, V)
           woken == Waiters(s, V) \ V
<1>1. woken \subseteq Pid /\ \A w \in woken : s.st[w] # Absent
  BY DEF Waiters, Exists, KernelInv, Kernel
<1>2. /\ n.st = [p \in Pid |-> IF p \in V /\ Exists(s, p) THEN Terminated
                               ELSE IF p \in woken THEN Ready ELSE s.st[p]]
      /\ n.ready = (s.ready \cup woken) \ V
      /\ n.waitq = [p \in Pid |-> IF p \in V THEN {} ELSE s.waitq[p]]
      /\ n.kids = s.kids /\ n.parent = s.parent /\ n.next = s.next
      /\ n.heap = s.heap /\ n.tick = s.tick
  BY DEF TerminatePids, KernelInv, Kernel
<1>3. n \in Kernel
  BY <1>1, States DEF TerminatePids, KernelInv, Kernel
<1>4. FreshPids(n)
  BY <1>1, <1>2 DEF FreshPids, KernelInv, Exists
<1>5. ReadyQueued(n)
  BY <1>1, <1>2, States DEF ReadyQueued, KernelInv, Exists
<1>6. ReadyClean(n)
  BY <1>1, <1>2, States DEF ReadyClean, KernelInv, Kernel
<1>7. WaitersKnown(n)
  <2> SUFFICES ASSUME NEW w \in Pid, NEW p \in Pid, n.st[w] = WaitingExit(p)
               PROVE  w \in n.waitq[p] /\ n.st[p] \notin {Absent, Terminated}
    BY DEF WaitersKnown
  <2>1. s.st[w] = WaitingExit(p) /\ w \notin woken /\ ~(w \in V /\ Exists(s, w))
    BY <1>2, States
  <2>2. w \notin V
    BY <2>1, States DEF Exists
  <2>3. w \in s.waitq[p] /\ s.st[p] \notin {Absent, Terminated}
    BY <2>1 DEF KernelInv, WaitersKnown
  <2>4. p \notin V
    BY <2>1, <2>2, <2>3, States DEF Waiters, Exists
  <2> QED BY <1>2, <2>3, <2>4, States
<1>8. TimersArmed(n)
  BY <1>2, States DEF TimersArmed, KernelInv
<1>9. IndexSound(n)
  BY <1>1, <1>2, States DEF IndexSound, KernelInv, Kernel
<1> QED BY <1>2, <1>3, <1>4, <1>5, <1>6, <1>7, <1>8, <1>9 DEF KernelInv

\* remove_process_entry of a terminated process: whoever leaves the table with
\* it is terminated too, so nobody waits for them.
LEMMA RemoveInv ==
  ASSUME NEW s, KernelInv(s), NEW p \in Pid, s.st[p] = Terminated
  PROVE  KernelInv(RemoveEntry(s, p))
<1> DEFINE G == Removed(s, p)
           n == RemoveEntries(s, G)
           orphans == (UNION {s.kids[g] : g \in G}) \ G
<1>1. G \subseteq Pid /\ \A g \in G : s.st[g] = Terminated
  BY DEF Removed
<1>2. orphans \subseteq Pid
  BY <1>1 DEF KernelInv, Kernel
<1> HIDE DEF G
<1>3. /\ n.st = [q \in Pid |-> IF q \in G THEN Absent ELSE s.st[q]]
      /\ n.parent = [q \in Pid |-> IF q \in G \cup orphans THEN None ELSE s.parent[q]]
      /\ n.kids = [q \in Pid |-> IF q \in G THEN {} ELSE s.kids[q] \ G]
      /\ n.ready = s.ready \ G
      /\ n.waitq = [q \in Pid |-> IF q \in G THEN {} ELSE s.waitq[q]]
      /\ n.next = s.next /\ n.heap = s.heap /\ n.tick = s.tick
  BY DEF RemoveEntries, KernelInv, Kernel
<1>4. n \in Kernel
  <2>1. <<>> \in Seq(Signal) /\ None \in Pid \cup {None} /\ 0 \in Nat
    OBVIOUS
  <2> QED BY <2>1, <1>1, States DEF RemoveEntries, KernelInv, Kernel
<1>5. FreshPids(n)
  BY <1>1, <1>3 DEF FreshPids, KernelInv
<1>6. ReadyQueued(n)
  BY <1>1, <1>3, States DEF ReadyQueued, KernelInv
<1>7. ReadyClean(n)
  BY <1>1, <1>3, States DEF ReadyClean, KernelInv, Kernel
<1>8. WaitersKnown(n)
  <2> SUFFICES ASSUME NEW w \in Pid, NEW q \in Pid, n.st[w] = WaitingExit(q)
               PROVE  w \in n.waitq[q] /\ n.st[q] \notin {Absent, Terminated}
    BY DEF WaitersKnown
  <2>1. s.st[w] = WaitingExit(q)
    BY <1>3, States
  <2>2. w \in s.waitq[q] /\ s.st[q] \notin {Absent, Terminated}
    BY <2>1 DEF KernelInv, WaitersKnown
  <2> QED BY <1>1, <1>3, <2>2
<1>9. TimersArmed(n)
  BY <1>3, States DEF TimersArmed, KernelInv
<1>10. IndexSound(n)
  <2> SUFFICES ASSUME NEW q \in Pid, NEW c \in n.kids[q]
               PROVE  n.st[c] # Absent /\ n.parent[c] = q
    BY DEF IndexSound
  <2>1. q \notin G /\ c \in s.kids[q] /\ c \notin G /\ c \in Pid
    BY <1>3 DEF KernelInv, Kernel
  <2>2. s.st[c] # Absent /\ s.parent[c] = q
    BY <2>1 DEF KernelInv, IndexSound
  <2>3. c \notin orphans
    BY <1>1, <2>1, <2>2 DEF KernelInv, IndexSound
  <2> QED BY <1>3, <2>1, <2>2, <2>3
<1> QED BY <1>3, <1>4, <1>5, <1>6, <1>7, <1>8, <1>9, <1>10 DEF KernelInv, RemoveEntry, G

\* drop_terminated
LEMMA DropTerminatedInv ==
  ASSUME NEW s, KernelInv(s), NEW p \in Pid
  PROVE  KernelInv(DropTerminated(s, p))
BY RemoveInv DEF DropTerminated

\* Fields KernelInv does not read: sigs, fg, cur, yield, left.
LEMMA SameTable ==
  ASSUME NEW s, KernelInv(s), NEW n \in Kernel,
         n.st = s.st, n.ready = s.ready, n.waitq = s.waitq, n.kids = s.kids,
         n.parent = s.parent, n.next = s.next, n.heap = s.heap, n.tick = s.tick
  PROVE  KernelInv(n)
BY DEF KernelInv, FreshPids, ReadyQueued, ReadyClean, WaitersKnown, TimersArmed, IndexSound

\* One process of the table changes its state, and is queued where the new
\* state says.
LEMMA StateChange ==
  ASSUME NEW s, KernelInv(s), NEW n \in Kernel, NEW p \in Pid, NEW x \in State,
         s.st[p] # Absent, x \notin {Absent, Terminated},
         n.st = [s.st EXCEPT ![p] = x],
         n.kids = s.kids, n.parent = s.parent, n.next = s.next, n.tick = s.tick,
         n.ready \subseteq s.ready \cup {p}, s.ready \ {p} \subseteq n.ready,
         x = Ready => p \in n.ready, x = Stopped => p \notin n.ready,
         \A q \in Pid : s.waitq[q] \subseteq n.waitq[q],
         \A q \in Pid : x = WaitingExit(q) =>
                          p \in n.waitq[q] /\ s.st[q] \notin {Absent, Terminated},
         s.heap \subseteq n.heap,
         IsSleeping(x) => x[2] > s.tick /\ <<x[2], p>> \in n.heap
  PROVE  KernelInv(n)
<1>1. s \in Kernel
  BY DEF KernelInv
<1>2. FreshPids(n)
  BY <1>1 DEF FreshPids, KernelInv, Kernel
<1>3. ReadyQueued(n)
  BY <1>1 DEF ReadyQueued, KernelInv, Kernel
<1>4. ReadyClean(n)
  BY <1>1, States DEF ReadyClean, KernelInv, Kernel
<1>5. WaitersKnown(n)
  BY <1>1, States DEF WaitersKnown, KernelInv, Kernel
<1>6. TimersArmed(n)
  <2> SUFFICES ASSUME NEW q \in Pid, IsSleeping(n.st[q])
               PROVE  n.st[q][2] > n.tick /\ <<n.st[q][2], q>> \in n.heap
    BY DEF TimersArmed
  <2>1. CASE q = p
    <3>1. n.st[q] = x
      BY <1>1, <2>1 DEF Kernel
    <3> QED BY <2>1, <3>1
  <2>2. CASE q # p
    <3>1. n.st[q] = s.st[q]
      BY <1>1, <2>2 DEF Kernel
    <3> QED BY <3>1 DEF KernelInv, TimersArmed
  <2> QED BY <2>1, <2>2
<1>7. IndexSound(n)
  BY <1>1 DEF IndexSound, KernelInv, Kernel
<1> QED BY <1>2, <1>3, <1>4, <1>5, <1>6, <1>7 DEF KernelInv

\* A process is made Ready and enqueued.
LEMMA Awakened ==
  ASSUME NEW s, KernelInv(s), NEW n \in Kernel, NEW p \in Pid, s.st[p] # Absent,
         n.st = [s.st EXCEPT ![p] = Ready], n.ready = s.ready \cup {p},
         n.waitq = s.waitq, n.kids = s.kids, n.parent = s.parent, n.next = s.next,
         n.heap = s.heap, n.tick = s.tick
  PROVE  KernelInv(n)
<1>1. /\ Ready \in State /\ Ready \notin {Absent, Terminated}
      /\ IsSleeping(Ready) => Ready[2] > s.tick /\ <<Ready[2], p>> \in n.heap
      /\ \A q \in Pid : Ready = WaitingExit(q) =>
                         p \in n.waitq[q] /\ s.st[q] \notin {Absent, Terminated}
      /\ \A q \in Pid : s.waitq[q] \subseteq n.waitq[q]
      /\ s.heap \subseteq n.heap
      /\ n.ready \subseteq s.ready \cup {p} /\ s.ready \ {p} \subseteq n.ready
      /\ Ready = Ready => p \in n.ready
      /\ Ready = Stopped => p \notin n.ready
  BY States
<1> QED BY <1>1, StateChange

\* A process is stopped, or picked to run, and leaves the ready set.
LEMMA Dequeued ==
  ASSUME NEW s, KernelInv(s), NEW n \in Kernel, NEW p \in Pid, s.st[p] # Absent,
         NEW x \in {Running, Stopped},
         n.st = [s.st EXCEPT ![p] = x], n.ready = s.ready \ {p},
         n.waitq = s.waitq, n.kids = s.kids, n.parent = s.parent, n.next = s.next,
         n.heap = s.heap, n.tick = s.tick
  PROVE  KernelInv(n)
<1>1. /\ x \in State /\ x \notin {Absent, Terminated}
      /\ IsSleeping(x) => x[2] > s.tick /\ <<x[2], p>> \in n.heap
      /\ \A q \in Pid : x = WaitingExit(q) =>
                         p \in n.waitq[q] /\ s.st[q] \notin {Absent, Terminated}
      /\ \A q \in Pid : s.waitq[q] \subseteq n.waitq[q]
      /\ s.heap \subseteq n.heap
      /\ n.ready \subseteq s.ready \cup {p} /\ s.ready \ {p} \subseteq n.ready
      /\ x = Ready => p \in n.ready
      /\ x = Stopped => p \notin n.ready
  BY States
<1> QED BY <1>1, StateChange

\* set_current_pid
LEMMA SetCurrentInv ==
  ASSUME NEW s, KernelInv(s), NEW p \in Pid \cup {None}
  PROVE  KernelInv(SetCurrent(s, p)) /\ SetCurrent(s, p).cur = p
BY SameTable DEF SetCurrent, KernelInv, Kernel

\* terminate_current
LEMMA TerminateCurrentInv ==
  ASSUME NEW s, KernelInv(s)
  PROVE  KernelInv(TerminateCurrent(s))
<1>1. CASE s.cur = None
  BY <1>1 DEF TerminateCurrent
<1>2. CASE s.cur # None
  <2>1. {s.cur} \in SUBSET Pid
    BY <1>2 DEF KernelInv, Kernel
  <2>2. KernelInv(TerminatePids(s, {s.cur}))
    BY <2>1, TerminateInv
  <2>3. TerminateCurrent(s) = SetCurrent(TerminatePids(s, {s.cur}), None)
    BY <1>2 DEF TerminateCurrent, SetCurrent
  <2> QED BY <2>2, <2>3, SetCurrentInv
<1> QED BY <1>1, <1>2

-----------------------------------------------------------------------------
(* Creation.                                                               *)

LEMMA NewEntryFields ==
  ASSUME NEW s, KernelInv(s), CanAllocate(s),
         NEW par \in Pid \cup {None}, NEW state \in State, NEW r \in Nat
  PROVE  LET p == s.next
             e == NewEntry(s, par, state, r)
         IN  /\ p \in Pid /\ p + 1 \in 1..(MaxPid + 1) /\ s.st[p] = Absent
             /\ e \in Kernel
             /\ e.st = [s.st EXCEPT ![p] = state] /\ e.parent = [s.parent EXCEPT ![p] = par]
             /\ e.kids = s.kids /\ e.ready = s.ready /\ e.waitq = s.waitq
             /\ e.heap = s.heap /\ e.tick = s.tick /\ e.next = p + 1
             /\ e.fg = s.fg /\ e.cur = s.cur
<1> DEFINE p == s.next
           e == NewEntry(s, par, state, r)
<1>1. p \in Pid /\ p + 1 \in Nat /\ p + 1 \in 1..(MaxPid + 1) /\ s.st[p] = Absent
  BY TableAssumption DEF KernelInv, CanAllocate, Pid, FreshPids
<1>2. s \in Kernel /\ <<>> \in Seq(Signal)
  BY DEF KernelInv
<1>3. e = [s EXCEPT !.st = [s.st EXCEPT ![p] = state],
                    !.parent = [s.parent EXCEPT ![p] = par],
                    !.left = [s.left EXCEPT ![p] = r],
                    !.sigs = [s.sigs EXCEPT ![p] = <<>>], !.next = p + 1]
  BY <1>2 DEF NewEntry, Kernel
<1>4. /\ [s.st EXCEPT ![p] = state] \in [Pid -> State]
      /\ [s.parent EXCEPT ![p] = par] \in [Pid -> Pid \cup {None}]
      /\ [s.left EXCEPT ![p] = r] \in [Pid -> Nat]
      /\ [s.sigs EXCEPT ![p] = <<>>] \in [Pid -> Seq(Signal)]
  BY <1>1, <1>2 DEF Kernel
<1>5. e \in Kernel
  BY <1>1, <1>2, <1>3, <1>4 DEF Kernel
<1> QED BY <1>1, <1>2, <1>3, <1>5 DEF Kernel

\* The new process has a pid nobody had, and is schedulable at once.
LEMMA SpawnInv ==
  ASSUME NEW s, KernelInv(s), NEW par \in Pid \cup {None}, NEW r \in Nat, CanAllocate(s)
  PROVE  KernelInv(Spawn(s, par, r))
<1> DEFINE n == Spawn(s, par, r)
           p == s.next
           e == NewEntry(s, par, Ready, r)
           kids == [q \in Pid |-> IF q = par THEN s.kids[q] \cup {p} ELSE s.kids[q]]
<1>0. /\ p \in Pid /\ p + 1 \in 1..(MaxPid + 1) /\ s.st[p] = Absent
      /\ e \in Kernel
      /\ e.st = [s.st EXCEPT ![p] = Ready] /\ e.parent = [s.parent EXCEPT ![p] = par]
      /\ e.kids = s.kids /\ e.ready = s.ready /\ e.waitq = s.waitq
      /\ e.heap = s.heap /\ e.tick = s.tick /\ e.next = p + 1
  BY NewEntryFields, States
<1>1. p \in Pid /\ p + 1 \in 1..(MaxPid + 1) /\ s.st[p] = Absent
  BY <1>0
<1>a. n = [e EXCEPT !.kids = kids, !.ready = s.ready \cup {p}]
  BY <1>0 DEF Spawn, Kernel
<1>2. /\ n.st = [s.st EXCEPT ![p] = Ready] /\ n.parent = [s.parent EXCEPT ![p] = par]
      /\ n.kids = kids /\ n.ready = s.ready \cup {p}
      /\ n.waitq = s.waitq /\ n.next = p + 1 /\ n.heap = s.heap /\ n.tick = s.tick
  BY <1>0, <1>a DEF Kernel
<1>3. n \in Kernel
  <2>1. kids \in [Pid -> SUBSET Pid]
    BY <1>1 DEF KernelInv, Kernel
  <2>2. s.ready \cup {p} \in SUBSET Pid
    BY <1>1 DEF KernelInv, Kernel
  <2> HIDE DEF e, n
  <2> QED BY <2>1, <2>2, <1>0, <1>a DEF Kernel
<1>4. FreshPids(n)
  BY <1>1, <1>2 DEF FreshPids, KernelInv, Kernel, Pid
<1>5. ReadyQueued(n) /\ ReadyClean(n)
  BY <1>1, <1>2, States DEF ReadyQueued, ReadyClean, KernelInv, Kernel
<1>6. WaitersKnown(n)
  BY <1>1, <1>2, States DEF WaitersKnown, KernelInv, Kernel
<1>7. TimersArmed(n)
  BY <1>1, <1>2, States DEF TimersArmed, KernelInv, Kernel
<1>8. IndexSound(n)
  <2> SUFFICES ASSUME NEW q \in Pid, NEW c \in n.kids[q]
               PROVE  n.st[c] # Absent /\ n.parent[c] = q
    BY DEF IndexSound
  <2>1. CASE c \in s.kids[q]
    <3>1. c \in Pid /\ s.st[c] # Absent /\ s.parent[c] = q
      BY <2>1 DEF KernelInv, IndexSound, Kernel
    <3> QED BY <3>1, <1>1, <1>2 DEF KernelInv, Kernel
  <2>2. CASE c \notin s.kids[q]
    <3>1. q = par /\ c = p
      BY <2>2, <1>2 DEF KernelInv, Kernel
    <3> QED BY <3>1, <1>1, <1>2, States DEF KernelInv, Kernel
  <2> QED BY <2>1, <2>2
<1> QED BY <1>1, <1>2, <1>3, <1>4, <1>5, <1>6, <1>7, <1>8 DEF KernelInv

\* begin_foreground
LEMMA BeginForegroundInv ==
  ASSUME NEW s, KernelInv(s), CanAllocate(s)
  PROVE  KernelInv(BeginForeground(s)) /\ s.next \in Pid
<1> DEFINE n == BeginForeground(s)
           p == s.next
           e == NewEntry(s, None, Running, 0)
<1>0. /\ p \in Pid /\ p + 1 \in 1..(MaxPid + 1) /\ s.st[p] = Absent
      /\ e \in Kernel
      /\ e.st = [s.st EXCEPT ![p] = Running] /\ e.parent = [s.parent EXCEPT ![p] = None]
      /\ e.kids = s.kids /\ e.ready = s.ready /\ e.waitq = s.waitq
      /\ e.heap = s.heap /\ e.tick = s.tick /\ e.next = p + 1
  BY NewEntryFields, States
<1>1. p \in Pid /\ p + 1 \in 1..(MaxPid + 1) /\ s.st[p] = Absent
  BY <1>0
<1>a. n = [e EXCEPT !.fg = e.fg \cup {p}, !.cur = p]
  BY DEF BeginForeground
<1>2. /\ n.st = [s.st EXCEPT ![p] = Running] /\ n.parent = [s.parent EXCEPT ![p] = None]
      /\ n.kids = s.kids /\ n.ready = s.ready
      /\ n.waitq = s.waitq /\ n.next = p + 1 /\ n.heap = s.heap /\ n.tick = s.tick
  BY <1>0, <1>a DEF Kernel
<1>3. n \in Kernel
  <2> HIDE DEF e, n
  <2> QED BY <1>0, <1>a DEF Kernel
<1>4. FreshPids(n)
  BY <1>1, <1>2 DEF FreshPids, KernelInv, Kernel, Pid
<1>5. ReadyQueued(n) /\ ReadyClean(n)
  BY <1>1, <1>2, States DEF ReadyQueued, ReadyClean, KernelInv, Kernel
<1>6. WaitersKnown(n)
  BY <1>1, <1>2, States DEF WaitersKnown, KernelInv, Kernel
<1>7. TimersArmed(n)
  BY <1>1, <1>2, States DEF TimersArmed, KernelInv, Kernel
<1>8. IndexSound(n)
  BY <1>1, <1>2, States DEF IndexSound, KernelInv, Kernel
<1> QED BY <1>1, <1>2, <1>3, <1>4, <1>5, <1>6, <1>7, <1>8 DEF KernelInv

\* check_daemon_restart, for one dead daemon: its entry is dropped ...
DropDaemon(s, old) ==
  [s EXCEPT !.st[old] = Absent, !.parent[old] = None, !.left[old] = 0, !.sigs[old] = <<>>,
            !.kids = [q \in Pid |-> IF q = old THEN {} ELSE s.kids[q] \ {old}],
            !.ready = @ \ {old}, !.waitq[old] = {}]

LEMMA DropDaemonInv ==
  ASSUME NEW s, KernelInv(s), NEW old \in Pid, s.st[old] = Terminated
  PROVE  LET d == DropDaemon(s, old)
         IN  /\ KernelInv(d)
             /\ d.st = [s.st EXCEPT ![old] = Absent] /\ d.parent = [s.parent EXCEPT ![old] = None]
             /\ d.kids = [q \in Pid |-> IF q = old THEN {} ELSE s.kids[q] \ {old}]
             /\ d.next = s.next
<1> DEFINE kids == [q \in Pid |-> IF q = old THEN {} ELSE s.kids[q] \ {old}]
           d == DropDaemon(s, old)
<1>1. s \in Kernel /\ <<>> \in Seq(Signal)
  BY DEF KernelInv
<1>2. d = [s EXCEPT !.st = [s.st EXCEPT ![old] = Absent],
                    !.parent = [s.parent EXCEPT ![old] = None],
                    !.left = [s.left EXCEPT ![old] = 0],
                    !.sigs = [s.sigs EXCEPT ![old] = <<>>],
                    !.kids = kids, !.ready = s.ready \ {old},
                    !.waitq = [s.waitq EXCEPT ![old] = {}]]
  BY <1>1 DEF DropDaemon, Kernel
<1>3. /\ [s.st EXCEPT ![old] = Absent] \in [Pid -> State]
      /\ [s.parent EXCEPT ![old] = None] \in [Pid -> Pid \cup {None}]
      /\ [s.left EXCEPT ![old] = 0] \in [Pid -> Nat]
      /\ [s.sigs EXCEPT ![old] = <<>>] \in [Pid -> Seq(Signal)]
      /\ kids \in [Pid -> SUBSET Pid]
      /\ s.ready \ {old} \in SUBSET Pid
      /\ [s.waitq EXCEPT ![old] = {}] \in [Pid -> SUBSET Pid]
  BY <1>1, States DEF Kernel
<1>4. d \in Kernel
  <2> HIDE DEF d, kids
  <2> QED BY <1>1, <1>2, <1>3 DEF Kernel
<1>5. /\ d.st = [s.st EXCEPT ![old] = Absent] /\ d.parent = [s.parent EXCEPT ![old] = None]
      /\ d.kids = kids /\ d.ready = s.ready \ {old}
      /\ d.waitq = [s.waitq EXCEPT ![old] = {}]
      /\ d.next = s.next /\ d.heap = s.heap /\ d.tick = s.tick
  BY <1>1, <1>2 DEF Kernel
<1> HIDE DEF d
<1>6. KernelInv(d)
  <2>1. FreshPids(d)
    BY <1>1, <1>5 DEF FreshPids, KernelInv, Kernel
  <2>2. ReadyQueued(d) /\ ReadyClean(d)
    BY <1>1, <1>5, States DEF ReadyQueued, ReadyClean, KernelInv, Kernel
  <2>3. WaitersKnown(d)
    BY <1>1, <1>5, States DEF WaitersKnown, KernelInv, Kernel
  <2>4. TimersArmed(d)
    BY <1>1, <1>5, States DEF TimersArmed, KernelInv, Kernel
  <2>5. IndexSound(d)
    BY <1>1, <1>5, States DEF IndexSound, KernelInv, Kernel
  <2> QED BY <1>4, <1>5, <2>1, <2>2, <2>3, <2>4, <2>5 DEF KernelInv
<1> QED BY <1>5, <1>6 DEF d

\* ... and its successor spawned.
LEMMA RestartDaemonInv ==
  ASSUME NEW s, KernelInv(s), NEW old \in Pid, s.st[old] = Terminated, s.left[old] > 0,
         CanAllocate(s)
  PROVE  KernelInv(RestartDaemon(s, old))
<1> DEFINE d == DropDaemon(s, old)
<1>1. KernelInv(d) /\ d.next = s.next
  BY DropDaemonInv
<1>2. s.parent[old] \in Pid \cup {None} /\ s.left[old] - 1 \in Nat
  BY DEF KernelInv, Kernel
<1>3. CanAllocate(d)
  BY <1>1 DEF CanAllocate
<1>4. RestartDaemon(s, old) = Spawn(d, s.parent[old], s.left[old] - 1)
  BY DEF RestartDaemon, DropDaemon
<1> QED BY <1>1, <1>2, <1>3, <1>4, SpawnInv

-----------------------------------------------------------------------------
(* Blocking calls.                                                         *)

LEMMA WaitOnInv ==
  ASSUME NEW s, KernelInv(s), NEW me \in Pid, NEW p \in Pid,
         s.st[me] # Absent, s.st[p] \notin {Absent, Terminated}
  PROVE  KernelInv(WaitOn(s, me, p))
<1> DEFINE n == WaitOn(s, me, p)
<1>1. s \in Kernel
  BY DEF KernelInv
<1>2. n = [s EXCEPT !.st = [s.st EXCEPT ![me] = WaitingExit(p)],
                    !.waitq = [s.waitq EXCEPT ![p] = s.waitq[p] \cup {me}],
                    !.cur = None, !.yield = TRUE]
  BY <1>1 DEF WaitOn, Kernel
<1>3. /\ [s.st EXCEPT ![me] = WaitingExit(p)] \in [Pid -> State]
      /\ [s.waitq EXCEPT ![p] = s.waitq[p] \cup {me}] \in [Pid -> SUBSET Pid]
  BY <1>1, States DEF Kernel
<1> HIDE DEF n
<1>4. n \in Kernel
  BY <1>1, <1>2, <1>3 DEF Kernel
<1>5. /\ n.st = [s.st EXCEPT ![me] = WaitingExit(p)] /\ n.kids = s.kids
      /\ n.parent = s.parent /\ n.next = s.next /\ n.tick = s.tick /\ n.heap = s.heap
      /\ n.ready = s.ready
      /\ n.waitq = [s.waitq EXCEPT ![p] = s.waitq[p] \cup {me}]
  BY <1>1, <1>2 DEF Kernel
<1>6. /\ WaitingExit(p) \in State /\ ~IsSleeping(WaitingExit(p))
      /\ WaitingExit(p) \notin {Absent, Terminated, Ready, Stopped}
      /\ \A q \in Pid : s.waitq[q] \subseteq n.waitq[q]
      /\ \A q \in Pid : WaitingExit(p) = WaitingExit(q) =>
                         me \in n.waitq[q] /\ s.st[q] \notin {Absent, Terminated}
  BY <1>1, <1>5, States DEF Kernel
<1>7. KernelInv(n)
  BY <1>4, <1>5, <1>6, StateChange
<1> QED BY <1>7 DEF n

LEMMA SleepCurrentInv ==
  ASSUME NEW s, KernelInv(s), NEW me \in Pid, s.st[me] # Absent, NEW t \in Nat \ {0}
  PROVE  KernelInv(SleepCurrent(s, me, t))
<1> DEFINE n == SleepCurrent(s, me, t)
           until == s.tick + t
           x == Sleeping(until)
<1>1. s \in Kernel /\ until \in Nat /\ until > s.tick
  BY DEF KernelInv, Kernel
<1>2. n = [s EXCEPT !.st = [s.st EXCEPT ![me] = x],
                    !.heap = s.heap \cup {<<until, me>>},
                    !.cur = None, !.yield = TRUE]
  BY <1>1 DEF SleepCurrent, Kernel
<1>3. /\ [s.st EXCEPT ![me] = x] \in [Pid -> State]
      /\ s.heap \cup {<<until, me>>} \in SUBSET (Nat \X Pid)
  BY <1>1, States DEF Kernel
<1> HIDE DEF n
<1>4. n \in Kernel
  BY <1>1, <1>2, <1>3 DEF Kernel
<1>5. /\ n.st = [s.st EXCEPT ![me] = x] /\ n.kids = s.kids
      /\ n.parent = s.parent /\ n.next = s.next /\ n.tick = s.tick
      /\ n.heap = s.heap \cup {<<until, me>>}
      /\ n.ready = s.ready /\ n.waitq = s.waitq
  BY <1>1, <1>2 DEF Kernel
<1>6. x \in State /\ x[2] = until
      /\ x \notin {Absent, Terminated, Ready, Stopped}
      /\ \A q \in Pid : x # WaitingExit(q)
  BY <1>1, States
<1>a. /\ x[2] > s.tick /\ <<x[2], me>> \in n.heap
      /\ s.heap \subseteq n.heap /\ \A q \in Pid : s.waitq[q] \subseteq n.waitq[q]
  BY <1>1, <1>5, <1>6
<1>b. /\ n.ready \subseteq s.ready \cup {me} /\ s.ready \ {me} \subseteq n.ready
      /\ x = Ready => me \in n.ready
      /\ x = Stopped => me \notin n.ready
  BY <1>5, <1>6
<1>c. /\ x \in State /\ x \notin {Absent, Terminated}
      /\ \A q \in Pid : x = WaitingExit(q) =>
                         me \in n.waitq[q] /\ s.st[q] \notin {Absent, Terminated}
      /\ IsSleeping(x) => x[2] > s.tick /\ <<x[2], me>> \in n.heap
  BY <1>6, <1>a
<1> HIDE DEF until, x
<1>7. KernelInv(n)
  BY <1>4, <1>5, <1>a, <1>b, <1>c, StateChange
<1> QED BY <1>7 DEF n

\* advance_ticks: whoever is not woken is due after the new tick, so its entry
\* is still in the heap.
LEMMA AdvanceTicksInv ==
  ASSUME NEW s, KernelInv(s), NEW t \in Nat
  PROVE  KernelInv(AdvanceTicks(s, t))
<1> DEFINE n == AdvanceTicks(s, t)
           now == s.tick + t
           due == {e \in s.heap : e[1] <= now}
           woken == {p \in Pid : IsSleeping(s.st[p]) /\ <<s.st[p][2], p>> \in due}
           st == [p \in Pid |-> IF p \in woken THEN Ready ELSE s.st[p]]
<1>1. s \in Kernel /\ now \in Nat /\ woken \subseteq Pid
  BY DEF KernelInv, Kernel
<1>2. n = [s EXCEPT !.st = st, !.ready = s.ready \cup woken,
                    !.heap = s.heap \ due, !.tick = now]
  BY DEF AdvanceTicks
<1>3. st \in [Pid -> State]
  BY <1>1, States DEF Kernel
<1>4. n \in Kernel
  <2> HIDE DEF n, st, woken, due, now
  <2> QED BY <1>1, <1>2, <1>3 DEF Kernel
<1>5. /\ n.st = st /\ n.ready = s.ready \cup woken /\ n.heap = s.heap \ due
      /\ n.tick = now /\ n.kids = s.kids /\ n.parent = s.parent
      /\ n.next = s.next /\ n.waitq = s.waitq
  <2> HIDE DEF st, woken, due, now
  <2> QED BY <1>1, <1>2 DEF Kernel
<1>6. \A p \in woken : s.st[p] \notin {Absent, Ready, Running, Stopped, Terminated}
  BY States
<1> HIDE DEF n
<1>7. FreshPids(n)
  BY <1>1, <1>5, <1>6 DEF FreshPids, KernelInv
<1>8. ReadyQueued(n) /\ ReadyClean(n)
  BY <1>1, <1>5, States DEF ReadyQueued, ReadyClean, KernelInv, Kernel
<1>9. WaitersKnown(n)
  BY <1>1, <1>5, <1>6, States DEF WaitersKnown, KernelInv
<1>10. TimersArmed(n)
  <2> SUFFICES ASSUME NEW p \in Pid, IsSleeping(n.st[p])
               PROVE  n.st[p][2] > n.tick /\ <<n.st[p][2], p>> \in n.heap
    BY DEF TimersArmed
  <2>1. p \notin woken /\ n.st[p] = s.st[p]
    BY <1>5, States
  <2>2. s.st[p][2] > s.tick /\ <<s.st[p][2], p>> \in s.heap /\ IsSleeping(s.st[p])
    BY <2>1 DEF KernelInv, TimersArmed
  <2>3. <<s.st[p][2], p>> \notin due
    BY <2>1, <2>2
  <2>4. s.st[p][2] \in Nat
    BY <2>2, <1>1 DEF Kernel
  <2> QED BY <1>1, <1>5, <2>1, <2>2, <2>3, <2>4
<1>11. IndexSound(n)
  BY <1>1, <1>5, <1>6, States DEF IndexSound, KernelInv, Kernel
<1>12. KernelInv(n)
  BY <1>4, <1>5, <1>7, <1>8, <1>9, <1>10, <1>11 DEF KernelInv
<1> QED BY <1>12 DEF n

-----------------------------------------------------------------------------
(* Signals.                                                                *)

LEMMA DeliverCancelInv ==
  ASSUME NEW s, KernelInv(s), NEW p \in Pid
  PROVE  KernelInv(DeliverCancel(s, p))
<1> DEFINE sigs == [s.sigs EXCEPT ![p] = Append(@, "SigCancel")]
           n == [s EXCEPT !.sigs = sigs]
<1>1. sigs \in [Pid -> Seq(Signal)]
  BY DEF KernelInv, Kernel, Signal
<1>2. KernelInv(n)
  <2> HIDE DEF sigs
  <2> QED BY <1>1, SameTable DEF KernelInv, Kernel
<1>3. DeliverCancel(s, p) \in {s, n}
  BY DEF DeliverCancel, KernelInv, Kernel
<1> QED BY <1>2, <1>3

LEMMA DeliverTermInv ==
  ASSUME NEW s, KernelInv(s), NEW p \in Pid, s.st[p] # Absent
  PROVE  KernelInv(DeliverTerm(s, p))
<1> DEFINE sigs == [s.sigs EXCEPT ![p] = Append(@, "SigTerm")]
           queued == [s EXCEPT !.sigs = sigs]
           st == [s.st EXCEPT ![p] = Ready]
           n == [queued EXCEPT !.st = st, !.ready = s.ready \cup {p}]
<1>1. /\ sigs \in [Pid -> Seq(Signal)] /\ st \in [Pid -> State]
      /\ s.ready \cup {p} \in SUBSET Pid
  BY States DEF KernelInv, Kernel, Signal
<1>2. DeliverTerm(s, p) \in {queued, n}
  BY DEF DeliverTerm, KernelInv, Kernel
<1> HIDE DEF sigs, st
<1>3. /\ queued \in Kernel
      /\ queued.st = s.st /\ queued.ready = s.ready /\ queued.waitq = s.waitq
      /\ queued.kids = s.kids /\ queued.parent = s.parent /\ queued.next = s.next
      /\ queued.heap = s.heap /\ queued.tick = s.tick
  BY <1>1 DEF KernelInv, Kernel
<1>4. KernelInv(queued)
  BY <1>3, SameTable
<1> HIDE DEF queued
<1>5. /\ n \in Kernel
      /\ n.st = st /\ n.ready = s.ready \cup {p} /\ n.waitq = s.waitq
      /\ n.kids = s.kids /\ n.parent = s.parent /\ n.next = s.next
      /\ n.heap = s.heap /\ n.tick = s.tick
  BY <1>1, <1>3 DEF Kernel
<1>6. KernelInv(n)
  <2> HIDE DEF n
  <2> QED BY <1>5, Awakened DEF st
<1> QED BY <1>2, <1>4, <1>6

LEMMA DeliverStopInv ==
  ASSUME NEW s, KernelInv(s), NEW p \in Pid, s.st[p] # Absent
  PROVE  KernelInv(DeliverStop(s, p))
<1> DEFINE st == [s.st EXCEPT ![p] = Stopped]
           cur == IF s.cur = p THEN None ELSE s.cur
           yield == s.yield \/ s.cur = p
           n == [s EXCEPT !.st = st, !.ready = s.ready \ {p}, !.cur = cur, !.yield = yield]
<1>1. /\ st \in [Pid -> State] /\ cur \in Pid \cup {None} /\ yield \in BOOLEAN
      /\ s.ready \ {p} \in SUBSET Pid
  BY States DEF KernelInv, Kernel
<1>2. DeliverStop(s, p) \in {s, n}
  BY DEF DeliverStop, KernelInv, Kernel
<1> HIDE DEF st, cur, yield
<1>3. /\ n \in Kernel
      /\ n.st = st /\ n.ready = s.ready \ {p} /\ n.waitq = s.waitq
      /\ n.kids = s.kids /\ n.parent = s.parent /\ n.next = s.next
      /\ n.heap = s.heap /\ n.tick = s.tick
  BY <1>1 DEF KernelInv, Kernel
<1>4. KernelInv(n)
  <2> HIDE DEF n
  <2> QED BY <1>3, Dequeued DEF st
<1> QED BY <1>2, <1>4

LEMMA DeliverContInv ==
  ASSUME NEW s, KernelInv(s), NEW p \in Pid, s.st[p] # Absent
  PROVE  KernelInv(DeliverCont(s, p))
<1> DEFINE st == [s.st EXCEPT ![p] = Ready]
           n == [s EXCEPT !.st = st, !.ready = s.ready \cup {p}]
<1>1. st \in [Pid -> State] /\ s.ready \cup {p} \in SUBSET Pid
  BY States DEF KernelInv, Kernel
<1>2. DeliverCont(s, p) \in {s, n}
  BY DEF DeliverCont, KernelInv, Kernel
<1> HIDE DEF st
<1>3. /\ n \in Kernel
      /\ n.st = st /\ n.ready = s.ready \cup {p} /\ n.waitq = s.waitq
      /\ n.kids = s.kids /\ n.parent = s.parent /\ n.next = s.next
      /\ n.heap = s.heap /\ n.tick = s.tick
  BY <1>1 DEF KernelInv, Kernel
<1>4. KernelInv(n)
  <2> HIDE DEF n
  <2> QED BY <1>3, Awakened DEF st
<1> QED BY <1>2, <1>4

LEMMA CascadePids == ASSUME NEW s, NEW p \in Pid PROVE Cascade(s, p) \in SUBSET Pid
BY DEF Cascade, Descendants

\* deliver_signal
LEMMA DeliverSignalInv ==
  ASSUME NEW s, KernelInv(s), NEW p \in Pid, s.st[p] # Absent, NEW sig \in Signal
  PROVE  KernelInv(DeliverSignal(s, p, sig))
<1>1. CASE sig = "SigKill"
  <2>1. KernelInv(TerminatePids(s, Cascade(s, p)))
    BY CascadePids, TerminateInv
  <2> QED BY <1>1, <2>1 DEF DeliverSignal
<1>2. CASE sig # "SigKill"
  BY <1>2, DeliverCancelInv, DeliverTermInv, DeliverStopInv, DeliverContInv
  DEF DeliverSignal, Signal
<1> QED BY <1>1, <1>2

\* process_pending_signals
LEMMA ProcessPendingSignalsInv ==
  ASSUME NEW s, KernelInv(s)
  PROVE  KernelInv(ProcessPendingSignals(s))
<1> SUFFICES ASSUME s.cur # None
             PROVE  KernelInv(ProcessPendingSignals(s))
  BY DEF ProcessPendingSignals
<1> DEFINE sigs == [s.sigs EXCEPT ![s.cur] = <<>>]
           n == [s EXCEPT !.sigs = sigs]
<1>1. sigs \in [Pid -> Seq(Signal)]
  BY DEF KernelInv, Kernel
<1>2. KernelInv(n)
  <2> HIDE DEF sigs
  <2> QED BY <1>1, SameTable DEF KernelInv, Kernel
<1>3. ProcessPendingSignals(s) \in {s, n, TerminateCurrent(n)}
  BY DEF ProcessPendingSignals, KernelInv, Kernel
<1> QED BY <1>2, <1>3, TerminateCurrentInv

\* clear_tool_cancel
LEMMA ClearToolCancelInv ==
  ASSUME NEW s, KernelInv(s), NEW p \in Pid
  PROVE  KernelInv(ClearToolCancel(s, p))
<1> SUFFICES ASSUME Contains(s.sigs[p], "SigCancel")
             PROVE  KernelInv(ClearToolCancel(s, p))
  BY DEF ClearToolCancel
<1> DEFINE q == s.sigs[p]
           i == CHOOSE j \in DOMAIN q : q[j] = "SigCancel"
           sigs == [s.sigs EXCEPT ![p] = RemoveAt(q, i)]
           n == [s EXCEPT !.sigs = sigs]
<1>1. q \in Seq(Signal)
  BY DEF KernelInv, Kernel
<1>2. i \in 1..Len(q)
  BY <1>1 DEF Contains
<1>3. RemoveAt(q, i) \in Seq(Signal)
  <2>1. SubSeq(q, 1, i - 1) \in Seq(Signal) /\ SubSeq(q, i + 1, Len(q)) \in Seq(Signal)
    <3> HIDE DEF q, i
    <3> QED BY <1>1, <1>2
  <2> QED BY <2>1 DEF RemoveAt
<1> HIDE DEF i
<1>4. sigs \in [Pid -> Seq(Signal)]
  BY <1>3 DEF KernelInv, Kernel
<1>5. KernelInv(n)
  <2> HIDE DEF sigs
  <2> QED BY <1>4, SameTable DEF KernelInv, Kernel
<1>6. ClearToolCancel(s, p) = n
  BY DEF ClearToolCancel, KernelInv, Kernel, i
<1> QED BY <1>5, <1>6

-----------------------------------------------------------------------------
(* Scheduling.                                                             *)

\* pop_all_ready for a batch
LEMMA PopBatchInv ==
  ASSUME NEW s, KernelInv(s), NEW S \in SUBSET s.ready, NEW first \in S
  PROVE  KernelInv(PopBatch(s, S, first))
<1> DEFINE st == [p \in Pid |-> IF p \in S THEN Running ELSE s.st[p]]
           n == PopBatch(s, S, first)
<1>1. s \in Kernel /\ S \subseteq Pid /\ first \in Pid
  BY DEF KernelInv, Kernel
<1>2. n = [s EXCEPT !.st = st, !.ready = s.ready \ S, !.cur = first, !.yield = FALSE]
  BY DEF PopBatch
<1>3. st \in [Pid -> State]
  BY <1>1, States DEF Kernel
<1>4. /\ n \in Kernel
      /\ n.st = st /\ n.ready = s.ready \ S /\ n.waitq = s.waitq
      /\ n.kids = s.kids /\ n.parent = s.parent /\ n.next = s.next
      /\ n.heap = s.heap /\ n.tick = s.tick
  <2> HIDE DEF n, st
  <2> QED BY <1>1, <1>2, <1>3 DEF Kernel
<1>5. \A p \in S : s.st[p] \notin {Absent, Terminated}
  BY DEF KernelInv, ReadyClean
<1> HIDE DEF n
<1>6. FreshPids(n)
  BY <1>1, <1>4, <1>5 DEF FreshPids, KernelInv
<1>7. ReadyQueued(n) /\ ReadyClean(n)
  BY <1>1, <1>4, States DEF ReadyQueued, ReadyClean, KernelInv, Kernel
<1>8. WaitersKnown(n)
  BY <1>1, <1>4, States DEF WaitersKnown, KernelInv
<1>9. TimersArmed(n)
  BY <1>1, <1>4, States DEF TimersArmed, KernelInv
<1>10. IndexSound(n)
  BY <1>1, <1>4, States DEF IndexSound, KernelInv, Kernel
<1>11. KernelInv(n)
  BY <1>4, <1>6, <1>7, <1>8, <1>9, <1>10 DEF KernelInv
<1> QED BY <1>11 DEF n

LEMMA PopForegroundReadyInv ==
  ASSUME NEW s, KernelInv(s), NEW p \in s.ready
  PROVE  KernelInv(PopForegroundReady(s, p))
<1> DEFINE st == [s.st EXCEPT ![p] = Running]
           n == PopForegroundReady(s, p)
<1>1. s \in Kernel /\ p \in Pid /\ s.st[p] # Absent
  BY DEF KernelInv, Kernel, ReadyClean
<1>2. n = [s EXCEPT !.st = st, !.ready = s.ready \ {p}, !.cur = p, !.yield = FALSE]
  BY <1>1 DEF PopForegroundReady, Kernel
<1>3. st \in [Pid -> State]
  BY <1>1, States DEF Kernel
<1> HIDE DEF n, st
<1>4. /\ n \in Kernel
      /\ n.st = st /\ n.ready = s.ready \ {p} /\ n.waitq = s.waitq
      /\ n.kids = s.kids /\ n.parent = s.parent /\ n.next = s.next
      /\ n.heap = s.heap /\ n.tick = s.tick
  BY <1>1, <1>2, <1>3 DEF Kernel
<1>5. KernelInv(n)
  BY <1>1, <1>4, Dequeued DEF st
<1> QED BY <1>5 DEF n

LEMMA RequeueCurrentInv ==
  ASSUME NEW s, KernelInv(s)
  PROVE  KernelInv(RequeueCurrent(s))
<1> DEFINE p == s.cur
           st == [s.st EXCEPT ![p] = Ready]
           n == [s EXCEPT !.st = st, !.ready = s.ready \cup {p}, !.cur = None]
<1>1. CASE p = None \/ ~Exists(s, p)
  <2>1. RequeueCurrent(s) \in {s, SetCurrent(s, None)}
    BY <1>1 DEF RequeueCurrent, SetCurrent
  <2> QED BY <2>1, SetCurrentInv
<1>2. CASE p # None /\ Exists(s, p)
  <2>1. s \in Kernel /\ p \in Pid /\ s.st[p] # Absent
    BY <1>2 DEF KernelInv, Kernel, Exists
  <2>2. RequeueCurrent(s) \in {s, n}
    BY <1>2, <2>1 DEF RequeueCurrent, Kernel
  <2>3. st \in [Pid -> State] /\ s.ready \cup {p} \in SUBSET Pid
    BY <2>1, States DEF Kernel
  <2> HIDE DEF st
  <2>4. /\ n \in Kernel
        /\ n.st = st /\ n.ready = s.ready \cup {p} /\ n.waitq = s.waitq
        /\ n.kids = s.kids /\ n.parent = s.parent /\ n.next = s.next
        /\ n.heap = s.heap /\ n.tick = s.tick
    BY <2>1, <2>3 DEF Kernel
  <2>5. KernelInv(n)
    <3> HIDE DEF n
    <3> QED BY <2>1, <2>4, Awakened DEF st
  <2> QED BY <2>2, <2>5
<1> QED BY <1>1, <1>2

\* terminate_and_cleanup and the end of a turn
LEMMA TerminateAndCleanupInv ==
  ASSUME NEW s, KernelInv(s), NEW p \in Pid
  PROVE  KernelInv(TerminateAndCleanup(s, p))
<1>1. KernelInv(TerminateCurrent(SetCurrent(s, p)))
  BY SetCurrentInv, TerminateCurrentInv
<1> QED BY <1>1, DropTerminatedInv DEF TerminateAndCleanup

LEMMA FinalizeInv ==
  ASSUME NEW s, KernelInv(s), NEW p \in Pid, NEW ok \in BOOLEAN
  PROVE  KernelInv(Finalize(s, p, ok))
BY SetCurrentInv, TerminateAndCleanupInv DEF Finalize

-----------------------------------------------------------------------------
(* The invariant of the scheduler.                                         *)

LoopInv ==
  /\ loop \in LoopState
  /\ front \in Pid \cup {None} /\ (front # None <=> loop \in {"signals", "fresh", "resume"})
  /\ toPrep \subseteq Pid /\ toLaunch \subseteq Pid
  /\ turns \in [Pid -> 0..MaxInFlight]
  /\ notified \in BOOLEAN /\ failed \in BOOLEAN

IInv == KernelInv(k) /\ LoopInv

LEMMA InitInv == Init => IInv
<1> SUFFICES ASSUME Init PROVE IInv
  OBVIOUS
<1>1. EmptyKernel \in Kernel
  <2>1. <<>> \in Seq(Signal) /\ 0 \in Nat /\ 1 \in Nat /\ None \in Pid \cup {None}
    OBVIOUS
  <2> QED BY <2>1, States DEF EmptyKernel, Kernel
<1>2. KernelInv(EmptyKernel)
  BY <1>1, States, TableAssumption DEF KernelInv, EmptyKernel, FreshPids, ReadyQueued, ReadyClean,
     WaitersKnown, TimersArmed, IndexSound, Pid
<1>3. LoopInv
  <2>1. turns \in [Pid -> 0..MaxInFlight]
    BY SchedAssumption DEF Init
  <2> QED BY <2>1 DEF Init, LoopInv, LoopState
<1> QED BY <1>2, <1>3 DEF Init, IInv

\* The steps of the event loop.
LEMMA LoopStepInv == IInv /\ LoopStep => IInv'
<1> SUFFICES ASSUME IInv, LoopStep PROVE IInv'
  OBVIOUS
<1> USE DEF IInv
<1>1. CASE Dispatch
  <2>1. KernelInv(k)' /\ toPrep' \subseteq Pid
    <3>1. CASE k' = k /\ toPrep' = toPrep
      BY <3>1 DEF LoopInv
    <3>2. CASE ~(k' = k /\ toPrep' = toPrep)
      <4>1. PICK S \in SUBSET (k.ready \ k.fg) : \E first \in S :
              k' = PopBatch(k, S, first) /\ toPrep' = S
        BY <1>1, <3>2 DEF Dispatch
      <4>2. S \in SUBSET k.ready /\ S \subseteq Pid
        BY <4>1 DEF KernelInv, Kernel
      <4> QED BY <4>1, <4>2, PopBatchInv
    <3> QED BY <3>1, <3>2
  <2>2. loop' \in {"pop", "prep"} /\ loop = "dispatch" /\ UNCHANGED <<front, toLaunch, turns, notified, failed>>
    BY <1>1 DEF Dispatch
  <2> QED BY <2>1, <2>2 DEF LoopInv, LoopState
<1>2. CASE FrontSignals
  <2>1. front \in Pid
    BY <1>2 DEF FrontSignals, LoopInv
  <2>2. KernelInv(k)'
    BY <1>2, <2>1, SetCurrentInv, ProcessPendingSignalsInv DEF FrontSignals
  <2> QED BY <1>2, <2>2 DEF FrontSignals, LoopInv, LoopState
<1>3. CASE NoForegroundReady \/ GoToWait
  BY <1>3 DEF NoForegroundReady, GoToWait, LoopInv, LoopState
<1>4. CASE ClockWait
  <2>1. PICK n \in 0..(MaxTick - k.tick) : k' = AdvanceTicks(k, n)
    BY <1>4 DEF ClockWait
  <2>2. n \in Nat
    BY TableAssumption DEF KernelInv, Kernel
  <2>3. KernelInv(k)'
    BY <2>1, <2>2, AdvanceTicksInv
  <2> QED BY <1>4, <2>3 DEF ClockWait, LoopInv, LoopState
<1>5. CASE RestartsDone
  <2>1. KernelInv(k)'
    BY <1>5, RequeueCurrentInv DEF RestartsDone
  <2> QED BY <1>5, <2>1 DEF RestartsDone, LoopInv, LoopState
<1>6. ASSUME NEW p \in Pid, Prepare(p) PROVE IInv'
  <2>1. KernelInv(k)'
    BY <1>6, SetCurrentInv, ProcessPendingSignalsInv DEF Prepare
  <2> QED BY <1>6, <2>1 DEF Prepare, LoopInv
<1>7. ASSUME NEW p \in Pid, Launch(p) PROVE IInv'
  <2>1. KernelInv(k)'
    BY <1>7, ClearToolCancelInv DEF Launch
  <2>2. turns' \in [Pid -> 0..MaxInFlight]
    BY <1>7, SchedAssumption DEF Launch, LoopInv
  <2>3. loop = "prep" /\ loop' \in {"pop", "prep"}
    BY <1>7 DEF Launch, AfterPrep
  <2> QED BY <1>7, <2>1, <2>2, <2>3 DEF Launch, LoopInv, LoopState
<1>8. ASSUME NEW p \in Pid, ResumeForeground(p) PROVE IInv'
  <2>1. KernelInv(k)'
    BY <1>8, PopForegroundReadyInv DEF ResumeForeground
  <2>2. p # None
    BY DEF Pid, None
  <2> QED BY <1>8, <2>1, <2>2 DEF ResumeForeground, LoopInv, LoopState
<1>9. ASSUME NEW p \in Pid, Restart(p) PROVE IInv'
  <2>1. KernelInv(k)'
    BY <1>9, RestartDaemonInv DEF Restart, DeadDaemons
  <2> QED BY <1>9, <2>1 DEF Restart, LoopInv
<1> QED BY <1>1, <1>2, <1>3, <1>4, <1>5, <1>6, <1>7, <1>8, <1>9 DEF LoopStep

\* The end of a turn, and what the environment starts or breaks.
LEMMA TurnInv ==
  ASSUME IInv,
         \/ EndTurn \/ StartForeground
         \/ \E p \in Pid : DispatchFails(p) \/ EndBackground(p) \/ TaskDies(p)
  PROVE  IInv'
<1> USE DEF IInv
<1>1. CASE EndFresh
  <2>1. PICK ok \in BOOLEAN : /\ k' = IF k.cur = None THEN k ELSE Finalize(k, k.cur, ok)
                              /\ loop' = IF ok THEN "restart" ELSE "dispatch"
    BY <1>1 DEF EndFresh
  <2>2. k.cur # None => k.cur \in Pid
    BY DEF KernelInv, Kernel
  <2>3. KernelInv(k)'
    BY <2>1, <2>2, FinalizeInv
  <2> QED BY <1>1, <2>1, <2>3 DEF EndFresh, LoopInv, LoopState
<1>2. CASE EndResume
  <2>1. PICK ok \in BOOLEAN : k' = Finalize(k, front, ok)
    BY <1>2 DEF EndResume
  <2>2. front \in Pid
    BY <1>2 DEF EndResume, LoopInv
  <2>3. KernelInv(k)'
    BY <2>1, <2>2, FinalizeInv
  <2> QED BY <1>2, <2>3 DEF EndResume, LoopInv, LoopState
<1>3. CASE StartForeground
  <2>1. KernelInv(k)' /\ k.next \in Pid
    BY <1>3, BeginForegroundInv DEF StartForeground
  <2>2. k.next # None
    BY <2>1 DEF Pid, None
  <2> QED BY <1>3, <2>1, <2>2 DEF StartForeground, LoopInv, LoopState
<1>4. ASSUME NEW p \in Pid, DispatchFails(p) PROVE IInv'
  <2>1. KernelInv(k)'
    BY <1>4, TerminateAndCleanupInv DEF DispatchFails
  <2>2. loop = "prep" /\ loop' \in {"pop", "prep"}
    BY <1>4 DEF DispatchFails, AfterPrep
  <2> QED BY <1>4, <2>1, <2>2 DEF DispatchFails, LoopInv, LoopState
<1>5. ASSUME NEW p \in Pid, EndBackground(p) PROVE IInv'
  <2>1. PICK ok \in BOOLEAN : k' = RequeueCurrent(Finalize(k, p, ok))
    BY <1>5 DEF EndBackground
  <2>2. KernelInv(k)'
    BY <2>1, FinalizeInv, RequeueCurrentInv
  <2>3. turns' \in [Pid -> 0..MaxInFlight]
    BY <1>5, SchedAssumption DEF EndBackground, LoopInv
  <2> QED BY <1>5, <2>2, <2>3 DEF EndBackground, LoopInv
<1>6. ASSUME NEW p \in Pid, TaskDies(p) PROVE IInv'
  <2>1. turns' \in [Pid -> 0..MaxInFlight]
    BY <1>6, SchedAssumption DEF TaskDies, LoopInv
  <2> QED BY <1>6, <2>1 DEF TaskDies, LoopInv
<1> QED BY <1>1, <1>2, <1>3, <1>4, <1>5, <1>6 DEF EndTurn

\* The system calls, from whatever turn, at whatever time.
LEMMA SyscallInv ==
  ASSUME IInv,
         \/ \E me \in Pid : SysSpawn(me) \/ SysSleep(me)
         \/ \E me, p \in Pid : \/ SysWait(me, p) \/ SysKill(me, p)
                               \/ SysReap(me, p) \/ SysSignal(me, p)
  PROVE  IInv'
<1> USE DEF IInv, Syscall
<1>1. SUFFICES KernelInv(k)' /\ UNCHANGED <<loop, front, toPrep, toLaunch, turns, notified, failed>>
  BY <1>1 DEF LoopInv
<1>2. ASSUME NEW me \in Pid, SysSpawn(me)
      PROVE  KernelInv(k)' /\ UNCHANGED <<loop, front, toPrep, toLaunch, turns, notified, failed>>
  <2>1. PICK r \in 0..MaxRestart : Syscall(Spawn(k, me, r))
    BY <1>2 DEF SysSpawn
  <2>2. r \in Nat
    BY TableAssumption
  <2> QED BY <1>2, <2>1, <2>2, SpawnInv DEF SysSpawn
<1>3. ASSUME NEW me \in Pid, SysSleep(me)
      PROVE  KernelInv(k)' /\ UNCHANGED <<loop, front, toPrep, toLaunch, turns, notified, failed>>
  BY <1>3, SchedAssumption, SleepCurrentInv DEF SysSleep, Caller, Exists
<1>4. ASSUME NEW me \in Pid, NEW p \in Pid, SysWait(me, p)
      PROVE  KernelInv(k)' /\ UNCHANGED <<loop, front, toPrep, toLaunch, turns, notified, failed>>
  BY <1>4, WaitOnInv DEF SysWait, Caller, Exists
<1>5. ASSUME NEW me \in Pid, NEW p \in Pid, SysKill(me, p)
      PROVE  KernelInv(k)' /\ UNCHANGED <<loop, front, toPrep, toLaunch, turns, notified, failed>>
  BY <1>5, CascadePids, TerminateInv DEF SysKill
<1>6. ASSUME NEW me \in Pid, NEW p \in Pid, SysReap(me, p)
      PROVE  KernelInv(k)' /\ UNCHANGED <<loop, front, toPrep, toLaunch, turns, notified, failed>>
  BY <1>6, RemoveInv DEF SysReap
<1>7. ASSUME NEW me \in Pid, NEW p \in Pid, SysSignal(me, p)
      PROVE  KernelInv(k)' /\ UNCHANGED <<loop, front, toPrep, toLaunch, turns, notified, failed>>
  BY <1>7, SchedAssumption, DeliverSignalInv DEF SysSignal
<1> QED BY <1>2, <1>3, <1>4, <1>5, <1>6, <1>7

-----------------------------------------------------------------------------
(* The theorems.                                                           *)

LEMMA Inductive == Spec => []IInv
<1>1. IInv /\ [Next]_vars => IInv'
  <2>1. ASSUME IInv, UNCHANGED vars PROVE IInv'
    BY <2>1 DEF vars, IInv, LoopInv
  <2> QED BY <2>1, LoopStepInv, TurnInv, SyscallInv DEF Next
<1> QED BY <1>1, InitInv, PTL DEF Spec

\* The kernel record and the driver's variables keep their types.
THEOREM TypeCorrect == Spec => []TypeOK
<1>1. IInv => TypeOK
  BY DEF IInv, KernelInv, LoopInv, TypeOK
<1> QED BY <1>1, Inductive, PTL

\* Whatever makes a process Ready puts it in ready_set: terminate_pid,
\* advance_ticks, deliver_signal, spawn and check_daemon_restart.
THEOREM NobodyStranded == Spec => []NoStranded
<1>1. IInv => NoStranded
  BY DEF IInv, KernelInv, ReadyQueued, NoStranded
<1> QED BY <1>1, Inductive, PTL

\* The scheduler never pops a process that left the table, terminated or was
\* stopped: whatever does that to a queued process takes it out of ready_set.
THEOREM ReadySetIsSound == Spec => []ReadySetSound
<1>1. IInv => ReadySetSound
  BY DEF IInv, KernelInv, ReadyClean, ReadySetSound
<1> QED BY <1>1, Inductive, PTL

\* wait_on, terminate_pid and remove_process_entry between them lose no exit
\* wake-up: a waiter is registered with a process that can still exit.
THEOREM NoLostExitWakeup == Spec => []ExitWaitersRegistered
<1>1. IInv => ExitWaitersRegistered
  BY DEF IInv, KernelInv, WaitersKnown, ExitWaitersRegistered
<1> QED BY <1>1, Inductive, PTL

\* sleep_current and advance_ticks lose no timer.
THEOREM NoLostTimer == Spec => []SleepersArmed
<1>1. IInv => SleepersArmed
  BY DEF IInv, KernelInv, TimersArmed, SleepersArmed
<1> QED BY <1>1, Inductive, PTL

\* children_by_parent never names a process that is gone or is another's child,
\* so a kill cascade reaches only descendants of its victim.
THEOREM ChildIndexIsSound == Spec => []ChildIndexSound
<1>1. IInv => ChildIndexSound
  BY DEF IInv, KernelInv, IndexSound, ChildIndexSound, Exists
<1> QED BY <1>1, Inductive, PTL

=============================================================================
