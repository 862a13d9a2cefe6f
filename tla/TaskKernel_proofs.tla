------------------------- MODULE TaskKernel_proofs -------------------------
(***************************************************************************)
(* Proofs about TaskPipe that need the kernel: a parked owner is parked    *)
(* for tasks that can still wake it, and a collected task's process is     *)
(* gone, for any number of tasks and processes and whatever fails.         *)
(*                                                                         *)
(* Every call of the kernel that TaskPipe makes is shown to be of one kind *)
(* (Mild): it keeps the table sound, creates no entry, cuts a child from   *)
(* its parent only when one of them has left, spares the foreground, and   *)
(* parks nobody.  The calls compose, so a handler is of that kind whatever *)
(* it is made of; what is left are the handlers that spawn and that park.  *)
(***************************************************************************)
EXTENDS TaskPipe_proofs, ProcTree_proofs

\* The states a process of TaskPipe can be in: nobody sleeps or waits for an exit.
TaskState == {Absent, Ready, Running, Stopped, Terminated}
               \cup ({"events"} \X SUBSET Task)

TaskKernel ==
  [ st : [Pid -> TaskState], parent : [Pid -> Pid \cup {None}],
    kids : [Pid -> SUBSET Pid], fg : SUBSET Pid, left : [Pid -> Nat],
    sigs : [Pid -> Seq(Signal)], ready : SUBSET Pid, waitq : [Pid -> SUBSET Pid],
    heap : SUBSET (Nat \X Pid), cur : Pid \cup {None}, yield : BOOLEAN,
    tick : Nat, next : Nat ]

FreshPids(s)  == \A p \in Pid : p >= s.next => s.st[p] = Absent
NobodyQueued(s) == \A p \in Pid : s.waitq[p] = {}
ReadyExists(s) == \A p \in s.ready : s.st[p] # Absent
IndexSound(s) == \A p \in Pid : \A c \in s.kids[p] : s.st[c] # Absent /\ s.parent[c] = p
FgOnTop(s)    == \A p \in s.fg : s.st[p] # Absent /\ s.parent[p] = None

KernelOK(s) == /\ s \in TaskKernel
               /\ s.next \in 1..(MaxPid + 1)
               /\ FreshPids(s)
               /\ NobodyQueued(s)
               /\ ReadyExists(s)
               /\ IndexSound(s)
               /\ FgOnTop(s)

-----------------------------------------------------------------------------
(* From one kernel state s to a later one n.                               *)

\* A foreground process that has not ended.
Alive(s, p) == p \in s.fg /\ s.st[p] \notin {Absent, Terminated}

Ages(s, n) ==
  /\ n.next = s.next
  /\ \A p \in Pid :
       /\ s.st[p] = Absent => n.st[p] = Absent
       /\ p \in n.fg => p \in s.fg
       /\ p \in s.fg => p \in n.fg \/ n.st[p] = Absent
       /\ \/ n.parent[p] = s.parent[p]
          \/ n.parent[p] = None /\ (n.st[p] = Absent \/ n.st[s.parent[p]] = Absent)

\* Nobody starts to watch.
Quiet(s, n) == \A p \in Pid : IsWatching(n.st[p]) => n.st[p] = s.st[p]

\* Foreground processes but x do not end.
Spares(s, n, x) == \A f \in Pid \ {x} : Alive(s, f) => Alive(n, f)

Follows(s, n, x) == KernelOK(n) /\ Ages(s, n) /\ Spares(s, n, x)
MildBut(s, n, x) == Follows(s, n, x) /\ Quiet(s, n)
Mild(s, n)       == MildBut(s, n, None)

LEMMA TaskStates ==
  /\ Absent \in TaskState /\ Ready \in TaskState /\ Running \in TaskState
  /\ Stopped \in TaskState /\ Terminated \in TaskState
  /\ \A T \in SUBSET Task : Watching(T) \in TaskState
  /\ Absent # Ready /\ Absent # Running /\ Absent # Stopped /\ Absent # Terminated
  /\ Ready # Running /\ Ready # Stopped /\ Ready # Terminated
  /\ Running # Stopped /\ Running # Terminated /\ Stopped # Terminated
  /\ \A T : /\ IsWatching(Watching(T)) /\ Watching(T)[2] = T
            /\ Watching(T) \notin {Absent, Terminated}
  /\ \A x \in {Absent, Ready, Running, Stopped, Terminated} : ~IsWatching(x)
BY DEF TaskState, Absent, Ready, Running, Stopped, Terminated, Watching, IsWatching

LEMMA NoneIsNoPid == None \notin Pid
BY DEF None, Pid

LEMMA AgesTransitive ==
  ASSUME NEW s, NEW m, NEW n, s.parent \in [Pid -> Pid \cup {None}],
         Ages(s, m), Ages(m, n)
  PROVE  Ages(s, n)
<1> SUFFICES ASSUME NEW p \in Pid
             PROVE /\ s.st[p] = Absent => n.st[p] = Absent
                   /\ p \in n.fg => p \in s.fg
                   /\ p \in s.fg => p \in n.fg \/ n.st[p] = Absent
                   /\ \/ n.parent[p] = s.parent[p]
                      \/ /\ n.parent[p] = None
                         /\ n.st[p] = Absent \/ n.st[s.parent[p]] = Absent
  BY DEF Ages
<1>1. /\ s.st[p] = Absent => n.st[p] = Absent
      /\ p \in n.fg => p \in s.fg
      /\ p \in s.fg => p \in n.fg \/ n.st[p] = Absent
  BY DEF Ages
<1>2. CASE m.parent[p] = s.parent[p]
  BY <1>1, <1>2 DEF Ages
<1>3. CASE /\ m.parent[p] = None /\ s.parent[p] \in Pid
           /\ m.st[p] = Absent \/ m.st[s.parent[p]] = Absent
  BY <1>1, <1>3 DEF Ages
<1>4. s.parent[p] \in Pid \cup {None}  OBVIOUS
<1> QED  BY <1>1, <1>2, <1>3, <1>4 DEF Ages

LEMMA FollowsTransitive ==
  ASSUME NEW s, KernelOK(s), NEW m, NEW n, NEW x, Follows(s, m, x), Follows(m, n, x)
  PROVE  Follows(s, n, x)
<1>1. Ages(s, n)
  BY AgesTransitive DEF Follows, KernelOK, TaskKernel
<1> QED  BY <1>1 DEF Follows, Spares

LEMMA MildTransitive ==
  ASSUME NEW s, KernelOK(s), NEW m, NEW n, NEW x, MildBut(s, m, x), MildBut(m, n, x)
  PROVE  MildBut(s, n, x)
<1>1. Quiet(s, n)  BY DEF MildBut, Quiet
<1> QED  BY <1>1, FollowsTransitive DEF MildBut

LEMMA MildIsMildBut ==
  ASSUME NEW s, NEW n, Mild(s, n), NEW x PROVE MildBut(s, n, x)
BY NoneIsNoPid DEF Mild, MildBut, Follows, Spares

LEMMA MildItself == ASSUME NEW s, KernelOK(s) PROVE Mild(s, s)
BY DEF Mild, MildBut, Follows, Spares, Quiet, Ages

\* A call that changes the states of existing processes, and no entry.
LEMMA Restated ==
  ASSUME NEW s, KernelOK(s), NEW n \in TaskKernel, NEW x,
         n.parent = s.parent, n.kids = s.kids, n.fg = s.fg, n.waitq = s.waitq,
         n.next = s.next,
         \A p \in Pid : \/ n.st[p] = s.st[p]
                        \/ /\ s.st[p] # Absent
                           /\ n.st[p] \in {Ready, Running, Stopped, Terminated},
         \A p \in s.fg \ {x} : s.st[p] # Terminated => n.st[p] # Terminated,
         \A p \in n.ready : s.st[p] # Absent
  PROVE  MildBut(s, n, x)
<1>0. /\ s.kids \in [Pid -> SUBSET Pid] /\ s.fg \subseteq Pid /\ n.ready \subseteq Pid
  BY DEF KernelOK, TaskKernel
<1>1. \A p \in Pid : n.st[p] = Absent <=> s.st[p] = Absent
  BY TaskStates
<1>2. \A p \in Pid : IsWatching(n.st[p]) => n.st[p] = s.st[p]
  BY TaskStates
<1>3. KernelOK(n)
  BY <1>0, <1>1 DEF KernelOK, FreshPids, NobodyQueued, ReadyExists, IndexSound, FgOnTop
<1>4. Ages(s, n)  BY <1>1 DEF Ages
<1>5. Spares(s, n, x)  BY <1>1 DEF Spares, Alive
<1>6. Quiet(s, n)  BY <1>2 DEF Quiet
<1> QED  BY <1>3, <1>4, <1>5, <1>6 DEF MildBut, Follows

\* A call that changes none of the fields that KernelOK and Ages read.
LEMMA SameTable ==
  ASSUME NEW s, KernelOK(s), NEW n \in TaskKernel,
         n.st = s.st, n.parent = s.parent, n.kids = s.kids, n.fg = s.fg,
         n.waitq = s.waitq, n.next = s.next, n.ready = s.ready
  PROVE  Mild(s, n)
<1>1. \A p \in n.ready : s.st[p] # Absent  BY DEF KernelOK, ReadyExists
<1> QED  BY <1>1, Restated DEF Mild

-----------------------------------------------------------------------------
(* The calls of the kernel.                                                *)

\* terminate_pid of a set of victims: in TaskPipe nobody waits for an exit.
LEMMA TerminateMild ==
  ASSUME NEW s, KernelOK(s), NEW V \in SUBSET Pid, NEW x, V \cap s.fg \subseteq {x}
  PROVE  /\ MildBut(s, TerminatePids(s, V), x)
         /\ \A p \in Pid : TerminatePids(s, V).st[p] =
              IF p \in V /\ Exists(s, p) THEN Terminated ELSE s.st[p]
<1> DEFINE n == TerminatePids(s, V)
           woken == Waiters(s, V) \ V
<1>1. woken = {}  BY DEF Waiters, KernelOK, NobodyQueued
<1> HIDE DEF woken
<1>2. n = [s EXCEPT !.st = [p \in Pid |-> IF p \in V /\ Exists(s, p) THEN Terminated
                                          ELSE IF p \in woken THEN Ready ELSE s.st[p]],
                    !.ready = (s.ready \cup woken) \ V,
                    !.waitq = [p \in Pid |-> IF p \in V THEN {} ELSE s.waitq[p]]]
  BY DEF TerminatePids, woken
<1> DEFINE ss == [p \in Pid |-> IF p \in V /\ Exists(s, p) THEN Terminated ELSE s.st[p]]
           qq == [p \in Pid |-> IF p \in V THEN {} ELSE s.waitq[p]]
<1>3. s \in TaskKernel  BY DEF KernelOK
<1>4. n = [s EXCEPT !.st = ss, !.ready = s.ready \ V, !.waitq = qq]
  BY <1>1, <1>2
<1>5. ss \in [Pid -> TaskState] /\ qq = s.waitq
  BY <1>3, TaskStates DEF TaskKernel, KernelOK, NobodyQueued
<1> HIDE DEF n
<1>6. /\ n \in TaskKernel /\ n.st = ss /\ n.ready = s.ready \ V /\ n.waitq = qq
      /\ n.parent = s.parent /\ n.kids = s.kids /\ n.fg = s.fg /\ n.next = s.next
  <2> HIDE DEF ss, qq
  <2>1. qq \in [Pid -> SUBSET Pid]  BY <1>3, <1>5 DEF TaskKernel
  <2> QED BY <1>3, <1>4, <1>5, <2>1 DEF TaskKernel
<1>7. \A p \in Pid : n.st[p] = IF p \in V /\ Exists(s, p) THEN Terminated ELSE s.st[p]
  BY <1>6
<1>8. \A p \in Pid : \/ n.st[p] = s.st[p]
                     \/ /\ s.st[p] # Absent
                        /\ n.st[p] \in {Ready, Running, Stopped, Terminated}
  BY <1>7 DEF Exists
<1>9. \A p \in s.fg \ {x} : s.st[p] # Terminated => n.st[p] # Terminated
  BY <1>3, <1>7 DEF TaskKernel
<1>10. \A p \in n.ready : s.st[p] # Absent
  BY <1>6 DEF KernelOK, ReadyExists
<1> QED BY <1>5, <1>6, <1>7, <1>8, <1>9, <1>10, Restated DEF n

\* Who has an ancestor, or is in the index, is not in the foreground.
LEMMA CascadeBackground ==
  ASSUME NEW s, KernelOK(s), NEW a \in Pid, NEW p \in Pid, IsAncestor(s, a, p)
  PROVE  Cascade(s, p) \subseteq Pid \ s.fg
<1>1. p \notin s.fg
  BY ParentStep DEF KernelOK, TaskKernel, FgOnTop
<1>2. ASSUME NEW c \in Descendants(s, p) PROVE c \in Pid \ s.fg
  <2>1. c \in Pid  BY <1>2 DEF Descendants
  <2>2. PICK b \in 1..(c - 1) : c \in s.kids[b]  BY <1>2, <2>1, ChildStep
  <2>3. b \in Pid  BY <2>1, TableAssumption DEF Pid
  <2>4. s.parent[c] = b  BY <2>2, <2>3 DEF KernelOK, IndexSound
  <2> QED BY <2>1, <2>3, <2>4, NoneIsNoPid DEF KernelOK, FgOnTop
<1> QED BY <1>1, <1>2 DEF Cascade

\* kill_process ends nobody in the foreground, and everyone it may.
LEMMA KilledMild ==
  ASSUME NEW s, KernelOK(s), NEW me \in Pid \cup {None}, NEW V \in SUBSET Pid
  PROVE  /\ Mild(s, Killed(s, me, V))
         /\ \A p \in V : MayKill(s, me, p) => Killed(s, me, V).st[p] = Terminated
         /\ \A p \in Pid : s.st[p] = Terminated => Killed(s, me, V).st[p] = Terminated
<1> DEFINE victims == {p \in V : MayKill(s, me, p) /\ s.st[p] # Terminated}
           X == UNION {Cascade(s, p) : p \in victims}
<1>1. ASSUME NEW p \in victims PROVE Cascade(s, p) \subseteq Pid \ s.fg /\ p \in Cascade(s, p)
  <2>1. p \in Pid /\ me \in Pid /\ IsAncestor(s, me, p)  BY <1>1 DEF MayKill
  <2>2. p \in Cascade(s, p)  BY DEF Cascade
  <2> QED BY <2>1, <2>2, CascadeBackground
<1>2. Killed(s, me, V) = TerminatePids(s, X)  BY DEF Killed
<1>3. \A p \in V : MayKill(s, me, p) => p \in X \/ s.st[p] = Terminated
  BY <1>1
<1>4. X \in SUBSET Pid /\ X \cap s.fg \subseteq {None}
  BY <1>1
<1>5. \A p \in V : MayKill(s, me, p) => Exists(s, p)
  <2>1. \A p \in V : MayKill(s, me, p) => me \in Pid /\ IsAncestor(s, me, p)
    BY DEF MayKill
  <2> QED BY <2>1, ParentStep DEF KernelOK, TaskKernel
<1> HIDE DEF X
<1>6. /\ MildBut(s, TerminatePids(s, X), None)
      /\ \A p \in Pid : TerminatePids(s, X).st[p] =
           IF p \in X /\ Exists(s, p) THEN Terminated ELSE s.st[p]
  BY <1>4, TerminateMild
<1> QED BY <1>2, <1>3, <1>5, <1>6 DEF Mild

\* remove_process_entry, of processes that have ended: their children are orphans.
LEMMA RemoveMild ==
  ASSUME NEW s, KernelOK(s), NEW G \in SUBSET Pid, \A g \in G : s.st[g] = Terminated
  PROVE  /\ Mild(s, RemoveEntries(s, G))
         /\ \A g \in G : RemoveEntries(s, G).st[g] = Absent
<1> DEFINE n == RemoveEntries(s, G)
           orphans == (UNION {s.kids[g] : g \in G}) \ G
<1>0. s \in TaskKernel  BY DEF KernelOK
<1>1. orphans \subseteq Pid /\ \A c \in orphans : s.parent[c] \in G
  BY <1>0 DEF TaskKernel, KernelOK, IndexSound
<1>a. \A c \in Pid : c \in orphans <=> c \notin G /\ \E g \in G : c \in s.kids[g]
  OBVIOUS
<1>b. n = [s EXCEPT !.st     = [p \in Pid |-> IF p \in G THEN Absent ELSE s.st[p]],
                    !.parent = [p \in Pid |-> IF p \in G \cup orphans THEN None
                                              ELSE s.parent[p]],
                    !.kids   = [p \in Pid |-> IF p \in G THEN {} ELSE s.kids[p] \ G],
                    !.fg     = s.fg \ G,
                    !.left   = [p \in Pid |-> IF p \in G THEN 0 ELSE s.left[p]],
                    !.sigs   = [p \in Pid |-> IF p \in G THEN <<>> ELSE s.sigs[p]],
                    !.ready  = s.ready \ G,
                    !.waitq  = [p \in Pid |-> IF p \in G THEN {} ELSE s.waitq[p]]]
  BY DEF RemoveEntries
<1> HIDE DEF n, orphans
<1>2. /\ n.st = [p \in Pid |-> IF p \in G THEN Absent ELSE s.st[p]]
      /\ n.parent = [p \in Pid |-> IF p \in G \cup orphans THEN None ELSE s.parent[p]]
      /\ n.kids = [p \in Pid |-> IF p \in G THEN {} ELSE s.kids[p] \ G]
      /\ n.fg = s.fg \ G /\ n.ready = s.ready \ G /\ n.next = s.next
      /\ n.waitq = [p \in Pid |-> IF p \in G THEN {} ELSE s.waitq[p]]
  BY <1>0, <1>b DEF TaskKernel
<1>3. n \in TaskKernel
  <2>1. <<>> \in Seq(Signal) /\ None \in Pid \cup {None} /\ 0 \in Nat
    OBVIOUS
  <2> QED BY <2>1, <1>0, <1>b, TaskStates DEF TaskKernel
<1>4. /\ FreshPids(n) /\ NobodyQueued(n) /\ FgOnTop(n) /\ ReadyExists(n)
      /\ n.next \in 1..(MaxPid + 1)
  <2>1. s.fg \subseteq Pid /\ s.ready \subseteq Pid  BY <1>0 DEF TaskKernel
  <2> QED BY <2>1, <1>2 DEF KernelOK, FreshPids, NobodyQueued, FgOnTop, ReadyExists
<1>5. IndexSound(n)
  <2> SUFFICES ASSUME NEW q \in Pid, NEW c \in n.kids[q]
               PROVE  n.st[c] # Absent /\ n.parent[c] = q
    BY DEF IndexSound
  <2>1. q \notin G /\ c \in s.kids[q] /\ c \notin G /\ c \in Pid
    BY <1>0, <1>2 DEF TaskKernel
  <2>2. s.st[c] # Absent /\ s.parent[c] = q
    BY <2>1 DEF KernelOK, IndexSound
  <2>3. c \notin orphans
    BY <1>1, <2>1, <2>2
  <2> QED BY <1>2, <2>1, <2>2, <2>3
<1>6. Ages(s, n)
  <2> SUFFICES ASSUME NEW p \in Pid
               PROVE /\ s.st[p] = Absent => n.st[p] = Absent
                     /\ p \in n.fg => p \in s.fg
                     /\ p \in s.fg => p \in n.fg \/ n.st[p] = Absent
                     /\ \/ n.parent[p] = s.parent[p]
                        \/ /\ n.parent[p] = None
                           /\ n.st[p] = Absent \/ n.st[s.parent[p]] = Absent
    BY <1>2 DEF Ages
  <2>1. \A g \in G : n.st[g] = Absent  BY <1>2
  <2> QED BY <1>1, <1>2, <2>1
<1>7. Spares(s, n, None)  BY <1>2 DEF Spares, Alive
<1>8. Quiet(s, n)  BY <1>2, TaskStates DEF Quiet
<1>9. \A g \in G : n.st[g] = Absent  BY <1>2
<1> QED BY <1>3, <1>4, <1>5, <1>6, <1>7, <1>8, <1>9 DEF n, KernelOK, Mild, MildBut, Follows

LEMMA RemovedEnded ==
  ASSUME NEW s, NEW p \in Pid, s.st[p] = Terminated
  PROVE  /\ Removed(s, p) \subseteq Pid /\ p \in Removed(s, p)
         /\ \A g \in Removed(s, p) : s.st[g] = Terminated
BY DEF Removed

\* drop_terminated
LEMMA DropMild ==
  ASSUME NEW s, KernelOK(s), NEW p \in Pid
  PROVE  Mild(s, DropTerminated(s, p))
<1>1. CASE s.st[p] = Terminated
  BY <1>1, RemovedEnded, RemoveMild DEF DropTerminated, RemoveEntry
<1> QED BY <1>1, MildItself DEF DropTerminated

LEMMA SetCurrentMild ==
  ASSUME NEW s, KernelOK(s), NEW p \in Pid \cup {None}
  PROVE  /\ Mild(s, SetCurrent(s, p)) /\ SetCurrent(s, p).cur = p
         /\ SetCurrent(s, p).st = s.st /\ SetCurrent(s, p).fg = s.fg
<1> DEFINE n == SetCurrent(s, p)
<1>1. /\ n \in TaskKernel /\ n.cur = p /\ n.st = s.st /\ n.parent = s.parent
      /\ n.kids = s.kids /\ n.fg = s.fg /\ n.waitq = s.waitq /\ n.next = s.next
      /\ n.ready = s.ready
  BY DEF SetCurrent, KernelOK, TaskKernel
<1> HIDE DEF n
<1> QED BY <1>1, SameTable DEF n

\* yield_requested is reset.
LEMMA NoYieldMild ==
  ASSUME NEW s, KernelOK(s)
  PROVE  Mild(s, [s EXCEPT !.yield = FALSE])
<1> DEFINE n == [s EXCEPT !.yield = FALSE]
<1>1. /\ n \in TaskKernel /\ n.st = s.st /\ n.parent = s.parent
      /\ n.kids = s.kids /\ n.fg = s.fg /\ n.waitq = s.waitq /\ n.next = s.next
      /\ n.ready = s.ready
  BY DEF KernelOK, TaskKernel
<1> HIDE DEF n
<1> QED BY <1>1, SameTable DEF n

\* terminate_current
LEMMA TerminateCurrentMild ==
  ASSUME NEW s, KernelOK(s)
  PROVE  MildBut(s, TerminateCurrent(s), s.cur)
<1>0. s.cur \in Pid \cup {None}  BY DEF KernelOK, TaskKernel
<1>1. CASE s.cur = None
  BY <1>1, MildItself DEF TerminateCurrent, Mild
<1>2. CASE s.cur # None
  <2> DEFINE n == TerminatePids(s, {s.cur})
  <2>1. MildBut(s, n, s.cur)  BY <1>0, <1>2, TerminateMild
  <2>2. TerminateCurrent(s) = SetCurrent(n, None)
    BY <1>2 DEF TerminateCurrent, SetCurrent
  <2> HIDE DEF n
  <2>3. MildBut(n, SetCurrent(n, None), s.cur)
    BY <2>1, SetCurrentMild, MildIsMildBut DEF MildBut, Follows
  <2> QED BY <2>1, <2>2, <2>3, MildTransitive
<1> QED BY <1>1, <1>2

\* terminate_and_cleanup
LEMMA TerminateAndCleanupMild ==
  ASSUME NEW s, KernelOK(s), NEW p \in Pid
  PROVE  MildBut(s, TerminateAndCleanup(s, p), p)
<1> DEFINE c == SetCurrent(s, p)
           dead == TerminateCurrent(c)
           n == IF dead.parent[p] = None THEN DropTerminated(dead, p) ELSE dead
<1>1. MildBut(s, c, p) /\ c.cur = p  BY SetCurrentMild, MildIsMildBut
<1>2. TerminateAndCleanup(s, p) = n  BY DEF TerminateAndCleanup
<1>3. KernelOK(c)  BY <1>1 DEF MildBut, Follows
<1> HIDE DEF c
<1>4. MildBut(c, dead, p)  BY <1>1, <1>3, TerminateCurrentMild
<1>5. KernelOK(dead)  BY <1>4 DEF MildBut, Follows
<1> HIDE DEF dead
<1>6. MildBut(dead, n, p)  BY <1>5, DropMild, MildItself, MildIsMildBut
<1> HIDE DEF n
<1>7. MildBut(s, dead, p)  BY <1>1, <1>4, MildTransitive
<1> QED BY <1>2, <1>6, <1>7, MildTransitive

\* Processes that wait are made Ready and enqueued.
Awoken(s, W) == [s EXCEPT !.st = [p \in Pid |-> IF p \in W THEN Ready ELSE s.st[p]],
                          !.ready = s.ready \cup W]

LEMMA AwokenMild ==
  ASSUME NEW s, KernelOK(s), NEW W \in SUBSET Pid, \A p \in W : s.st[p] # Absent
  PROVE  /\ Mild(s, Awoken(s, W))
         /\ \A p \in Pid : Awoken(s, W).st[p] = IF p \in W THEN Ready ELSE s.st[p]
<1> DEFINE n == Awoken(s, W)
           ss == [p \in Pid |-> IF p \in W THEN Ready ELSE s.st[p]]
<1>1. s \in TaskKernel  BY DEF KernelOK
<1>a. n = [s EXCEPT !.st = ss, !.ready = s.ready \cup W]  BY DEF Awoken
<1>b. ss \in [Pid -> TaskState]  BY <1>1, TaskStates DEF TaskKernel
<1>c. \A p \in Pid : ss[p] = IF p \in W THEN Ready ELSE s.st[p]  OBVIOUS
<1> HIDE DEF ss, n
<1>2. /\ n \in TaskKernel /\ n.st = ss
      /\ n.ready = s.ready \cup W /\ n.waitq = s.waitq
      /\ n.parent = s.parent /\ n.kids = s.kids /\ n.fg = s.fg /\ n.next = s.next
  BY <1>1, <1>a, <1>b DEF TaskKernel
<1>3. \A p \in Pid : n.st[p] = IF p \in W THEN Ready ELSE s.st[p]  BY <1>2, <1>c
<1>4. \A p \in Pid : \/ n.st[p] = s.st[p]
                     \/ /\ s.st[p] # Absent
                        /\ n.st[p] \in {Ready, Running, Stopped, Terminated}
  BY <1>3
<1>5. \A p \in s.fg \ {None} : s.st[p] # Terminated => n.st[p] # Terminated
  BY <1>1, <1>3, TaskStates DEF TaskKernel
<1>6. \A p \in n.ready : s.st[p] # Absent
  BY <1>2 DEF KernelOK, ReadyExists
<1> QED BY <1>2, <1>3, <1>4, <1>5, <1>6, Restated DEF Mild, n

\* The owners parked for T, and nobody else.
LEMMA WokenMild ==
  ASSUME NEW s, KernelOK(s), NEW T
  PROVE  /\ Mild(s, Woken(s, T))
         /\ \A p \in Pid : IsWatching(Woken(s, T).st[p]) =>
              Woken(s, T).st[p] = s.st[p] /\ s.st[p][2] \cap T = {}
         /\ \A p \in Pid : s.st[p] = Terminated => Woken(s, T).st[p] = Terminated
<1> DEFINE W == {p \in Pid : IsWatching(s.st[p]) /\ s.st[p][2] \cap T # {}}
           n == Woken(s, T)
<1>1. n = Awoken(s, W)  BY DEF Woken, Awoken
<1>2. W \in SUBSET Pid /\ \A p \in W : s.st[p] # Absent /\ s.st[p] # Terminated
  BY TaskStates
<1>3. \A p \in Pid : p \in W <=> IsWatching(s.st[p]) /\ s.st[p][2] \cap T # {}
  OBVIOUS
<1> HIDE DEF W, n
<1>4. /\ Mild(s, n)
      /\ \A p \in Pid : n.st[p] = IF p \in W THEN Ready ELSE s.st[p]
  BY <1>1, <1>2, AwokenMild
<1>5. ASSUME NEW p \in Pid, IsWatching(n.st[p])
      PROVE  n.st[p] = s.st[p] /\ s.st[p][2] \cap T = {}
  <2>1. p \notin W  BY <1>4, <1>5, TaskStates
  <2>2. n.st[p] = s.st[p]  BY <1>4, <2>1
  <2> QED BY <1>3, <1>5, <2>1, <2>2
<1>6. \A p \in Pid : s.st[p] = Terminated => n.st[p] = Terminated
  BY <1>2, <1>4
<1> QED BY <1>4, <1>5, <1>6 DEF n

\* One existing process changes its state.
LEMMA OneRestated ==
  ASSUME NEW s, KernelOK(s), NEW n \in TaskKernel, NEW p \in Pid, s.st[p] # Absent,
         NEW x \in {Ready, Running, Stopped}, n.st = [s.st EXCEPT ![p] = x],
         n.ready \subseteq s.ready \cup {p},
         n.parent = s.parent, n.kids = s.kids, n.fg = s.fg, n.waitq = s.waitq,
         n.next = s.next
  PROVE  Mild(s, n)
<1>0. s.st \in [Pid -> TaskState] /\ s.fg \subseteq Pid  BY DEF KernelOK, TaskKernel
<1>1. \A q \in Pid : \/ n.st[q] = s.st[q]
                     \/ /\ s.st[q] # Absent
                        /\ n.st[q] \in {Ready, Running, Stopped, Terminated}
  BY <1>0
<1>2. \A q \in s.fg \ {None} : s.st[q] # Terminated => n.st[q] # Terminated
  BY <1>0, TaskStates
<1>3. \A q \in n.ready : s.st[q] # Absent  BY DEF KernelOK, ReadyExists
<1> QED BY <1>1, <1>2, <1>3, Restated DEF Mild

\* requeue_current
LEMMA RequeueMild ==
  ASSUME NEW s, KernelOK(s)
  PROVE  Mild(s, RequeueCurrent(s))
<1>0. s \in TaskKernel /\ s.cur \in Pid \cup {None}  BY DEF KernelOK, TaskKernel
<1>1. CASE s.cur = None  BY <1>1, MildItself DEF RequeueCurrent
<1>2. CASE s.cur # None /\ ~Exists(s, s.cur)
  <2>1. RequeueCurrent(s) = SetCurrent(s, None)
    BY <1>2 DEF RequeueCurrent, SetCurrent
  <2> QED BY <2>1, SetCurrentMild
<1>3. CASE /\ s.cur # None /\ Exists(s, s.cur)
           /\ s.st[s.cur] # Running \/ s.cur \in s.fg
  BY <1>3, MildItself DEF RequeueCurrent
<1>4. CASE /\ s.cur # None /\ Exists(s, s.cur)
           /\ ~(s.st[s.cur] # Running \/ s.cur \in s.fg)
  <2> DEFINE p == s.cur
             n == RequeueCurrent(s)
  <2>1. n = [s EXCEPT !.st = [s.st EXCEPT ![p] = Ready], !.ready = s.ready \cup {p},
                      !.cur = None]
    BY <1>0, <1>4 DEF RequeueCurrent, TaskKernel
  <2>2. p \in Pid /\ s.st[p] # Absent  BY <1>0, <1>4 DEF Exists
  <2> HIDE DEF p, n
  <2>3. /\ n \in TaskKernel /\ n.st = [s.st EXCEPT ![p] = Ready]
        /\ n.ready = s.ready \cup {p} /\ n.waitq = s.waitq
        /\ n.parent = s.parent /\ n.kids = s.kids /\ n.fg = s.fg /\ n.next = s.next
    BY <1>0, <2>1, <2>2, TaskStates DEF TaskKernel
  <2> QED BY <2>2, <2>3, OneRestated DEF n
<1> QED BY <1>1, <1>2, <1>3, <1>4

\* SIGSTOP and SIGCONT of a process that exists.
LEMMA StopContMild ==
  ASSUME NEW s, KernelOK(s), NEW p \in Pid, s.st[p] # Absent
  PROVE  Mild(s, DeliverStop(s, p)) /\ Mild(s, DeliverCont(s, p))
<1>0. s \in TaskKernel  BY DEF KernelOK
<1>1. CASE s.st[p] # Stopped
  <2> DEFINE n == DeliverStop(s, p)
             c == IF s.cur = p THEN None ELSE s.cur
  <2>1. n = [s EXCEPT !.st = [s.st EXCEPT ![p] = Stopped], !.ready = s.ready \ {p},
                      !.cur = c, !.yield = s.yield \/ s.cur = p]
    BY <1>0, <1>1 DEF DeliverStop, TaskKernel
  <2>2. c \in Pid \cup {None} /\ (s.yield \/ s.cur = p) \in BOOLEAN
    BY <1>0 DEF TaskKernel
  <2> HIDE DEF n, c
  <2>3. /\ n \in TaskKernel /\ n.st = [s.st EXCEPT ![p] = Stopped]
        /\ n.ready \subseteq s.ready \cup {p} /\ n.waitq = s.waitq
        /\ n.parent = s.parent /\ n.kids = s.kids /\ n.fg = s.fg /\ n.next = s.next
    BY <1>0, <2>1, <2>2, TaskStates DEF TaskKernel
  <2>4. Mild(s, n)  BY <2>3, OneRestated
  <2>5. DeliverCont(s, p) = s  BY <1>1 DEF DeliverCont
  <2> QED BY <2>4, <2>5, MildItself DEF n
<1>2. CASE s.st[p] = Stopped
  <2> DEFINE n == DeliverCont(s, p)
  <2>1. n = [s EXCEPT !.st = [s.st EXCEPT ![p] = Ready], !.ready = s.ready \cup {p}]
    BY <1>0, <1>2 DEF DeliverCont, TaskKernel
  <2> HIDE DEF n
  <2>3. /\ n \in TaskKernel /\ n.st = [s.st EXCEPT ![p] = Ready]
        /\ n.ready \subseteq s.ready \cup {p} /\ n.waitq = s.waitq
        /\ n.parent = s.parent /\ n.kids = s.kids /\ n.fg = s.fg /\ n.next = s.next
    BY <1>0, <2>1, TaskStates DEF TaskKernel
  <2>4. Mild(s, n)  BY <2>3, OneRestated
  <2>5. DeliverStop(s, p) = s  BY <1>2 DEF DeliverStop
  <2> QED BY <2>4, <2>5, MildItself DEF n
<1> QED BY <1>1, <1>2

\* pop_all_ready for the batch S, and the foreground process that is resumed.
LEMMA PopMild ==
  ASSUME NEW s, KernelOK(s)
  PROVE  /\ \A S \in SUBSET s.ready, first \in Pid : Mild(s, PopBatch(s, S, first))
         /\ \A p \in s.ready : /\ Mild(s, PopForegroundReady(s, p))
                               /\ PopForegroundReady(s, p).st[p] = Running
                               /\ PopForegroundReady(s, p).fg = s.fg
<1>0. s \in TaskKernel /\ s.ready \subseteq Pid /\ \A p \in s.ready : s.st[p] # Absent
  BY DEF KernelOK, TaskKernel, ReadyExists
<1>1. ASSUME NEW S \in SUBSET s.ready, NEW first \in Pid
      PROVE  Mild(s, PopBatch(s, S, first))
  <2> DEFINE n == PopBatch(s, S, first)
  <2> DEFINE ss == [p \in Pid |-> IF p \in S THEN Running ELSE s.st[p]]
  <2>1. n = [s EXCEPT !.st = ss, !.ready = s.ready \ S, !.cur = first, !.yield = FALSE]
    BY DEF PopBatch
  <2>a. ss \in [Pid -> TaskState]  BY <1>0, TaskStates DEF TaskKernel
  <2>b. \A p \in Pid : ss[p] = IF p \in S THEN Running ELSE s.st[p]  OBVIOUS
  <2> HIDE DEF n, ss
  <2>2. /\ n \in TaskKernel /\ n.st = ss
        /\ n.ready = s.ready \ S /\ n.waitq = s.waitq
        /\ n.parent = s.parent /\ n.kids = s.kids /\ n.fg = s.fg /\ n.next = s.next
    BY <1>0, <2>1, <2>a DEF TaskKernel
  <2>3. \A p \in Pid : \/ n.st[p] = s.st[p]
                       \/ /\ s.st[p] # Absent
                          /\ n.st[p] \in {Ready, Running, Stopped, Terminated}
    BY <1>0, <2>2, <2>b
  <2>4. \A p \in s.fg \ {None} : s.st[p] # Terminated => n.st[p] # Terminated
    BY <1>0, <2>2, <2>b, TaskStates DEF TaskKernel
  <2>5. \A p \in n.ready : s.st[p] # Absent  BY <1>0, <2>2
  <2> QED BY <2>2, <2>3, <2>4, <2>5, Restated DEF Mild, n
<1>2. ASSUME NEW p \in s.ready
      PROVE  /\ Mild(s, PopForegroundReady(s, p))
             /\ PopForegroundReady(s, p).st[p] = Running
             /\ PopForegroundReady(s, p).fg = s.fg
  <2> DEFINE n == PopForegroundReady(s, p)
  <2>1. n = [s EXCEPT !.st = [s.st EXCEPT ![p] = Running], !.ready = s.ready \ {p},
                      !.cur = p, !.yield = FALSE]
    BY <1>0 DEF PopForegroundReady, TaskKernel
  <2>2. p \in Pid /\ s.st[p] # Absent  BY <1>0
  <2> HIDE DEF n
  <2>3. /\ n \in TaskKernel /\ n.st = [s.st EXCEPT ![p] = Running]
        /\ n.ready \subseteq s.ready \cup {p} /\ n.waitq = s.waitq
        /\ n.parent = s.parent /\ n.kids = s.kids /\ n.fg = s.fg /\ n.next = s.next
    BY <1>0, <2>1, <2>2, TaskStates DEF TaskKernel
  <2>4. Mild(s, n)  BY <2>2, <2>3, OneRestated
  <2>5. n.st[p] = Running  BY <1>0, <2>2, <2>3 DEF TaskKernel
  <2> QED BY <2>3, <2>4, <2>5 DEF n
<1> QED BY <1>1, <1>2

-----------------------------------------------------------------------------
(* Creation and parking.                                                   *)

Grows(s, n) ==
  /\ KernelOK(n) /\ n.next = s.next + 1
  /\ \A q \in Pid \ {s.next} : /\ n.st[q] = s.st[q] /\ n.parent[q] = s.parent[q]
                               /\ q \in n.fg <=> q \in s.fg

LEMMA NewEntryFields ==
  ASSUME NEW s, KernelOK(s), CanAllocate(s), NEW par \in Pid \cup {None},
         NEW x \in {Ready, Running}
  PROVE  LET p == s.next
             e == NewEntry(s, par, x, 0)
         IN  /\ p \in Pid /\ p + 1 \in 1..(MaxPid + 1) /\ s.st[p] = Absent
             /\ p \notin s.fg /\ p \notin s.ready
             /\ e \in TaskKernel
             /\ e.st = [s.st EXCEPT ![p] = x] /\ e.parent = [s.parent EXCEPT ![p] = par]
             /\ e.kids = s.kids /\ e.ready = s.ready /\ e.waitq = s.waitq
             /\ e.next = p + 1 /\ e.fg = s.fg
<1> DEFINE p == s.next
           e == NewEntry(s, par, x, 0)
<1>1. p \in Pid /\ p + 1 \in Nat /\ p + 1 \in 1..(MaxPid + 1) /\ s.st[p] = Absent
  BY TableAssumption DEF KernelOK, CanAllocate, Pid, FreshPids
<1>2. s \in TaskKernel /\ <<>> \in Seq(Signal)
  BY DEF KernelOK
<1>3. e = [s EXCEPT !.st = [s.st EXCEPT ![p] = x],
                    !.parent = [s.parent EXCEPT ![p] = par],
                    !.left = [s.left EXCEPT ![p] = 0],
                    !.sigs = [s.sigs EXCEPT ![p] = <<>>], !.next = p + 1]
  BY <1>2 DEF NewEntry, TaskKernel
<1>4. /\ [s.st EXCEPT ![p] = x] \in [Pid -> TaskState]
      /\ [s.parent EXCEPT ![p] = par] \in [Pid -> Pid \cup {None}]
      /\ [s.left EXCEPT ![p] = 0] \in [Pid -> Nat]
      /\ [s.sigs EXCEPT ![p] = <<>>] \in [Pid -> Seq(Signal)]
  BY <1>1, <1>2, TaskStates DEF TaskKernel
<1>5. e \in TaskKernel
  BY <1>1, <1>2, <1>3, <1>4 DEF TaskKernel
<1>6. p \notin s.fg /\ p \notin s.ready
  BY <1>1 DEF KernelOK, FgOnTop, ReadyExists
<1> QED BY <1>1, <1>2, <1>3, <1>5, <1>6 DEF TaskKernel

LEMMA SpawnGrows ==
  ASSUME NEW s, KernelOK(s), CanAllocate(s), NEW par \in Pid, s.st[par] # Absent
  PROVE  /\ Grows(s, Spawn(s, par, 0))
         /\ s.next \in Pid /\ s.st[s.next] = Absent /\ s.next \notin Spawn(s, par, 0).fg
         /\ Spawn(s, par, 0).st[s.next] = Ready
         /\ Spawn(s, par, 0).parent[s.next] = par
<1> DEFINE n == Spawn(s, par, 0)
           p == s.next
           e == NewEntry(s, par, Ready, 0)
           kids == [q \in Pid |-> IF q = par THEN s.kids[q] \cup {p} ELSE s.kids[q]]
<1>0. s \in TaskKernel  BY DEF KernelOK
<1>1. /\ p \in Pid /\ p + 1 \in 1..(MaxPid + 1) /\ s.st[p] = Absent
      /\ p \notin s.fg /\ p \notin s.ready
      /\ e \in TaskKernel
      /\ e.st = [s.st EXCEPT ![p] = Ready] /\ e.parent = [s.parent EXCEPT ![p] = par]
      /\ e.kids = s.kids /\ e.ready = s.ready /\ e.waitq = s.waitq
      /\ e.next = p + 1 /\ e.fg = s.fg
  BY NewEntryFields
<1>2. n = [e EXCEPT !.kids = kids, !.ready = s.ready \cup {p}]
  BY <1>1 DEF Spawn, TaskKernel
<1>3. kids \in [Pid -> SUBSET Pid] /\ s.ready \cup {p} \in SUBSET Pid
  <2>1. p \in Pid /\ s.kids \in [Pid -> SUBSET Pid] /\ s.ready \in SUBSET Pid
    BY <1>0, <1>1 DEF TaskKernel
  <2> HIDE DEF p
  <2> QED BY <2>1
<1>k. \A q \in Pid : \A c \in kids[q] : c \in s.kids[q] \/ (c = p /\ q = par)
  OBVIOUS
<1> HIDE DEF n, p, e, kids
<1>4. /\ n \in TaskKernel
      /\ n.st = [s.st EXCEPT ![p] = Ready] /\ n.parent = [s.parent EXCEPT ![p] = par]
      /\ n.kids = kids /\ n.ready = s.ready \cup {p}
      /\ n.waitq = s.waitq /\ n.next = p + 1 /\ n.fg = s.fg
  BY <1>1, <1>2, <1>3 DEF TaskKernel
<1>5. /\ \A q \in Pid \ {p} : n.st[q] = s.st[q] /\ n.parent[q] = s.parent[q]
      /\ n.st[p] = Ready /\ n.parent[p] = par
  BY <1>0, <1>1, <1>4 DEF TaskKernel
<1>6. FreshPids(n)
  <2> SUFFICES ASSUME NEW q \in Pid, q >= n.next PROVE n.st[q] = Absent
    BY DEF FreshPids
  <2>1. q # p /\ q >= p  BY <1>1, <1>4 DEF Pid
  <2> QED BY <1>5, <2>1 DEF KernelOK, FreshPids, p
<1>7. NobodyQueued(n)  BY <1>4 DEF KernelOK, NobodyQueued
<1>8. ReadyExists(n)
  BY <1>0, <1>4, <1>5, TaskStates DEF KernelOK, ReadyExists, TaskKernel
<1>9. IndexSound(n)
  <2> SUFFICES ASSUME NEW q \in Pid, NEW c \in n.kids[q]
               PROVE  n.st[c] # Absent /\ n.parent[c] = q
    BY DEF IndexSound
  <2>1. CASE c = p /\ q = par  BY <1>5, <2>1, TaskStates
  <2>2. CASE c \in s.kids[q]
    <3>1. c \in Pid /\ s.st[c] # Absent /\ s.parent[c] = q
      BY <1>0, <2>2 DEF TaskKernel, KernelOK, IndexSound
    <3>2. c # p  BY <1>1, <3>1
    <3> QED BY <1>5, <3>1, <3>2
  <2> QED BY <1>k, <1>4, <2>1, <2>2
<1>10. FgOnTop(n)
  <2>1. \A q \in s.fg : q \in Pid /\ q # p /\ s.st[q] # Absent /\ s.parent[q] = None
    <3>1. s.fg \subseteq Pid  BY <1>0 DEF TaskKernel
    <3> QED BY <1>1, <3>1 DEF KernelOK, FgOnTop
  <2> QED BY <1>4, <1>5, <2>1 DEF FgOnTop
<1>11. KernelOK(n)
  BY <1>1, <1>4, <1>6, <1>7, <1>8, <1>9, <1>10 DEF KernelOK
<1>12. Grows(s, n)  BY <1>4, <1>5, <1>11 DEF Grows, p
<1> QED BY <1>1, <1>4, <1>5, <1>12 DEF n, p

LEMMA BeginGrows ==
  ASSUME NEW s, KernelOK(s), CanAllocate(s)
  PROVE  /\ Grows(s, BeginForeground(s))
         /\ s.next \in Pid /\ s.st[s.next] = Absent /\ s.next \in BeginForeground(s).fg
         /\ BeginForeground(s).st[s.next] = Running
<1> DEFINE n == BeginForeground(s)
           p == s.next
           e == NewEntry(s, None, Running, 0)
<1>0. s \in TaskKernel  BY DEF KernelOK
<1>1. /\ p \in Pid /\ p + 1 \in 1..(MaxPid + 1) /\ s.st[p] = Absent
      /\ p \notin s.fg /\ p \notin s.ready
      /\ e \in TaskKernel
      /\ e.st = [s.st EXCEPT ![p] = Running] /\ e.parent = [s.parent EXCEPT ![p] = None]
      /\ e.kids = s.kids /\ e.ready = s.ready /\ e.waitq = s.waitq
      /\ e.next = p + 1 /\ e.fg = s.fg
  BY NewEntryFields
<1>2. n = [e EXCEPT !.fg = s.fg \cup {p}, !.cur = p]
  BY <1>1 DEF BeginForeground, TaskKernel
<1>3. s.fg \cup {p} \in SUBSET Pid
  BY <1>0, <1>1 DEF TaskKernel
<1> HIDE DEF n, p, e
<1>4. /\ n \in TaskKernel
      /\ n.st = [s.st EXCEPT ![p] = Running] /\ n.parent = [s.parent EXCEPT ![p] = None]
      /\ n.kids = s.kids /\ n.ready = s.ready
      /\ n.waitq = s.waitq /\ n.next = p + 1 /\ n.fg = s.fg \cup {p}
  BY <1>1, <1>2, <1>3 DEF TaskKernel
<1>5. /\ \A q \in Pid \ {p} : n.st[q] = s.st[q] /\ n.parent[q] = s.parent[q]
      /\ n.st[p] = Running /\ n.parent[p] = None
  BY <1>0, <1>1, <1>4 DEF TaskKernel
<1>6. FreshPids(n)
  <2> SUFFICES ASSUME NEW q \in Pid, q >= n.next PROVE n.st[q] = Absent
    BY DEF FreshPids
  <2>1. q # p /\ q >= p  BY <1>1, <1>4 DEF Pid
  <2> QED BY <1>5, <2>1 DEF KernelOK, FreshPids, p
<1>7. NobodyQueued(n)  BY <1>4 DEF KernelOK, NobodyQueued
<1>8. ReadyExists(n)
  BY <1>0, <1>1, <1>4, <1>5 DEF KernelOK, ReadyExists, TaskKernel
<1>9. IndexSound(n)
  <2> SUFFICES ASSUME NEW q \in Pid, NEW c \in s.kids[q]
               PROVE  n.st[c] # Absent /\ n.parent[c] = q
    BY <1>4 DEF IndexSound
  <2>1. c \in Pid /\ s.st[c] # Absent /\ s.parent[c] = q
    BY <1>0 DEF TaskKernel, KernelOK, IndexSound
  <2>2. c # p  BY <1>1, <2>1
  <2> QED BY <1>5, <2>1, <2>2
<1>10. FgOnTop(n)
  BY <1>0, <1>1, <1>4, <1>5, TaskStates DEF KernelOK, FgOnTop, TaskKernel
<1>11. KernelOK(n)
  BY <1>1, <1>4, <1>6, <1>7, <1>8, <1>9, <1>10 DEF KernelOK
<1>12. Grows(s, n)  BY <1>4, <1>5, <1>11 DEF Grows, p
<1> QED BY <1>1, <1>4, <1>5, <1>12 DEF n, p

\* task_wait parks its caller for the tasks of R.
Park(s, me, R) == [s EXCEPT !.st[me] = Watching(R), !.cur = None, !.yield = TRUE]

LEMMA ParkFollows ==
  ASSUME NEW s, KernelOK(s), NEW me \in Pid, s.st[me] # Absent, NEW R \in SUBSET Task
  PROVE  /\ Follows(s, Park(s, me, R), None)
         /\ \A q \in Pid : Park(s, me, R).st[q] = IF q = me THEN Watching(R) ELSE s.st[q]
         /\ Park(s, me, R).fg = s.fg
<1> DEFINE n == Park(s, me, R)
<1>0. s \in TaskKernel  BY DEF KernelOK
<1>1. n = [s EXCEPT !.st = [s.st EXCEPT ![me] = Watching(R)], !.cur = None, !.yield = TRUE]
  BY <1>0 DEF Park, TaskKernel
<1>2. [s.st EXCEPT ![me] = Watching(R)] \in [Pid -> TaskState]
  BY <1>0, TaskStates DEF TaskKernel
<1> HIDE DEF n
<1>3. /\ n \in TaskKernel /\ n.st = [s.st EXCEPT ![me] = Watching(R)]
      /\ n.ready = s.ready /\ n.waitq = s.waitq
      /\ n.parent = s.parent /\ n.kids = s.kids /\ n.fg = s.fg /\ n.next = s.next
  BY <1>0, <1>1, <1>2 DEF TaskKernel
<1>4. \A q \in Pid : n.st[q] = IF q = me THEN Watching(R) ELSE s.st[q]
  BY <1>0, <1>3 DEF TaskKernel
<1>5. \A q \in Pid : /\ n.st[q] = Absent <=> s.st[q] = Absent
                     /\ n.st[q] = Terminated => s.st[q] = Terminated
  BY <1>4, TaskStates
<1>6. KernelOK(n)
  <2>1. s.ready \subseteq Pid /\ s.fg \subseteq Pid /\ s.kids \in [Pid -> SUBSET Pid]
    BY <1>0 DEF TaskKernel
  <2> QED BY <1>3, <1>5, <2>1 DEF KernelOK, FreshPids, NobodyQueued, ReadyExists,
          IndexSound, FgOnTop
<1>7. Ages(s, n)  BY <1>3, <1>5 DEF Ages
<1>8. Spares(s, n, None)  BY <1>3, <1>5 DEF Spares, Alive
<1> QED BY <1>3, <1>4, <1>6, <1>7, <1>8 DEF Follows, n

-----------------------------------------------------------------------------
(* Who is parked, for what.                                                *)

\* A channel and futex on which nothing happened.
Silenced(q) == q.chan \in {"open", "closed"} /\ q.queue = <<>> /\ q.futex = "zero"

\* Only foreground processes are parked, for tasks of X that have said nothing.
WatchOK(s, pp, X) ==
  \A p \in Pid : IsWatching(s.st[p]) =>
    /\ p \in s.fg /\ s.st[p][2] # {}
    /\ \A t \in s.st[p][2] : t \in X /\ Silenced(pp[t])

\* A call of the kernel parks nobody.
LEMMA WatchMild ==
  ASSUME NEW s, NEW n, NEW x, MildBut(s, n, x), NEW pp, NEW X, WatchOK(s, pp, X)
  PROVE  WatchOK(n, pp, X)
<1> SUFFICES ASSUME NEW p \in Pid, IsWatching(n.st[p])
             PROVE  /\ p \in n.fg /\ n.st[p][2] # {}
                    /\ \A t \in n.st[p][2] : t \in X /\ Silenced(pp[t])
  BY DEF WatchOK
<1>1. n.st[p] = s.st[p]  BY DEF MildBut, Quiet
<1>2. p \in s.fg /\ s.st[p][2] # {} /\ \A t \in s.st[p][2] : t \in X /\ Silenced(pp[t])
  BY <1>1 DEF WatchOK
<1>3. n.st[p] # Absent  BY TaskStates
<1>4. p \in n.fg  BY <1>2, <1>3 DEF MildBut, Follows, Ages
<1> QED BY <1>1, <1>2, <1>4

\* Whoever publishes wakes the owners that are parked for it.
LEMMA PublishWatch ==
  ASSUME NEW w, w.pipe \in Pipes, KernelOK(w.k), NEW X \in SUBSET Task,
         WatchOK(w.k, w.pipe, X), NEW T, NEW status
  PROVE  /\ Mild(w.k, Publish(w, T, status).k)
         /\ WatchOK(Publish(w, T, status).k, Publish(w, T, status).pipe, X)
<1> DEFINE told == {t \in T : CanSend(w, t) \/ w.pipe[t].futex = "zero"}
           n == Woken(w.k, told)
           pp == Publish(w, T, status).pipe
<1>1. Publish(w, T, status).k = n  BY DEF Publish
<1>2. \A t \in Task \ T : pp[t] = w.pipe[t]  BY DEF Publish
<1>3. \A t \in T : w.pipe[t].futex = "zero" => t \in told  OBVIOUS
<1> HIDE DEF told, n, pp
<1>4. /\ Mild(w.k, n)
      /\ \A p \in Pid : IsWatching(n.st[p]) =>
           n.st[p] = w.k.st[p] /\ w.k.st[p][2] \cap told = {}
  BY WokenMild DEF n
<1>5. WatchOK(n, w.pipe, X)  BY <1>4, WatchMild DEF Mild
<1>6. WatchOK(n, pp, X)
  <2> SUFFICES ASSUME NEW p \in Pid, IsWatching(n.st[p]),
                      NEW t \in n.st[p][2]
               PROVE  Silenced(pp[t])
    BY <1>5 DEF WatchOK
  <2>1. t \in Task /\ Silenced(w.pipe[t])  BY <1>5 DEF WatchOK
  <2>2. t \notin told  BY <1>4
  <2>3. t \notin T  BY <1>3, <2>1, <2>2 DEF Silenced
  <2> QED BY <1>2, <2>1, <2>3
<1> QED BY <1>1, <1>4, <1>6 DEF pp

LEMMA WorldFields ==
  ASSUME NEW w, IsWorld(w), NEW x
  PROVE  [w EXCEPT !.k = x].k = x /\ [w EXCEPT !.k = x].pipe = w.pipe
BY DEF IsWorld

\* write_terminal_subagent_result
LEMMA WriteTerminalWatch ==
  ASSUME pipe \in Pipes, KernelOK(k), NEW X \in SUBSET Task, WatchOK(k, pipe, X),
         NEW me \in Pid \cup {None}, NEW T, \A t \in T : pid[t] \in Pid, NEW status
  PROVE  LET v == WriteTerminal(World, me, T, status)
         IN  Mild(k, v.k) /\ WatchOK(v.k, v.pipe, X)
<1> DEFINE V == {pid[t] : t \in T}
           s == Killed(k, me, V)
           w == [World EXCEPT !.k = s]
<1>1. World.k = k /\ World.pipe = pipe /\ IsWorld(World)  BY DEF World, IsWorld
<1>2. WriteTerminal(World, me, T, status) = Publish(w, T, status)
  BY <1>1 DEF WriteTerminal
<1> HIDE DEF V, s
<1>3. w.k = s /\ w.pipe = pipe  BY <1>1, WorldFields
<1>4. Mild(k, s)
  <2>1. V \in SUBSET Pid  BY DEF V
  <2> QED BY <2>1, KilledMild DEF s
<1>5. KernelOK(s) /\ WatchOK(s, pipe, X)
  BY <1>4, WatchMild DEF Mild, MildBut, Follows
<1> HIDE DEF w
<1>6. /\ Mild(s, Publish(w, T, status).k)
      /\ WatchOK(Publish(w, T, status).k, Publish(w, T, status).pipe, X)
  BY <1>3, <1>5, PublishWatch
<1>7. Mild(k, Publish(w, T, status).k)
  BY <1>4, <1>6, MildTransitive DEF Mild
<1> QED BY <1>2, <1>6, <1>7

\* What became of the kernel s when me had collected the tasks C: nobody is parked for
\* them, and the processes of theirs that me spawned have left the table.
Cleaned(s, v, me, C, X) ==
  /\ Mild(s, v.k) /\ WatchOK(v.k, v.pipe, X \ C)
  /\ \A t \in C :
       (Alive(s, me) /\ pid[t] # me /\ (s.st[pid[t]] # Absent => s.parent[pid[t]] = me))
         => v.k.st[pid[t]] = Absent

\* cleanup_collected_task
LEMMA CleanUpWatch ==
  ASSUME NEW w, w.pipe \in Pipes, KernelOK(w.k), NEW X \in SUBSET Task,
         WatchOK(w.k, w.pipe, X), NEW me \in Pid \cup {None}, NEW C,
         \A t \in C : pid[t] \in Pid
  PROVE  Cleaned(w.k, CleanUp(w, me, C), me, C, X)
<1> DEFINE s == Woken(w.k, C)
           left == {pid[t] : t \in C} \ {p \in Pid : ~Exists(w.k, p)}
           killed == Killed(s, me, left)
           doomed == {p \in left : killed.st[p] = Terminated}
           G == UNION {Removed(killed, p) : p \in doomed}
           gone == RemoveEntries(killed, G)
           last == IF left = {} THEN killed ELSE SetCurrent(gone, me)
           pp == CleanUp(w, me, C).pipe
<1>1. CleanUp(w, me, C).k = last  BY DEF CleanUp
<1>2. \A t \in Task \ C : pp[t] = w.pipe[t]  BY DEF CleanUp
<1>3. left \in SUBSET Pid  OBVIOUS
<1>4. \A t \in C : w.k.st[pid[t]] # Absent => pid[t] \in left  BY DEF Exists
<1>5. left # {} => last = SetCurrent(gone, me)  OBVIOUS
<1>6. \A p \in left : killed.st[p] = Terminated => p \in doomed  OBVIOUS
<1>7. doomed \subseteq Pid /\ \A p \in doomed : killed.st[p] = Terminated  BY <1>3
<1>8. G \in SUBSET Pid /\ doomed \subseteq G /\ \A g \in G : killed.st[g] = Terminated
  <2> HIDE DEF doomed, killed
  <2>1. \A p \in doomed : /\ Removed(killed, p) \subseteq Pid /\ p \in Removed(killed, p)
                          /\ \A g \in Removed(killed, p) : killed.st[g] = Terminated
    BY <1>7, RemovedEnded
  <2> QED BY <2>1
<1>9. last = killed \/ last = SetCurrent(gone, me)  OBVIOUS
<1> HIDE DEF left, doomed, G, pp, last
<1>10. /\ Mild(w.k, s)
       /\ \A p \in Pid : IsWatching(s.st[p]) =>
            s.st[p] = w.k.st[p] /\ w.k.st[p][2] \cap C = {}
       /\ \A p \in Pid : w.k.st[p] = Terminated => s.st[p] = Terminated
  BY WokenMild
<1>11. KernelOK(s)  BY <1>10 DEF Mild, MildBut, Follows
<1>12. WatchOK(s, pp, X \ C)
  <2>1. WatchOK(s, w.pipe, X)  BY <1>10, WatchMild DEF Mild
  <2> SUFFICES ASSUME NEW p \in Pid, IsWatching(s.st[p]), NEW t \in s.st[p][2]
               PROVE  t \in X \ C /\ Silenced(pp[t])
    BY <2>1 DEF WatchOK
  <2>2. t \in X /\ Silenced(w.pipe[t])  BY <2>1 DEF WatchOK
  <2>3. t \notin C  BY <1>10
  <2> QED BY <1>2, <2>2, <2>3
<1> HIDE DEF s
<1>13. /\ Mild(s, killed)
       /\ \A p \in left : MayKill(s, me, p) => killed.st[p] = Terminated
       /\ \A p \in Pid : s.st[p] = Terminated => killed.st[p] = Terminated
  BY <1>3, <1>11, KilledMild
<1>14. KernelOK(killed)  BY <1>13 DEF Mild, MildBut, Follows
<1> HIDE DEF killed
<1>15. Mild(killed, gone) /\ \A g \in G : gone.st[g] = Absent
  BY <1>8, <1>14, RemoveMild
<1>16. KernelOK(gone)  BY <1>15 DEF Mild, MildBut, Follows
<1> HIDE DEF gone
<1>17. Mild(gone, SetCurrent(gone, me)) /\ SetCurrent(gone, me).st = gone.st
  BY <1>16, SetCurrentMild
<1>18. Mild(killed, last)
  BY <1>9, <1>14, <1>15, <1>17, MildItself, MildTransitive DEF Mild
<1>19. Mild(s, last)  BY <1>11, <1>13, <1>18, MildTransitive DEF Mild
<1>20. Mild(w.k, last)  BY <1>10, <1>19, MildTransitive DEF Mild
<1>21. WatchOK(last, pp, X \ C)  BY <1>12, <1>19, WatchMild DEF Mild
<1>22. ASSUME NEW t \in C, Alive(w.k, me), pid[t] # me,
              w.k.st[pid[t]] # Absent => w.k.parent[pid[t]] = me
       PROVE  last.st[pid[t]] = Absent
  <2> DEFINE p == pid[t]
  <2>1. p \in Pid /\ me \in Pid
    BY <1>22 DEF Alive, KernelOK, TaskKernel
  <2> SUFFICES last.st[p] = Absent  OBVIOUS
  <2> HIDE DEF p
  <2>2. CASE w.k.st[p] = Absent
    BY <1>20, <2>1, <2>2 DEF Mild, MildBut, Follows, Ages
  <2>3. CASE w.k.st[p] # Absent /\ s.st[p] = Absent
    BY <1>19, <2>1, <2>3 DEF Mild, MildBut, Follows, Ages
  <2>4. CASE w.k.st[p] # Absent /\ s.st[p] # Absent
    <3>1. p \in left  BY <1>4, <2>4 DEF p
    <3>2. Alive(s, me)
      BY <1>10, <1>22, <2>1, NoneIsNoPid DEF Mild, MildBut, Follows, Spares
    <3>3. s.parent[p] = me
      <4>1. w.k.parent[p] = me  BY <1>22, <2>4 DEF p
      <4> QED BY <1>10, <2>1, <2>4, <3>2, <4>1 DEF Mild, MildBut, Follows, Ages, Alive
    <3>4. IsAncestor(s, me, p)
      <4>1. s.parent \in [Pid -> Pid \cup {None}]  BY <1>11 DEF KernelOK, TaskKernel
      <4> QED BY <2>1, <2>4, <3>3, <4>1, ParentStep, NoneIsNoPid DEF Exists
    <3>5. MayKill(s, me, p)
      BY <1>22, <2>1, <3>2, <3>4, NoneIsNoPid DEF MayKill, Exists, Alive, p
    <3>6. p \in G  BY <1>6, <1>8, <1>13, <3>1, <3>5
    <3>7. last.st[p] = Absent  BY <1>5, <1>15, <1>17, <3>1, <3>6
    <3> QED BY <3>7
  <2> QED BY <2>2, <2>3, <2>4
<1> QED BY <1>1, <1>20, <1>21, <1>22 DEF pp, Cleaned

-----------------------------------------------------------------------------
(* The inductive invariant.                                                *)

\* A task's process is a background child of the process that spawned it, as long as
\* both are in the table, and has left it when the task is in the ledger.
TaskFacts(t) ==
  /\ pid[t] # None =>
       /\ pid[t] < k.next /\ pid[t] \notin k.fg
       /\ owner[t] \in Pid /\ owner[t] < k.next
       /\ (k.st[pid[t]] # Absent /\ k.st[owner[t]] # Absent) => k.parent[pid[t]] = owner[t]
  /\ ledger[t] # NoStatus => k.st[pid[t]] = Absent
  /\ pid[t] = None => turns[t] = 0

\* There are no other background processes.
Owned == \A p \in Pid : k.st[p] # Absent /\ p \notin k.fg => \E t \in Task : pid[t] = p

LoopFacts ==
  /\ InTurn <=> front # None
  /\ picked # {} <=> loop = "launch"
  /\ \A p \in picked : p \in Pid /\ \E t \in Task : pid[t] = p
  /\ InTurn => front \in Pid /\ Alive(k, front)

Core == /\ KernelOK(k) /\ Owned /\ LoopFacts
        /\ \A t \in Task : TaskFacts(t)
        /\ WatchOK(k, pipe, tracked)

OtherTypes ==
  /\ owner \in [Task -> Pid \cup {None}] /\ dropped \subseteq Task
  /\ budget \in [Key -> {"none", "armed", "due", "expired"}]
  /\ overdue \subseteq Task /\ aborted \subseteq Task
  /\ turns \in [Task -> 0..MaxInFlight]

KInv == PipeInv /\ Core /\ OtherTypes

LEMMA TaskPids ==
  ASSUME KInv
  PROVE  /\ \A t \in tracked : t \in Task /\ pid[t] \in Pid
         /\ \A t \in Task : pid[t] # None => pid[t] \in Pid
         /\ \A t \in Task : ledger[t] # NoStatus => pid[t] \in Pid
         /\ tracked \in SUBSET Task
BY NoneIsNoPid DEF KInv, PipeInv, TaskInv, DataTypes

\* The facts about the processes of tasks survive whatever the kernel does.
LEMMA FollowsFacts ==
  ASSUME KInv, NEW x, Follows(k, k', x), UNCHANGED <<pid, owner>>,
         \A t \in Task : ledger'[t] = ledger[t] \/ k'.st[pid[t]] = Absent,
         \A t \in Task : pid[t] = None => turns'[t] = 0
  PROVE  KernelOK(k)' /\ Owned' /\ \A t \in Task : TaskFacts(t)'
<1>1. KernelOK(k')  BY DEF Follows
<1>2. Owned'
  <2> SUFFICES ASSUME NEW p \in Pid, k'.st[p] # Absent, p \notin k'.fg
               PROVE  \E t \in Task : pid'[t] = p
    BY DEF Owned
  <2>1. k.st[p] # Absent /\ p \notin k.fg  BY DEF Follows, Ages
  <2> QED BY <2>1 DEF KInv, Core, Owned
<1>3. ASSUME NEW t \in Task PROVE TaskFacts(t)'
  <2>0. TaskFacts(t)  BY DEF KInv, Core
  <2>1. ASSUME pid[t] # None
        PROVE  /\ pid[t] < k'.next /\ pid[t] \notin k'.fg
               /\ owner[t] \in Pid /\ owner[t] < k'.next
               /\ (k'.st[pid[t]] # Absent /\ k'.st[owner[t]] # Absent)
                    => k'.parent[pid[t]] = owner[t]
    <3>1. pid[t] \in Pid /\ owner[t] \in Pid  BY <2>0, <2>1, TaskPids DEF TaskFacts
    <3>2. pid[t] < k'.next /\ owner[t] < k'.next /\ pid[t] \notin k'.fg
      BY <2>0, <2>1, <3>1 DEF TaskFacts, Follows, Ages
    <3>3. ASSUME k'.st[pid[t]] # Absent, k'.st[owner[t]] # Absent
          PROVE  k'.parent[pid[t]] = owner[t]
      <4>1. k.st[pid[t]] # Absent /\ k.st[owner[t]] # Absent
        BY <3>1, <3>3 DEF Follows, Ages
      <4>2. k.parent[pid[t]] = owner[t]  BY <2>0, <2>1, <4>1 DEF TaskFacts
      <4> QED BY <3>1, <3>3, <4>2 DEF Follows, Ages
    <3> QED BY <3>1, <3>2, <3>3
  <2>2. ledger'[t] # NoStatus => k'.st[pid[t]] = Absent
    <3>1. CASE ledger'[t] = ledger[t] /\ ledger[t] # NoStatus
      BY <2>0, <3>1, TaskPids DEF TaskFacts, Follows, Ages
    <3> QED BY <3>1
  <2> QED BY <2>1, <2>2 DEF TaskFacts
<1> QED BY <1>1, <1>2, <1>3

\* A step of the loop, which says itself where the loop is next.
LEMMA LoopCore ==
  ASSUME KInv, NEW x, Follows(k, k', x), UNCHANGED <<pid, owner, ledger>>,
         \A t \in Task : pid[t] = None => turns'[t] = 0,
         WatchOK(k', pipe', tracked'), LoopFacts'
  PROVE  Core'
BY FollowsFacts DEF Core

\* A step of a turn: the loop does not move.
LEMMA TurnCore ==
  ASSUME KInv, NEW x, Follows(k, k', x), InTurn => x # front,
         UNCHANGED <<pid, owner, sched>>,
         \A t \in Task : ledger'[t] = ledger[t] \/ k'.st[pid[t]] = Absent,
         \A t \in Task : pid[t] = None => turns'[t] = 0,
         WatchOK(k', pipe', tracked')
  PROVE  Core'
<1>1. LoopFacts'
  <2>1. LoopFacts /\ loop' = loop /\ front' = front /\ picked' = picked /\ pid' = pid
    BY DEF KInv, Core, sched
  <2>2. InTurn' <=> InTurn  BY <2>1 DEF InTurn
  <2>3. InTurn => Alive(k', front)
    BY <2>1 DEF LoopFacts, Follows, Spares
  <2> QED BY <2>1, <2>2, <2>3 DEF LoopFacts
<1> QED BY <1>1, FollowsFacts DEF Core

\* What calls of the kernel that park nobody leave as it was.
LEMMA MildCalls ==
  ASSUME KInv, NEW x, MildBut(k, k', x), UNCHANGED <<pipe, tracked>>
  PROVE  Follows(k, k', x) /\ WatchOK(k', pipe', tracked')
BY WatchMild DEF KInv, Core, MildBut

LEMMA CoreFacts ==
  ASSUME KInv
  PROVE  /\ KernelOK(k) /\ LoopFacts /\ WatchOK(k, pipe, tracked) /\ pipe \in Pipes
         /\ k.cur \in Pid \cup {None}
         /\ \A t \in Task : TaskFacts(t) /\ (pid[t] = None => turns[t] = 0)
         /\ \A p \in k.ready : p \in Pid
         /\ World.k = k /\ World.pipe = pipe /\ IsWorld(World)
BY DEF KInv, Core, PipeInv, DataTypes, KernelOK, TaskKernel, TaskFacts, World, IsWorld

-----------------------------------------------------------------------------
(* The event loop.                                                         *)

\* Between two turns.
LEMMA OutsideTurn ==
  ASSUME KInv, loop \notin {"fresh", "resume"}
  PROVE  front = None /\ (loop # "launch" => picked = {})
BY CoreFacts DEF LoopFacts, InTurn

\* The loop moves on to a phase that is no turn and no launch.
LEMMA MovesOn ==
  ASSUME front' = None, picked' = {}, loop' \in {"reap", "wake", "dispatch", "pop"}
  PROVE  LoopFacts'
BY DEF LoopFacts, InTurn

LEMMA ReapCore == ASSUME KInv, Reap PROVE Core'
<1> DEFINE late == {t \in tracked \cap overdue : Pending(k, pid[t])}
           v == WriteTerminal(World, k.cur, late, "timeout")
<1>1. /\ loop = "reap" /\ k' = v.k /\ pipe' = v.pipe /\ loop' = "wake"
      /\ UNCHANGED <<pid, owner, ledger, tracked, turns, front, picked>>
  BY DEF Reap, Becomes
<1>2. \A t \in late : pid[t] \in Pid  BY TaskPids
<1> HIDE DEF late
<1>3. Mild(k, v.k) /\ WatchOK(v.k, v.pipe, tracked)
  BY <1>2, CoreFacts, TaskPids, WriteTerminalWatch
<1> HIDE DEF v
<1>4. LoopFacts'  BY <1>1, OutsideTurn, MovesOn
<1>5. \A t \in Task : pid[t] = None => turns'[t] = 0  BY <1>1, CoreFacts
<1> QED BY <1>1, <1>3, <1>4, <1>5, LoopCore DEF Mild, MildBut

LEMMA WakeExpiredCore == ASSUME KInv, WakeExpired PROVE Core'
<1> DEFINE W == {p \in Pid : /\ \E x \in Key : x[1] = p /\ budget[x] = "due"
                             /\ IsWatching(k.st[p]) \/ IsSleeping(k.st[p]) \/ IsWaiting(k.st[p])}
<1>1. /\ loop = "wake" /\ loop' = "dispatch" /\ UNCHANGED <<tasks, turns, front, picked>>
      /\ k' = Awoken(k, W)
  BY DEF WakeExpired, Awoken
<1>2. W \in SUBSET Pid /\ \A p \in W : k.st[p] # Absent
  <2>1. ~IsWatching(Absent) /\ ~IsSleeping(Absent) /\ ~IsWaiting(Absent)
    BY DEF IsWatching, IsSleeping, IsWaiting, Absent
  <2> QED BY <2>1
<1> HIDE DEF W
<1>3. Mild(k, k')  BY <1>1, <1>2, AwokenMild, CoreFacts
<1>4. LoopFacts'  BY <1>1, OutsideTurn, MovesOn
<1>5. \A t \in Task : pid[t] = None => turns'[t] = 0  BY <1>1, CoreFacts
<1> QED BY <1>1, <1>3, <1>4, <1>5, MildCalls, LoopCore DEF Mild, tasks

\* The batch that is launched consists of tasks.
LEMMA DispatchCore == ASSUME KInv, Dispatch PROVE Core'
<1>0. loop = "dispatch" /\ UNCHANGED <<tasks, turns, front>>  BY DEF Dispatch
<1>1. \A t \in Task : pid[t] = None => turns'[t] = 0  BY <1>0, CoreFacts
<1>2. CASE k' = k /\ picked' = picked /\ loop' = "pop"
  <2>1. Mild(k, k')  BY <1>2, CoreFacts, MildItself
  <2>2. LoopFacts'  BY <1>0, <1>2, OutsideTurn, MovesOn
  <2> QED BY <1>0, <1>1, <2>1, <2>2, MildCalls, LoopCore DEF Mild, tasks
<1>3. CASE \E S \in (SUBSET (k.ready \ k.fg)) \ {{}} : \E first \in S :
             k' = PopBatch(k, S, first) /\ picked' = S /\ loop' = "launch"
  <2>a. PICK S \in SUBSET (k.ready \ k.fg) : \E first \in S :
          k' = PopBatch(k, S, first) /\ picked' = S /\ loop' = "launch"
    BY <1>3
  <2>1. PICK first \in S : k' = PopBatch(k, S, first) /\ picked' = S /\ loop' = "launch"
    BY <2>a
  <2>2. S \in SUBSET k.ready /\ first \in Pid /\ S # {}  BY <2>1, CoreFacts
  <2>3. Mild(k, k')  BY <2>1, <2>2, CoreFacts, PopMild
  <2>4. \A p \in S : p \in Pid /\ \E t \in Task : pid[t] = p
    BY <2>1, CoreFacts DEF KInv, Core, Owned, KernelOK, ReadyExists
  <2>5. LoopFacts'
    BY <1>0, <2>1, <2>2, <2>4, OutsideTurn DEF LoopFacts, InTurn, tasks
  <2> QED BY <1>0, <1>1, <2>3, <2>5, MildCalls, LoopCore DEF Mild, tasks
<1> QED BY <1>2, <1>3 DEF Dispatch

LEMMA ClockWaitCore == ASSUME KInv, ClockWait PROVE Core'
<1>1. /\ loop = "pop" /\ loop' = "reap" /\ UNCHANGED <<k, tasks, turns, front, picked>>
  BY DEF ClockWait
<1>2. Mild(k, k')  BY <1>1, CoreFacts, MildItself
<1>3. LoopFacts'  BY <1>1, OutsideTurn, MovesOn
<1>4. \A t \in Task : pid[t] = None => turns'[t] = 0  BY <1>1, CoreFacts
<1> QED BY <1>1, <1>2, <1>3, <1>4, MildCalls, LoopCore DEF Mild, tasks

\* A pid of the batch is that of one task.
LEMMA PickedTask ==
  ASSUME KInv, NEW p \in picked
  PROVE  p \in Pid /\ TaskOf(p) \in Task /\ pid[TaskOf(p)] = p
BY CoreFacts DEF LoopFacts, TaskOf

\* One of the batch leaves it.
LEMMA BatchShrinks ==
  ASSUME KInv, loop = "launch", NEW p, picked' = picked \ {p},
         loop' = AfterLaunch(picked \ {p}), front' = front, pid' = pid
  PROVE  LoopFacts'
BY CoreFacts, OutsideTurn DEF LoopFacts, InTurn, AfterLaunch

LEMMA LaunchCore == ASSUME KInv, NEW p \in picked, Launch(p) PROVE Core'
<1>1. /\ loop = "launch" /\ k' = SetCurrent(k, p)
      /\ turns' = [turns EXCEPT ![TaskOf(p)] = @ + 1]
      /\ picked' = picked \ {p} /\ loop' = AfterLaunch(picked \ {p})
      /\ UNCHANGED <<tasks, front>>
  BY DEF Launch
<1>2. p \in Pid /\ TaskOf(p) \in Task /\ pid[TaskOf(p)] = p  BY PickedTask
<1>3. Mild(k, k')  BY <1>1, <1>2, CoreFacts, SetCurrentMild
<1>4. LoopFacts'  BY <1>1, BatchShrinks DEF tasks
<1>5. \A t \in Task : pid[t] = None => turns'[t] = 0
  BY <1>1, <1>2, CoreFacts, NoneIsNoPid DEF KInv, OtherTypes
<1> QED BY <1>1, <1>3, <1>4, <1>5, MildCalls, LoopCore DEF Mild, tasks

LEMMA DispatchFailsCore == ASSUME KInv, NEW p \in picked, DispatchFails(p) PROVE Core'
<1> DEFINE w == Publish(World, {TaskOf(p)}, "failed")
           n == TerminateAndCleanup(w.k, p)
<1>1. /\ loop = "launch" /\ k' = [w EXCEPT !.k = n].k /\ pipe' = [w EXCEPT !.k = n].pipe
      /\ picked' = picked \ {p} /\ loop' = AfterLaunch(picked \ {p})
      /\ UNCHANGED <<pid, owner, tracked, ledger, turns, front>>
  BY DEF DispatchFails, Becomes
<1>2. p \in Pid  BY PickedTask
<1>3. Mild(k, w.k) /\ WatchOK(w.k, w.pipe, tracked) /\ IsWorld(w)
  BY CoreFacts, TaskPids, PublishWatch, Worlds
<1> HIDE DEF w
<1>4. MildBut(w.k, n, p)
  BY <1>2, <1>3, TerminateAndCleanupMild DEF Mild, MildBut, Follows
<1>5. MildBut(k, n, p)
  BY <1>3, <1>4, MildIsMildBut, MildTransitive, CoreFacts
<1>6. WatchOK(n, w.pipe, tracked)  BY <1>3, <1>4, WatchMild
<1> HIDE DEF n
<1>7. k' = n /\ pipe' = w.pipe  BY <1>1, <1>3, WorldFields
<1>8. LoopFacts'  BY <1>1, BatchShrinks
<1>9. \A t \in Task : pid[t] = None => turns'[t] = 0  BY <1>1, CoreFacts
<1> QED BY <1>1, <1>5, <1>6, <1>7, <1>8, <1>9, LoopCore DEF MildBut

LEMMA ResumeCore == ASSUME KInv, NEW p \in Pid, ResumeForeground(p) PROVE Core'
<1>1. /\ loop = "pop" /\ p \in k.fg \cap k.ready /\ k' = PopForegroundReady(k, p)
      /\ front' = p /\ loop' = "resume" /\ UNCHANGED <<tasks, turns, picked>>
  BY DEF ResumeForeground
<1>2. Mild(k, k') /\ k'.st[p] = Running /\ k'.fg = k.fg
  BY <1>1, CoreFacts, PopMild
<1>3. Alive(k', p)  BY <1>1, <1>2, TaskStates DEF Alive
<1>4. LoopFacts'
  BY <1>1, <1>3, OutsideTurn, NoneIsNoPid DEF LoopFacts, InTurn
<1>5. \A t \in Task : pid[t] = None => turns'[t] = 0  BY <1>1, CoreFacts
<1> QED BY <1>1, <1>2, <1>4, <1>5, MildCalls, LoopCore DEF Mild, tasks

\* The end of a turn: whatever process it ends, no turn is left.
LEMMA EndTurnCore == ASSUME KInv, EndTurn PROVE Core'
<1>1. PICK ok \in BOOLEAN, me \in {IF loop = "fresh" THEN k.cur ELSE front} :
        \E ended \in {IF me = None THEN k
                      ELSE IF ok /\ IsParkedOwner(k, me) THEN SetCurrent(k, me)
                      ELSE TerminateAndCleanup(k, me)} :
           k' = [ended EXCEPT !.yield = FALSE]
  BY DEF EndTurn
<1>2. InTurn /\ front' = None /\ loop' = "reap" /\ UNCHANGED <<tasks, turns, picked>>
  BY DEF EndTurn
<1>3. me \in Pid \cup {None}
  BY <1>1, <1>2, CoreFacts DEF LoopFacts
<1>4. PICK ended : /\ ended \in {k, SetCurrent(k, me), TerminateAndCleanup(k, me)}
                   /\ me = None => ended = k
                   /\ k' = [ended EXCEPT !.yield = FALSE]
  BY <1>1
<1>5. MildBut(k, ended, me)
  <2>1. MildBut(k, k, me)  BY CoreFacts, MildItself, MildIsMildBut
  <2>2. me # None => MildBut(k, SetCurrent(k, me), me)
    BY <1>3, CoreFacts, SetCurrentMild, MildIsMildBut
  <2>3. me # None => MildBut(k, TerminateAndCleanup(k, me), me)
    BY <1>3, CoreFacts, TerminateAndCleanupMild
  <2> QED BY <1>4, <2>1, <2>2, <2>3
<1>6. Mild(ended, k')  BY <1>4, <1>5, NoYieldMild DEF MildBut, Follows
<1>7. MildBut(k, k', me)
  BY <1>5, <1>6, MildIsMildBut, MildTransitive, CoreFacts
<1>8. LoopFacts'
  <2>1. loop # "launch" /\ picked = {}  BY <1>2, CoreFacts DEF LoopFacts, InTurn
  <2> QED BY <1>2, <2>1, MovesOn
<1>9. \A t \in Task : pid[t] = None => turns'[t] = 0  BY <1>2, CoreFacts
<1> QED BY <1>2, <1>7, <1>8, <1>9, MildCalls, LoopCore DEF tasks

-----------------------------------------------------------------------------
(* The prompt.                                                             *)

\* A process is added to the table; none of the others is touched.
LEMMA GrownFacts ==
  ASSUME KInv, Grows(k, k'), k.next \in Pid, NEW t \in Task, pid[t] # None,
         UNCHANGED <<owner[t], ledger[t]>>, pid'[t] = pid[t]
  PROVE  TaskFacts(t)'
<1>0. TaskFacts(t)  BY DEF KInv, Core
<1>1. /\ pid[t] \in Pid /\ pid[t] < k.next /\ owner[t] \in Pid /\ owner[t] < k.next
      /\ pid[t] # k.next /\ owner[t] # k.next
  BY <1>0, TaskPids DEF TaskFacts, Pid
<1>2. /\ k'.st[pid[t]] = k.st[pid[t]] /\ k'.st[owner[t]] = k.st[owner[t]]
      /\ k'.parent[pid[t]] = k.parent[pid[t]] /\ (pid[t] \in k'.fg <=> pid[t] \in k.fg)
  BY <1>1 DEF Grows
<1>3. pid[t] < k'.next /\ owner[t] < k'.next
  BY <1>1 DEF Grows, Pid
<1> QED BY <1>0, <1>1, <1>2, <1>3 DEF TaskFacts

LEMMA GrownWatch ==
  ASSUME KInv, Grows(k, k'), k.next \in Pid, ~IsWatching(k'.st[k.next])
  PROVE  WatchOK(k', pipe, tracked)
<1> SUFFICES ASSUME NEW p \in Pid, IsWatching(k'.st[p])
             PROVE  /\ p \in k'.fg /\ k'.st[p][2] # {}
                    /\ \A t \in k'.st[p][2] : t \in tracked /\ Silenced(pipe[t])
  BY DEF WatchOK
<1>1. p # k.next  OBVIOUS
<1>2. k'.st[p] = k.st[p] /\ (p \in k'.fg <=> p \in k.fg)  BY <1>1 DEF Grows
<1> QED BY <1>2, CoreFacts DEF WatchOK

\* The next question is answered by a foreground process of its own.
LEMMA AskCore == ASSUME KInv, Ask PROVE Core'
<1>1. /\ loop = "pop" /\ CanAllocate(k) /\ k' = BeginForeground(k)
      /\ front' = k.next /\ loop' = "fresh" /\ UNCHANGED <<tasks, turns, picked>>
  BY DEF Ask, Prompting
<1>2. /\ Grows(k, k') /\ k.next \in Pid /\ k.st[k.next] = Absent
      /\ k.next \in k'.fg /\ k'.st[k.next] = Running
  BY <1>1, CoreFacts, BeginGrows
<1>3. LoopFacts'
  <2>1. Alive(k', k.next)  BY <1>2, TaskStates DEF Alive
  <2> QED BY <1>1, <1>2, <2>1, OutsideTurn, NoneIsNoPid DEF LoopFacts, InTurn
<1>4. \A t \in Task : pid[t] # None => TaskFacts(t)'
  BY <1>1, <1>2, GrownFacts DEF tasks
<1>5. \A t \in Task : pid[t] = None => TaskFacts(t)'
  <2> SUFFICES ASSUME NEW t \in Task, pid[t] = None PROVE TaskFacts(t)'  OBVIOUS
  <2>1. ledger[t] = NoStatus  BY DEF KInv, PipeInv, TaskInv
  <2> QED BY <1>1, <2>1, CoreFacts DEF TaskFacts, tasks
<1>6. Owned'
  <2> SUFFICES ASSUME NEW p \in Pid, k'.st[p] # Absent, p \notin k'.fg
               PROVE  \E t \in Task : pid'[t] = p
    BY DEF Owned
  <2>1. p # k.next  BY <1>2
  <2>2. k.st[p] # Absent /\ p \notin k.fg  BY <1>2, <2>1 DEF Grows
  <2> QED BY <1>1, <2>2 DEF KInv, Core, Owned, tasks
<1>7. WatchOK(k', pipe, tracked)  BY <1>2, GrownWatch, TaskStates
<1>8. KernelOK(k')  BY <1>2 DEF Grows
<1>9. pipe' = pipe /\ tracked' = tracked  BY <1>1 DEF tasks
<1> QED BY <1>3, <1>4, <1>5, <1>6, <1>7, <1>8, <1>9 DEF Core

\* The session is deleted at the prompt, where nobody is parked.
LEMMA DiscardCore == ASSUME KInv, Discard PROVE Core'
<1> DEFINE V == {pid[t] : t \in tracked}
           killed == Killed(k, k.cur, V)
           doomed == {p \in V : killed.st[p] = Terminated}
           G == UNION {Removed(killed, p) : p \in doomed}
<1>1. /\ Prompting /\ k' = RemoveEntries(killed, G) /\ tracked' = {} /\ loop' = "reap"
      /\ UNCHANGED <<pid, owner, ledger, turns, front, picked>>
  BY CoreFacts DEF Discard
<1>2. loop = "pop" /\ ~ForegroundPending  BY <1>1 DEF Prompting
<1>3. V \in SUBSET Pid  BY TaskPids
<1>4. doomed \subseteq Pid /\ \A p \in doomed : killed.st[p] = Terminated  BY <1>3
<1>5. G \in SUBSET Pid /\ \A g \in G : killed.st[g] = Terminated
  <2> HIDE DEF doomed, killed
  <2>1. \A p \in doomed : /\ Removed(killed, p) \subseteq Pid
                          /\ \A g \in Removed(killed, p) : killed.st[g] = Terminated
    BY <1>4, RemovedEnded
  <2> QED BY <2>1
<1> HIDE DEF V, doomed, G
<1>6. Mild(k, killed)  BY <1>3, CoreFacts, KilledMild
<1> HIDE DEF killed
<1>7. Mild(killed, k')
  BY <1>1, <1>5, <1>6, RemoveMild DEF Mild, MildBut, Follows
<1>8. Mild(k, k')  BY <1>6, <1>7, MildTransitive, CoreFacts DEF Mild
<1>9. WatchOK(k', pipe', tracked')
  <2> SUFFICES ASSUME NEW p \in Pid, IsWatching(k'.st[p]) PROVE FALSE
    BY DEF WatchOK
  <2>1. k'.st[p] = k.st[p]  BY <1>8 DEF Mild, MildBut, Quiet
  <2>2. p \in k.fg /\ k.st[p] \notin {Absent, Terminated, Ready}
    BY <2>1, CoreFacts, TaskStates DEF WatchOK
  <2> QED BY <1>2, <2>2 DEF ForegroundPending
<1>10. LoopFacts'  BY <1>1, <1>2, OutsideTurn, MovesOn
<1>11. \A t \in Task : pid[t] = None => turns'[t] = 0  BY <1>1, CoreFacts
<1> QED BY <1>1, <1>8, <1>9, <1>10, <1>11, LoopCore DEF Mild, MildBut

-----------------------------------------------------------------------------
(* The turns of the tasks.                                                 *)

LEMMA LeavesTurns ==
  ASSUME KInv, NEW t \in Task, turns[t] > 0, Leaves(t)
  PROVE  /\ pid[t] \in Pid
         /\ \A u \in Task : pid[u] = None => turns'[u] = 0
<1>1. pid[t] # None  BY CoreFacts
<1>2. turns' = [turns EXCEPT ![t] = turns[t] - 1]  BY DEF Leaves
<1>3. \A u \in Task : u # t => turns'[u] = turns[u]
  BY <1>2 DEF KInv, OtherTypes
<1> QED BY <1>1, <1>3, CoreFacts, TaskPids

\* The process of a task is not the one in the foreground.
LEMMA TaskNotFront ==
  ASSUME KInv, NEW t \in Task, pid[t] # None, InTurn
  PROVE  pid[t] # front
BY CoreFacts DEF LoopFacts, TaskFacts, Alive

\* The end of a task's turn, once its result is published.
Concluded(w, ok, p) ==
  Becomes([w EXCEPT !.k = RequeueCurrent(IF ok /\ IsParked(w.k.st[p]) THEN w.k
                                         ELSE TerminateAndCleanup(w.k, p))])

LEMMA FinishCases ==
  ASSUME NEW t, Finish(t)
  PROVE  LET now == [World EXCEPT !.k = SetCurrent(k, pid[t])]
         IN  \E w, ok : /\ Concluded(w, ok, pid[t])
                        /\ w = now \/ \E status : w = Publish(now, {t}, status)
<1> DEFINE now == [World EXCEPT !.k = SetCurrent(k, pid[t])]
<1>1. PICK ok, valid, spoke \in BOOLEAN :
        LET succeeded == ok /\ valid
            w == IF ShouldPublish(pid[t], succeeded, spoke)
                 THEN Publish(now, {t}, IF succeeded THEN "completed" ELSE "failed")
                 ELSE now
            e == IF ok /\ IsParked(w.k.st[pid[t]]) THEN w.k
                 ELSE TerminateAndCleanup(w.k, pid[t])
        IN  Becomes([w EXCEPT !.k = RequeueCurrent(e)])
  BY DEF Finish
<1> DEFINE status == IF ok /\ valid THEN "completed" ELSE "failed"
           w == IF ShouldPublish(pid[t], ok /\ valid, spoke)
                THEN Publish(now, {t}, status) ELSE now
<1>2. Concluded(w, ok, pid[t])  BY <1>1 DEF Concluded
<1>3. w = now \/ w = Publish(now, {t}, status)  OBVIOUS
<1> HIDE DEF now, w, status
<1>4. w = now \/ \E x : w = Publish(now, {t}, x)  BY <1>3
<1> QED BY <1>2, <1>4, Zenon DEF now

LEMMA FinishCore == ASSUME KInv, NEW t \in Task, Finish(t) PROVE Core'
<1> DEFINE now == [World EXCEPT !.k = SetCurrent(k, pid[t])]
<1>1. PICK w, ok : /\ Concluded(w, ok, pid[t])
                   /\ w = now \/ \E status : w = Publish(now, {t}, status)
  BY FinishCases
<1> DEFINE ended == IF ok /\ IsParked(w.k.st[pid[t]]) THEN w.k
                    ELSE TerminateAndCleanup(w.k, pid[t])
<1>2. /\ turns[t] > 0 /\ Leaves(t)
      /\ UNCHANGED <<pid, owner, tracked, ledger, sched>>
  BY DEF Finish
<1>3. pid[t] \in Pid /\ pid[t] # None /\ \A u \in Task : pid[u] = None => turns'[u] = 0
  BY <1>2, LeavesTurns, NoneIsNoPid
<1>4. /\ Mild(k, SetCurrent(k, pid[t]))
      /\ now.k = SetCurrent(k, pid[t]) /\ now.pipe = pipe /\ IsWorld(now)
  BY <1>3, CoreFacts, SetCurrentMild, WorldFields, KernelReplaced
<1> HIDE DEF now
<1>5. KernelOK(now.k) /\ WatchOK(now.k, now.pipe, tracked) /\ Mild(k, now.k)
  BY <1>4, CoreFacts, WatchMild DEF Mild, MildBut, Follows
<1>6. ASSUME \E status : w = Publish(now, {t}, status)
      PROVE  Mild(k, w.k) /\ WatchOK(w.k, w.pipe, tracked) /\ IsWorld(w)
  <2>1. PICK status : w = Publish(now, {t}, status)  BY <1>6
  <2>2. /\ Mild(now.k, w.k) /\ IsWorld(w) /\ WatchOK(w.k, w.pipe, tracked)
    BY <1>4, <1>5, <2>1, CoreFacts, TaskPids, PublishWatch, Worlds
  <2> QED BY <1>5, <2>2, MildTransitive, CoreFacts DEF Mild
<1>7. Mild(k, w.k) /\ WatchOK(w.k, w.pipe, tracked) /\ IsWorld(w)
  BY <1>1, <1>4, <1>5, <1>6
<1> DEFINE n == RequeueCurrent(ended)
<1>8. MildBut(w.k, ended, pid[t])
  BY <1>3, <1>7, TerminateAndCleanupMild, MildItself, MildIsMildBut DEF Mild, MildBut, Follows
<1>a. Becomes([w EXCEPT !.k = n])  BY <1>1 DEF Concluded
<1> HIDE DEF ended
<1>9. MildBut(k, ended, pid[t])
  BY <1>7, <1>8, MildIsMildBut, MildTransitive, CoreFacts
<1>10. Mild(ended, n)
  BY <1>8, RequeueMild DEF MildBut, Follows
<1> HIDE DEF n
<1>11. MildBut(k, n, pid[t])
  BY <1>9, <1>10, MildIsMildBut, MildTransitive, CoreFacts
<1>12. k' = n /\ pipe' = w.pipe
  BY <1>a, <1>7, WorldFields DEF Becomes
<1>13. WatchOK(k', pipe', tracked')
  <2>1. MildBut(w.k, n, pid[t])
    BY <1>7, <1>8, <1>10, MildIsMildBut, MildTransitive DEF Mild, MildBut, Follows
  <2> QED BY <1>2, <1>7, <1>12, <2>1, WatchMild
<1> QED
  BY <1>2, <1>3, <1>11, <1>12, <1>13, TaskNotFront, TurnCore DEF MildBut

-----------------------------------------------------------------------------
(* The calls of the foreground turn.                                       *)

LEMMA FrontAlive ==
  ASSUME KInv, InTurn
  PROVE  front \in Pid /\ front # None /\ Alive(k, front)
BY CoreFacts, NoneIsNoPid DEF LoopFacts

\* The tasks C were collected from a world that began with the kernel's state k.
Gathered(v, C) == /\ Mild(k, v.k) /\ WatchOK(v.k, v.pipe, tracked \ C)
                  /\ \A t \in C : v.k.st[pid[t]] = Absent

\* The results of C are collected by the process that spawned those tasks, in a world
\* in which some may have been published already.
LEMMA CollectingCore ==
  ASSUME KInv, InTurn, NEW w, w.pipe \in Pipes, Mild(k, w.k),
         WatchOK(w.k, w.pipe, tracked),
         NEW C, C \subseteq tracked, \A t \in C : owner[t] = front
  PROVE  Gathered(CleanUp(w, front, C), C)
<1> DEFINE v == CleanUp(w, front, C)
<1>1. \A t \in C : t \in Task /\ pid[t] \in Pid /\ pid[t] # None
  BY TaskPids, NoneIsNoPid
<1>2. KernelOK(w.k) /\ front \in Pid \cup {None} /\ \A t \in C : pid[t] \in Pid
  BY <1>1, FrontAlive DEF Mild, MildBut, Follows
<1>a. Cleaned(w.k, v, front, C, tracked)
  BY <1>2, TaskPids, CleanUpWatch
<1> HIDE DEF v
<1>3. /\ Mild(w.k, v.k) /\ WatchOK(v.k, v.pipe, tracked \ C)
      /\ \A t \in C :
           (Alive(w.k, front) /\ pid[t] # front
              /\ (w.k.st[pid[t]] # Absent => w.k.parent[pid[t]] = front))
           => v.k.st[pid[t]] = Absent
  BY <1>a DEF Cleaned
<1>4. Mild(k, v.k)  BY <1>3, MildTransitive, CoreFacts DEF Mild
<1>5. Alive(w.k, front)
  BY FrontAlive DEF Mild, MildBut, Follows, Spares
<1>6. ASSUME NEW t \in C, w.k.st[pid[t]] # Absent PROVE w.k.parent[pid[t]] = front
  <2>1. k.st[pid[t]] # Absent /\ k.st[front] # Absent /\ w.k.st[front] # Absent
    BY <1>1, <1>5, <1>6, FrontAlive DEF Mild, MildBut, Follows, Ages, Alive
  <2>2. k.parent[pid[t]] = front
    BY <1>1, <2>1, CoreFacts DEF TaskFacts
  <2> QED BY <1>1, <1>6, <2>1, <2>2 DEF Mild, MildBut, Follows, Ages
<1>7. \A t \in C : pid[t] # front  BY <1>1, TaskNotFront
<1> QED BY <1>3, <1>4, <1>5, <1>6, <1>7 DEF v, Gathered

\* A collecting step as a whole: whoever was recorded has left the table.
LEMMA CollectedCore ==
  ASSUME KInv, InTurn, NEW w, w.pipe \in Pipes, Mild(k, w.k),
         WatchOK(w.k, w.pipe, tracked),
         NEW C, C \subseteq tracked, \A t \in C : owner[t] = front,
         k' = CleanUp(w, front, C).k, pipe' = CleanUp(w, front, C).pipe,
         Recorded(w, C), tracked' \in {tracked, tracked \ C},
         UNCHANGED <<pid, owner, turns, sched>>
  PROVE  Core'
<1>1. /\ Mild(k, k') /\ WatchOK(k', pipe', tracked \ C)
      /\ \A t \in C : k'.st[pid[t]] = Absent
  <2>1. Gathered(CleanUp(w, front, C), C)  BY CollectingCore
  <2> QED BY <2>1 DEF Gathered
<1>2. WatchOK(k', pipe', tracked')  BY <1>1 DEF WatchOK
<1>3. \A t \in Task : ledger'[t] = ledger[t] \/ k'.st[pid[t]] = Absent
  BY <1>1 DEF Recorded
<1>4. \A t \in Task : pid[t] = None => turns'[t] = 0  BY CoreFacts
<1> QED BY <1>1, <1>2, <1>3, <1>4, FrontAlive, TurnCore DEF Mild, MildBut

LEMMA SpawnCore == ASSUME KInv, InTurn, NEW t \in Task, SpawnTask(t) PROVE Core'
<1>1. /\ CanAllocate(k) /\ pid[t] = None /\ k' = Spawn(k, front, 0)
      /\ pid' = [pid EXCEPT ![t] = k.next] /\ owner' = [owner EXCEPT ![t] = front]
      /\ pipe' = [pipe EXCEPT ![t] = NewPipe] /\ tracked' = tracked \cup {t}
      /\ UNCHANGED <<ledger, turns, sched>>
  BY DEF SpawnTask
<1>2. front \in Pid /\ Alive(k, front) /\ k.st[front] # Absent
  BY FrontAlive DEF Alive
<1>3. /\ Grows(k, k') /\ k.next \in Pid /\ k.st[k.next] = Absent /\ k.next \notin k'.fg
      /\ k'.st[k.next] = Ready /\ k'.parent[k.next] = front
  BY <1>1, <1>2, CoreFacts, SpawnGrows
<1>4. pid \in [Task -> Pid \cup {None}] /\ owner \in [Task -> Pid \cup {None}]
  BY DEF KInv, PipeInv, DataTypes, OtherTypes
<1>5. ASSUME NEW u \in Task PROVE TaskFacts(u)'
  <2>1. CASE u = t
    <3>1. pid'[t] = k.next /\ owner'[t] = front  BY <1>1, <1>4
    <3>2. k.next # None  BY <1>3, NoneIsNoPid
    <3>3. front < k.next
      BY <1>2, <1>3, CoreFacts DEF KernelOK, FreshPids, Pid
    <3>4. k.next < k'.next /\ front < k'.next
      BY <1>2, <1>3, <3>3 DEF Grows, Pid
    <3>5. ledger'[t] = NoStatus
      BY <1>1 DEF KInv, PipeInv, TaskInv
    <3> QED BY <1>2, <1>3, <2>1, <3>1, <3>2, <3>4, <3>5 DEF TaskFacts
  <2>2. CASE u # t
    <3>1. pid'[u] = pid[u] /\ owner'[u] = owner[u] /\ ledger'[u] = ledger[u]
      BY <1>1, <1>4, <2>2
    <3>2. CASE pid[u] # None  BY <1>3, <3>1, <3>2, GrownFacts
    <3>3. CASE pid[u] = None
      <4>1. ledger[u] = NoStatus  BY <3>3 DEF KInv, PipeInv, TaskInv
      <4> QED BY <1>1, <3>1, <3>3, <4>1, CoreFacts DEF TaskFacts
    <3> QED BY <3>2, <3>3
  <2> QED BY <2>1, <2>2
<1>6. Owned'
  <2> SUFFICES ASSUME NEW p \in Pid, k'.st[p] # Absent, p \notin k'.fg
               PROVE  \E u \in Task : pid'[u] = p
    BY DEF Owned
  <2>1. CASE p = k.next  BY <1>1, <1>4, <2>1
  <2>2. CASE p # k.next
    <3>1. k.st[p] # Absent /\ p \notin k.fg  BY <1>3, <2>2 DEF Grows
    <3>2. PICK u \in Task : pid[u] = p  BY <3>1 DEF KInv, Core, Owned
    <3>3. u # t  BY <1>1, <3>2, NoneIsNoPid
    <3> QED BY <1>1, <1>4, <3>2, <3>3
  <2> QED BY <2>1, <2>2
<1>7. LoopFacts'
  <2>1. loop' = loop /\ front' = front /\ picked' = picked  BY <1>1 DEF sched
  <2>2. InTurn'  BY <2>1 DEF InTurn
  <2>3. front # k.next  BY <1>2, <1>3
  <2>4. Alive(k', front)  BY <1>2, <1>3, <2>3 DEF Alive, Grows
  <2>5. picked = {} /\ loop # "launch"  BY CoreFacts DEF LoopFacts, InTurn
  <2> QED BY <1>2, <2>1, <2>2, <2>4, <2>5, NoneIsNoPid DEF LoopFacts
<1>8. WatchOK(k', pipe', tracked')
  <2>1. WatchOK(k', pipe, tracked)  BY <1>3, GrownWatch, TaskStates
  <2>2. t \notin tracked  BY <1>1 DEF KInv, PipeInv, TaskInv
  <2>3. \A u \in Task : u # t => pipe'[u] = pipe[u]
    BY <1>1, CoreFacts DEF Pipes
  <2>4. \A u \in tracked : u \in tracked' /\ pipe'[u] = pipe[u]
    BY <1>1, <2>2, <2>3, TaskPids
  <2> QED BY <2>1, <2>4 DEF WatchOK
<1>9. KernelOK(k')  BY <1>3 DEF Grows
<1> QED BY <1>5, <1>6, <1>7, <1>8, <1>9 DEF Core

LEMMA TaskCancelCore == ASSUME KInv, NEW t \in Task, TaskCancel(t) PROVE Core'
<1> DEFINE v == WriteTerminal(World, front, {t}, "cancelled")
<1>1. /\ InTurn /\ t \in tracked /\ UNCHANGED <<pid, owner, ledger, tracked, turns, sched>>
      /\ (k' = v.k /\ pipe' = v.pipe) \/ (k' = k /\ pipe' = pipe)
  BY CoreFacts DEF TaskCancel, Becomes, Mine
<1>2. pid[t] \in Pid  BY <1>1, TaskPids
<1>3. Mild(k, v.k) /\ WatchOK(v.k, v.pipe, tracked)
  BY <1>1, <1>2, CoreFacts, TaskPids, FrontAlive, WriteTerminalWatch
<1> HIDE DEF v
<1>4. Mild(k, k') /\ WatchOK(k', pipe', tracked')
  BY <1>1, <1>3, CoreFacts, MildItself
<1>5. \A u \in Task : pid[u] = None => turns'[u] = 0  BY <1>1, CoreFacts
<1> QED BY <1>1, <1>4, <1>5, FrontAlive, TurnCore DEF Mild, MildBut

\* kill_process, SIGSTOP and SIGCONT of a task's process.
LEMMA OsCallCore ==
  ASSUME KInv, NEW t \in Task, OsKill(t) \/ OsSignal(t)
  PROVE  Core'
<1>1. InTurn /\ pid[t] # None /\ UNCHANGED <<tasks, turns, sched>>
  BY DEF OsKill, OsSignal
<1>2. pid[t] \in Pid  BY <1>1, TaskPids
<1>3. Mild(k, k')
  <2>1. CASE OsKill(t)
    <3>1. k' = Killed(k, front, {pid[t]})  BY <2>1 DEF OsKill
    <3> QED BY <1>1, <1>2, <3>1, CoreFacts, FrontAlive, KilledMild
  <2>2. CASE OsSignal(t)
    <3>1. k.st[pid[t]] # Absent /\ k' \in {DeliverStop(k, pid[t]), DeliverCont(k, pid[t])}
      BY <2>2 DEF OsSignal
    <3> QED BY <1>2, <3>1, CoreFacts, StopContMild
  <2> QED BY <2>1, <2>2
<1>4. \A u \in Task : pid[u] = None => turns'[u] = 0  BY <1>1, CoreFacts
<1> QED BY <1>1, <1>3, <1>4, FrontAlive, MildCalls, TurnCore DEF Mild, tasks

\* The world after what is too old was ended in the name of the front process.
LEMMA TimedOutWorld ==
  ASSUME KInv, InTurn, NEW T, T \subseteq tracked
  PROVE  LET w == WriteTerminal(World, front, T, "timeout")
         IN  w.pipe \in Pipes /\ Mild(k, w.k) /\ WatchOK(w.k, w.pipe, tracked)
<1> DEFINE w == WriteTerminal(World, front, T, "timeout")
<1>1. \A t \in T : pid[t] \in Pid  BY TaskPids
<1>2. Mild(k, w.k) /\ WatchOK(w.k, w.pipe, tracked)
  BY <1>1, CoreFacts, TaskPids, FrontAlive, WriteTerminalWatch
<1>3. w.pipe \in Pipes
  BY CoreFacts, WriteTerminalEffect DEF Status
<1> QED BY <1>2, <1>3

\* Parked for R, of tasks that have said nothing.
LEMMA ParkCore ==
  ASSUME KInv, InTurn, NEW s, Mild(k, s), NEW X, WatchOK(s, pipe', X),
         NEW R \in SUBSET Task, R # {}, \A t \in R : t \in X /\ Silenced(pipe'[t]),
         k' = Park(s, front, R)
  PROVE  /\ Follows(k, k', None) /\ WatchOK(k', pipe', X)
         /\ \A p \in Pid : s.st[p] = Absent => k'.st[p] = Absent
<1>1. KernelOK(s) /\ front \in Pid /\ Alive(s, front)
  BY FrontAlive DEF Mild, MildBut, Follows, Spares
<1>2. /\ Follows(s, k', None) /\ k'.fg = s.fg
      /\ \A q \in Pid : k'.st[q] = IF q = front THEN Watching(R) ELSE s.st[q]
  BY <1>1, ParkFollows DEF Alive
<1>3. Follows(k, k', None)
  BY <1>2, FollowsTransitive, CoreFacts DEF Mild, MildBut
<1>4. WatchOK(k', pipe', X)
  <2> SUFFICES ASSUME NEW p \in Pid, IsWatching(k'.st[p])
               PROVE  /\ p \in k'.fg /\ k'.st[p][2] # {}
                      /\ \A t \in k'.st[p][2] : t \in X /\ Silenced(pipe'[t])
    BY DEF WatchOK
  <2>1. CASE p = front
    <3>1. k'.st[p] = Watching(R)  BY <1>2, <2>1
    <3>2. k'.st[p][2] = R  BY <3>1, TaskStates
    <3> QED BY <1>1, <1>2, <2>1, <3>2 DEF Alive
  <2>2. CASE p # front  BY <1>2, <2>2 DEF WatchOK
  <2> QED BY <2>1, <2>2
<1>5. \A p \in Pid : s.st[p] = Absent => k'.st[p] = Absent
  BY <1>2 DEF Follows, Ages
<1> QED BY <1>3, <1>4, <1>5

LEMMA TaskWaitCore ==
  ASSUME KInv, NEW S \in Asks, NEW policy \in Policies, TaskWait(S, policy)
  PROVE  Core'
<1> DEFINE T == S \cap tracked
           w == WriteTerminal(World, front, T \cap overdue, "timeout")
           C == Over(w, T)
           R == T \ C
           v == CleanUp(w, front, C)
<1>1. /\ InTurn /\ Valid(S) /\ pipe' = v.pipe /\ Recorded(w, C) /\ tracked' = tracked \ C
      /\ UNCHANGED <<pid, owner, turns, sched>>
  BY DEF TaskWait
<1>2. \/ k' = v.k
      \/ /\ R # {} /\ k' = Park(v.k, front, R)
         /\ \A t \in R : v.pipe[t].chan = "open" /\ v.pipe[t].futex = "zero"
  BY DEF TaskWait, Park
<1>3. C \subseteq T /\ T \subseteq tracked /\ R \subseteq T
  BY OverSubset
<1>4. \A t \in T : owner[t] = front  BY <1>1 DEF Valid
<1>5. \A t \in R : w.pipe[t].queue = <<>>  BY DEF Over, Answered
<1>6. w.pipe \in Pipes /\ Mild(k, w.k) /\ WatchOK(w.k, w.pipe, tracked)
  BY <1>1, TimedOutWorld
<1> HIDE DEF T, w, C
<1>7. CASE k' = v.k
  BY <1>1, <1>3, <1>4, <1>6, <1>7, CollectedCore
<1>8. CASE /\ R # {} /\ k' = Park(v.k, front, R)
           /\ \A t \in R : v.pipe[t].chan = "open" /\ v.pipe[t].futex = "zero"
  <2>1. /\ Mild(k, v.k) /\ WatchOK(v.k, v.pipe, tracked \ C)
        /\ \A t \in C : v.k.st[pid[t]] = Absent
    <3>1. Gathered(v, C)  BY <1>1, <1>3, <1>4, <1>6, CollectingCore
    <3> QED BY <3>1 DEF Gathered
  <2>2. \A t \in R : t \in Task /\ v.pipe[t] = w.pipe[t] /\ t \in tracked \ C
    BY <1>3, <1>6, CleanUpEffect, TaskPids
  <2>3. \A t \in R : Silenced(v.pipe[t])
    BY <1>5, <1>8, <2>2 DEF Silenced
  <2>4. R \in SUBSET Task  BY <2>2
  <2> HIDE DEF R, v
  <2>5. /\ Follows(k, k', None) /\ WatchOK(k', pipe', tracked')
        /\ \A p \in Pid : v.k.st[p] = Absent => k'.st[p] = Absent
    BY <1>1, <1>8, <2>1, <2>2, <2>3, <2>4, ParkCore
  <2>6. \A t \in Task : ledger'[t] = ledger[t] \/ k'.st[pid[t]] = Absent
    BY <1>1, <1>3, <2>1, <2>5, TaskPids DEF Recorded
  <2>7. \A t \in Task : pid[t] = None => turns'[t] = 0  BY <1>1, CoreFacts
  <2> QED BY <1>1, <2>5, <2>6, <2>7, FrontAlive, TurnCore
<1> QED BY <1>2, <1>7, <1>8

LEMMA TaskWaitFailsCore ==
  ASSUME KInv, NEW S \in Asks, NEW policy \in Policies, TaskWaitFails(S, policy)
  PROVE  Core'
<1> DEFINE T == S \cap tracked
           late(f, D) == (D \cup {f}) \cap overdue
           w(f, D) == WriteTerminal(World, front, late(f, D), "timeout")
<1>1. PICK f \in T, D \in SUBSET T : ScanFails(w(f, D), f, D)
  BY DEF TaskWaitFails
<1> DEFINE ww == w(f, D)
           C == Over(ww, D)
<1>2. /\ InTurn /\ Valid(S) /\ UNCHANGED <<pid, owner, tracked, turns, sched>>
  BY DEF TaskWaitFails
<1>3. /\ k' = CleanUp(ww, front, C).k /\ pipe' = CleanUp(ww, front, C).pipe
      /\ Recorded(ww, C)
  BY <1>1 DEF ScanFails, Becomes
<1>4. C \subseteq D /\ D \subseteq tracked /\ \A t \in D : owner[t] = front
  BY <1>2, OverSubset DEF Valid
<1>5. ww.pipe \in Pipes /\ Mild(k, ww.k) /\ WatchOK(ww.k, ww.pipe, tracked)
  <2>1. late(f, D) \subseteq tracked  OBVIOUS
  <2> HIDE DEF late
  <2> QED BY <1>2, <2>1, TimedOutWorld
<1> HIDE DEF ww, C
<1> QED BY <1>2, <1>3, <1>4, <1>5, CollectedCore

LEMMA TaskStatusCore == ASSUME KInv, TaskStatus \/ TaskStatusFails PROVE Core'
<1>1. World.pipe \in Pipes /\ Mild(k, World.k) /\ WatchOK(World.k, World.pipe, tracked)
  BY CoreFacts, MildItself
<1>2. \A C : C \subseteq Mine => C \subseteq tracked /\ \A t \in C : owner[t] = front
  BY DEF Mine
<1>3. CASE TaskStatus
  <2> DEFINE C == Over(World, Mine)
  <2>1. /\ InTurn /\ Recorded(World, C) /\ tracked' = tracked \ C
        /\ k' = CleanUp(World, front, C).k /\ pipe' = CleanUp(World, front, C).pipe
        /\ UNCHANGED <<pid, owner, turns, sched>>
    BY <1>3 DEF TaskStatus, Becomes
  <2>2. C \subseteq Mine  BY OverSubset
  <2> HIDE DEF C
  <2> QED BY <1>1, <1>2, <2>1, <2>2, CollectedCore
<1>4. CASE TaskStatusFails
  <2>1. PICK f \in Mine, D \in SUBSET Mine : ScanFails(World, f, D)
    BY <1>4 DEF TaskStatusFails
  <2> DEFINE C == Over(World, D)
  <2>2. /\ InTurn /\ Recorded(World, C)
        /\ k' = CleanUp(World, front, C).k /\ pipe' = CleanUp(World, front, C).pipe
        /\ UNCHANGED <<pid, owner, tracked, turns, sched>>
    BY <1>4, <2>1 DEF TaskStatusFails, ScanFails, Becomes
  <2>3. C \subseteq Mine  BY OverSubset
  <2> HIDE DEF C
  <2> QED BY <1>1, <1>2, <2>2, <2>3, CollectedCore
<1> QED BY <1>3, <1>4

-----------------------------------------------------------------------------
(* Every step.                                                             *)

\* A future ends by itself, and time passes.
LEMMA PassiveCore ==
  ASSUME KInv, UNCHANGED <<k, pipe, pid, owner, tracked, ledger, sched>>,
         \A t \in Task : pid[t] = None => turns'[t] = 0
  PROVE  Core'
<1>1. Mild(k, k')  BY CoreFacts, MildItself
<1>2. Follows(k, k', None) /\ WatchOK(k', pipe', tracked')
  BY <1>1, MildCalls DEF Mild
<1>3. InTurn => None # front  BY FrontAlive
<1> QED BY <1>2, <1>3, TurnCore

LEMMA CoreStep == ASSUME KInv, [Next]_vars PROVE Core'
<1>0. \A t \in Task : pid[t] = None => turns[t] = 0  BY CoreFacts
<1>1. CASE UNCHANGED vars  BY <1>0, <1>1, PassiveCore DEF vars, tasks
<1>2. CASE LoopStep
  BY <1>2, ReapCore, WakeExpiredCore, DispatchCore, ClockWaitCore, LaunchCore, ResumeCore
     DEF LoopStep
<1>3. CASE Ask \/ Discard \/ EndTurn  BY <1>3, AskCore, DiscardCore, EndTurnCore
<1>4. CASE Calls
  <2>1. CASE \E t \in Task : TaskSpawn(t) \/ TaskRetry(t)
    BY <2>1, SpawnCore DEF TaskSpawn, TaskRetry
  <2>2. CASE \E t \in Task : TaskCancel(t) \/ OsKill(t) \/ OsSignal(t)
    BY <2>2, TaskCancelCore, OsCallCore
  <2>3. CASE \E S \in Asks, policy \in Policies :
               TaskWait(S, policy) \/ TaskWaitFails(S, policy)
    BY <2>3, TaskWaitCore, TaskWaitFailsCore
  <2>4. CASE TaskStatus \/ TaskStatusFails  BY <2>4, TaskStatusCore
  <2> QED BY <1>4, <2>1, <2>2, <2>3, <2>4 DEF Calls
<1>5. CASE \E p \in picked : DispatchFails(p)  BY <1>5, DispatchFailsCore
<1>6. CASE \E t \in Task : Finish(t)  BY <1>6, FinishCore
<1>7. ASSUME NEW t \in Task, Dies(t) PROVE Core'
  <2>1. turns[t] > 0 /\ Leaves(t) /\ UNCHANGED <<k, tasks, sched>>  BY <1>7 DEF Dies
  <2> QED BY <2>1, LeavesTurns, PassiveCore DEF tasks
<1>8. CASE (\E t \in Task : GrowsOld(t)) \/ (\E x \in Key : Elapses(x))
  BY <1>0, <1>8, PassiveCore DEF GrowsOld, Elapses, tasks
<1> QED BY <1>1, <1>2, <1>3, <1>4, <1>5, <1>6, <1>7, <1>8 DEF Next

-----------------------------------------------------------------------------
(* The variables that only count and remember.                             *)

Budget == {"none", "armed", "due", "expired"}

LEMMA LoadedBudget ==
  ASSUME OtherTypes, NEW x \in Key PROVE Loaded(x) \in Budget
BY DEF OtherTypes, Loaded, Budget

\* The key of the state of a wait in the foreground turn.
LEMMA AskedKey ==
  ASSUME KInv, InTurn, NEW S \in Asks, NEW policy \in Policies
  PROVE  <<front, policy, S>> \in Key
BY FrontAlive DEF Key

LEMMA LeavesTypes ==
  ASSUME OtherTypes, NEW t \in Task, turns[t] > 0, Leaves(t),
         UNCHANGED <<owner, dropped, budget, overdue>>
  PROVE  OtherTypes'
<1>1. turns' = [turns EXCEPT ![t] = turns[t] - 1]  BY DEF Leaves
<1>2. turns[t] - 1 \in 0..MaxInFlight  BY PipeAssumption DEF OtherTypes
<1>3. turns' \in [Task -> 0..MaxInFlight]  BY <1>1, <1>2 DEF OtherTypes
<1>4. aborted' \subseteq Task  BY DEF Leaves, OtherTypes
<1> QED BY <1>3, <1>4 DEF OtherTypes

LEMMA LoopTypes == ASSUME KInv, LoopStep PROVE OtherTypes'
<1>0. OtherTypes /\ tracked \subseteq Task  BY TaskPids DEF KInv
<1>1. CASE Reap  BY <1>0, <1>1 DEF Reap, Abort, OtherTypes, clock
<1>2. CASE WakeExpired
  <2>1. budget' = [x \in Key |-> IF budget[x] = "due" THEN "expired" ELSE budget[x]]
        /\ UNCHANGED <<tasks, overdue, aborted, turns>>
    BY <1>2 DEF WakeExpired
  <2>2. budget' \in [Key -> {"none", "armed", "due", "expired"}]
    BY <1>0, <2>1 DEF OtherTypes
  <2> QED BY <1>0, <2>1, <2>2 DEF OtherTypes, tasks
<1>3. CASE Dispatch \/ ClockWait \/ \E p \in Pid : ResumeForeground(p)
  BY <1>0, <1>3 DEF Dispatch, ClockWait, ResumeForeground, OtherTypes, tasks, clock
<1>4. ASSUME NEW p \in picked, Launch(p) PROVE OtherTypes'
  <2>1. TaskOf(p) \in Task  BY PickedTask
  <2>2. /\ turns' = [turns EXCEPT ![TaskOf(p)] = turns[TaskOf(p)] + 1]
        /\ turns[TaskOf(p)] < MaxInFlight
        /\ aborted' \subseteq aborted /\ UNCHANGED <<tasks, clock>>
    BY <1>4 DEF Launch
  <2>3. turns[TaskOf(p)] + 1 \in 0..MaxInFlight
    BY <1>0, <2>1, <2>2, PipeAssumption DEF OtherTypes
  <2>4. turns' \in [Task -> 0..MaxInFlight]  BY <1>0, <2>2, <2>3 DEF OtherTypes
  <2> QED BY <1>0, <2>2, <2>4 DEF OtherTypes, tasks, clock
<1> QED BY <1>1, <1>2, <1>3, <1>4 DEF LoopStep

LEMMA CallTypes == ASSUME KInv, Calls PROVE OtherTypes'
<1>0. OtherTypes /\ tracked \subseteq Task  BY TaskPids DEF KInv
<1>1. CASE \E t \in Task : TaskSpawn(t) \/ TaskRetry(t)
  <2>1. PICK t \in Task : InTurn /\ SpawnTask(t)  BY <1>1 DEF TaskSpawn, TaskRetry
  <2>2. owner' = [owner EXCEPT ![t] = front] /\ front \in Pid
        /\ UNCHANGED <<dropped, clock, aborted, turns>>
    BY <2>1, FrontAlive DEF SpawnTask
  <2>3. owner' \in [Task -> Pid \cup {None}]  BY <1>0, <2>2 DEF OtherTypes
  <2> QED BY <1>0, <2>2, <2>3 DEF OtherTypes, clock
<1>2. CASE \E t \in Task : TaskCancel(t) \/ OsKill(t) \/ OsSignal(t)
  BY <1>0, <1>2 DEF TaskCancel, OsKill, OsSignal, Abort, OtherTypes, tasks, clock
<1>3. ASSUME NEW S \in Asks, NEW policy \in Policies,
             TaskWait(S, policy) \/ TaskWaitFails(S, policy)
      PROVE  OtherTypes'
  <2> DEFINE x == <<front, policy, S>>
  <2>1. /\ InTurn /\ UNCHANGED <<owner, dropped, turns>> /\ Abort(S \cap tracked \cap overdue)
        /\ overdue' \subseteq overdue
    BY <1>3 DEF TaskWait, TaskWaitFails
  <2>2. \E b \in {Loaded(x), "none"} : budget' = [budget EXCEPT ![x] = b]
    BY <1>3 DEF TaskWait, TaskWaitFails
  <2>3. x \in Key  BY <2>1, AskedKey
  <2>4. Loaded(x) \in Budget /\ "none" \in Budget  BY <1>0, <2>3, LoadedBudget DEF Budget
  <2> HIDE DEF x
  <2>5. budget' \in [Key -> Budget]
    BY <1>0, <2>2, <2>4 DEF OtherTypes, Budget
  <2>6. aborted' \subseteq Task  BY <1>0, <2>1 DEF Abort, OtherTypes
  <2> QED BY <1>0, <2>1, <2>5, <2>6 DEF OtherTypes, Budget
<1>4. CASE TaskStatus \/ TaskStatusFails
  BY <1>0, <1>4 DEF TaskStatus, TaskStatusFails, OtherTypes, clock
<1> QED BY <1>1, <1>2, <1>3, <1>4 DEF Calls

LEMMA TypesStep == ASSUME KInv, [Next]_vars PROVE OtherTypes'
<1>0. OtherTypes /\ tracked \subseteq Task  BY TaskPids DEF KInv
<1>1. CASE UNCHANGED vars  BY <1>0, <1>1 DEF vars, tasks, clock, OtherTypes
<1>2. CASE LoopStep \/ Calls  BY <1>2, LoopTypes, CallTypes
<1>3. CASE Ask \/ EndTurn  BY <1>0, <1>3 DEF Ask, EndTurn, tasks, clock, OtherTypes
<1>4. CASE Discard
  <2>1. /\ budget' = [x \in Key |-> "none"] /\ overdue' = {} /\ Abort(tracked)
        /\ dropped' = dropped \cup tracked /\ UNCHANGED <<owner, turns>>
    BY <1>4 DEF Discard
  <2> QED BY <1>0, <2>1 DEF Abort, OtherTypes
<1>5. CASE \E p \in picked : DispatchFails(p)
  BY <1>0, <1>5 DEF DispatchFails, clock, OtherTypes
<1>6. ASSUME NEW t \in Task, Finish(t) \/ Dies(t) PROVE OtherTypes'
  <2>1. turns[t] > 0 /\ Leaves(t) /\ UNCHANGED <<owner, dropped, budget, overdue>>
    BY <1>6 DEF Finish, Dies, tasks, clock
  <2> QED BY <1>0, <2>1, LeavesTypes
<1>7. CASE \E t \in Task : GrowsOld(t)
  BY <1>0, <1>7 DEF GrowsOld, tasks, OtherTypes
<1>8. ASSUME NEW x \in Key, Elapses(x) PROVE OtherTypes'
  <2>1. budget' = [budget EXCEPT ![x] = "due"] /\ UNCHANGED <<tasks, overdue, aborted, turns>>
    BY <1>8 DEF Elapses
  <2> QED BY <1>0, <2>1 DEF OtherTypes, tasks
<1> QED BY <1>1, <1>2, <1>3, <1>4, <1>5, <1>6, <1>7, <1>8 DEF Next

LEMMA EmptyOK == KernelOK(EmptyKernel) /\ \A p \in Pid : EmptyKernel.st[p] = Absent
<1> DEFINE e == EmptyKernel
<1>1. e \in TaskKernel
  <2>1. <<>> \in Seq(Signal)  OBVIOUS
  <2> QED BY <2>1, TaskStates DEF EmptyKernel, TaskKernel
<1>2. /\ \A p \in Pid : e.st[p] = Absent /\ e.kids[p] = {} /\ e.waitq[p] = {}
      /\ e.fg = {} /\ e.ready = {} /\ e.next = 1
  BY DEF EmptyKernel
<1> HIDE DEF e
<1>3. e.next \in 1..(MaxPid + 1)  BY <1>2, TableAssumption
<1>4. KernelOK(e)
  BY <1>1, <1>2, <1>3 DEF KernelOK, FreshPids, NobodyQueued, ReadyExists, IndexSound, FgOnTop
<1> QED BY <1>2, <1>4 DEF e

LEMMA KernelInvariant == Spec => []KInv
<1>1. Init => KInv
  <2> SUFFICES ASSUME Init PROVE KInv  OBVIOUS
  <2>1. PipeInv  BY PipeInit
  <2>2. OtherTypes  BY PipeAssumption DEF Init, OtherTypes
  <2>3. /\ k = EmptyKernel /\ tracked = {} /\ loop = "reap" /\ front = None /\ picked = {}
        /\ \A t \in Task : pid[t] = None /\ ledger[t] = NoStatus /\ turns[t] = 0
    BY DEF Init
  <2>4. KernelOK(k) /\ \A p \in Pid : k.st[p] = Absent
    BY <2>3, EmptyOK
  <2>5. LoopFacts  BY <2>3 DEF LoopFacts, InTurn
  <2>6. \A t \in Task : TaskFacts(t)  BY <2>3 DEF TaskFacts
  <2>7. Owned /\ WatchOK(k, pipe, tracked)  BY <2>4, TaskStates DEF Owned, WatchOK
  <2> QED BY <2>1, <2>2, <2>4, <2>5, <2>6, <2>7 DEF KInv, Core
<1>2. KInv /\ [Next]_vars => KInv'
  BY PipeInvStep, CoreStep, TypesStep DEF KInv
<1> QED BY <1>1, <1>2, PTL DEF Spec

-----------------------------------------------------------------------------
(* What the runs check, for every instance.                                *)

\* What a channel of capacity one holds, and the states of a process, are among those
\* that TaskPipe declares.
LEMMA QueueBounded == Queue \subseteq BoundedSeq(Status, 1)
<1> DEFINE F == {[1..m -> Status] : m \in 0..1}
<1>1. [1..0 -> Status] \in F /\ [1..1 -> Status] \in F  OBVIOUS
<1>2. BoundedSeq(Status, 1) = UNION F  BY DEF BoundedSeq, SeqOf
<1>3. <<>> \in [1..0 -> Status]  OBVIOUS
<1>4. \A s \in Status : <<s>> \in [1..1 -> Status]  OBVIOUS
<1> HIDE DEF F
<1>5. <<>> \in UNION F  BY <1>1, <1>3
<1>6. ASSUME NEW s \in Status PROVE <<s>> \in UNION F
  <2> DEFINE q == <<s>>
  <2>1. q \in [1..1 -> Status]  BY <1>4
  <2> HIDE DEF q
  <2>2. q \in UNION F  BY <1>1, <2>1
  <2> QED BY <2>2 DEF q
<1> QED BY <1>2, <1>5, <1>6 DEF Queue

LEMMA PipesTyped == Pipes \subseteq [Task -> Pipe]
<1>1. PipeRecord \subseteq Pipe  BY QueueBounded DEF PipeRecord, Pipe
<1> QED BY <1>1 DEF Pipes

\* Types: queues of at most one result, turns in flight within their bound, a front
\* process in a turn and only then.
THEOREM TypeCorrect == Spec => []TypeOK
<1>1. KInv => TypeOK
  <2> SUFFICES ASSUME KInv PROVE TypeOK  OBVIOUS
  <2>1. pipe \in [Task -> Pipe]  BY CoreFacts, PipesTyped
  <2>2. k.st \in [Pid -> State \cup ({"events"} \X SUBSET Task)]
    <3>1. TaskState \subseteq State \cup ({"events"} \X SUBSET Task)
      BY DEF TaskState, State
    <3> QED BY <3>1, CoreFacts DEF KernelOK, TaskKernel
  <2>3. (InTurn <=> front # None) /\ (picked # {} <=> loop = "launch")
    BY CoreFacts DEF LoopFacts
  <2>4. OtherTypes /\ DataTypes /\ tracked \subseteq Task
    BY TaskPids DEF KInv, PipeInv
  <2> QED BY <2>1, <2>2, <2>3, <2>4 DEF OtherTypes, DataTypes, TypeOK
<1> QED BY <1>1, KernelInvariant, PTL

\* A parked owner (task_wait's WaitOn::Events) has missed nothing: of the tasks it is
\* parked for, none has published, whoever may publish in its name.
THEOREM ParkedSeesCorrect == Spec => []ParkedSeesNothing
<1>1. KInv => ParkedSeesNothing
  BY CoreFacts DEF WatchOK, Silenced, ParkedSeesNothing
<1> QED BY <1>1, KernelInvariant, PTL

\* A parked owner is parked for tasks that are in the registry and have their channel,
\* so that what they publish, or is published in their name, completes its wait.
THEOREM ParkedWakeCorrect == Spec => []ParkedCanBeWoken
<1>1. KInv => ParkedCanBeWoken
  BY CoreFacts, HasChanOf DEF WatchOK, Silenced, ParkedCanBeWoken
<1> QED BY <1>1, KernelInvariant, PTL

\* Collecting a result (cleanup_collected_task) takes the task's process out of the table:
\* its parent, who collects, is alive and may kill it whatever became of it.
THEOREM CollectedCorrect == Spec => []CollectedIsGone
<1>1. KInv => CollectedIsGone
  BY CoreFacts DEF TaskFacts, CollectedIsGone, Exists
<1> QED BY <1>1, KernelInvariant, PTL

=============================================================================
