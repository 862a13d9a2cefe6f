-------------------------- MODULE AgentTree_proofs --------------------------
(***************************************************************************)
(* Proofs about AgentSched that need the process tree: the child index and *)
(* the kill cascade, the order of exit waits, and that whoever runs is     *)
(* driven by somebody.                                                     *)
(*                                                                         *)
(* IsAncestor and Descendants are recursive functions on pids, unfolded in *)
(* ProcTree_proofs.  What they compute is shown by the least number        *)
(* principle: a smallest pid for which a claim fails cannot exist, since   *)
(* its parent is smaller.  TreeInv is the inductive invariant; most kernel *)
(* methods are Tame, and only the few that are not need an argument of     *)
(* their own.                                                              *)
(***************************************************************************)
EXTENDS AgentSched_proofs, ProcTree_proofs

-----------------------------------------------------------------------------
(* The tree of a kernel of AgentSched, one step up and one step down.      *)

LEMMA AncestorStep ==
  ASSUME NEW s \in Kernel, NEW a \in Pid, NEW p \in Pid
  PROVE  IsAncestor(s, a, p) <=>
           /\ Exists(s, p) /\ s.parent[p] # None
           /\ s.parent[p] = a \/ (s.parent[p] < p /\ IsAncestor(s, a, s.parent[p]))
<1>1. s.parent \in [Pid -> Pid \cup {None}]  BY DEF Kernel
<1> QED BY <1>1, ParentStep

LEMMA DescendantStep ==
  ASSUME NEW s \in Kernel, NEW p \in Pid, NEW c \in Pid
  PROVE  c \in Descendants(s, p) <=>
           \E a \in 1..(c - 1) : c \in s.kids[a] /\ (a = p \/ a \in Descendants(s, p))
BY ChildStep

-----------------------------------------------------------------------------
(* The tree.                                                               *)

\* A child is younger than its parent.
ParentsOlder(s) == \A c \in Pid : s.parent[c] < c

IndexComplete(s) ==
  \A c, p \in Pid : s.st[c] # Absent /\ s.st[p] # Absent /\ s.parent[c] = p => c \in s.kids[p]

WaitsDown(s) == \A w, p \in Pid : s.st[w] = WaitingExit(p) => w < p

TreeInv(s) == ParentsOlder(s) /\ IndexComplete(s) /\ WaitsDown(s)

\* Whoever is_ancestor_of finds above p is older than p.
LEMMA AncestorsOlder ==
  ASSUME NEW s \in Kernel, ParentsOlder(s), NEW a \in Pid, NEW p \in Pid, IsAncestor(s, a, p)
  PROVE  a < p
<1> DEFINE T == {q \in Pid : IsAncestor(s, a, q) /\ ~(a < q)}
<1>1. SUFFICES T = {}  BY <1>1
<1>2. SUFFICES ASSUME T # {} PROVE FALSE  BY <1>2
<1>3. PICK q \in T : \A n \in T : q <= n
  <2>1. T \in SUBSET Pid  OBVIOUS
  <2> HIDE DEF T
  <2> QED BY <1>2, <2>1, LeastPid
<1>4. q \in Pid /\ IsAncestor(s, a, q) /\ ~(a < q)  OBVIOUS
<1>5. s.parent[q] \in Pid /\ s.parent[q] < q
  BY <1>4, AncestorStep DEF Kernel, ParentsOlder
<1>6. s.parent[q] # a  BY <1>4, <1>5
<1>7. IsAncestor(s, a, s.parent[q])  BY <1>4, <1>6, AncestorStep
<1>8. s.parent[q] \notin T  BY <1>3, <1>5 DEF Pid
<1>9. a < s.parent[q]  BY <1>5, <1>7, <1>8
<1> QED BY <1>4, <1>5, <1>9 DEF Pid

\* What is below p going up is below p going down.
LEMMA AncestryIndexed ==
  ASSUME NEW s \in Kernel, ParentsOlder(s), IndexComplete(s),
         NEW p \in Pid, s.st[p] # Absent, NEW q \in Pid, IsAncestor(s, p, q)
  PROVE  q \in Descendants(s, p)
<1> DEFINE T == {c \in Pid : IsAncestor(s, p, c) /\ c \notin Descendants(s, p)}
<1>1. SUFFICES T = {}  BY <1>1
<1>2. SUFFICES ASSUME T # {} PROVE FALSE  BY <1>2
<1>3. PICK c \in T : \A n \in T : c <= n
  <2>1. T \in SUBSET Pid  OBVIOUS
  <2> HIDE DEF T
  <2> QED BY <1>2, <2>1, LeastPid
<1>4. c \in Pid /\ IsAncestor(s, p, c) /\ c \notin Descendants(s, p)  OBVIOUS
<1> DEFINE a == s.parent[c]
<1>5. a \in Pid /\ a < c /\ s.st[c] # Absent
  BY <1>4, AncestorStep DEF Kernel, ParentsOlder, Exists
<1>6. a = p \/ IsAncestor(s, p, a)
  BY <1>4, AncestorStep
<1>7. s.st[a] # Absent
  BY <1>5, <1>6, AncestorStep DEF Exists
<1>8. c \in s.kids[a]
  BY <1>4, <1>5, <1>7 DEF IndexComplete
<1>9. a = p \/ a \in Descendants(s, p)
  <2>1. a \notin T  BY <1>3, <1>5 DEF Pid
  <2> QED BY <1>5, <1>6, <2>1
<1>10. a \in 1..(c - 1)  BY <1>5 DEF Pid
<1> HIDE DEF a
<1> QED BY <1>4, <1>8, <1>9, <1>10, DescendantStep

-----------------------------------------------------------------------------
(* Most kernel methods are tame: they keep the tree in order, and whoever  *)
(* runs or waits afterwards did so before.                                 *)

Engaged(x) == x = Running \/ IsWaiting(x)

Tame(s, n) == /\ TreeInv(s) => TreeInv(n)
              /\ \A q \in Pid : n.st[q] = s.st[q] \/ ~Engaged(n.st[q])

LEMMA EngagedStates ==
  /\ Engaged(Running) /\ \A p : Engaged(WaitingExit(p))
  /\ \A x \in {Absent, Ready, Stopped, Terminated} : ~Engaged(x)
  /\ \A t : ~Engaged(Sleeping(t))
BY DEF Engaged, IsWaiting, Absent, Ready, Running, Stopped, Terminated, WaitingExit, Sleeping

LEMMA TameTrans ==
  ASSUME NEW s, NEW m, NEW n, Tame(s, m), Tame(m, n)
  PROVE  Tame(s, n)
BY DEF Tame

LEMMA TameRefl == ASSUME NEW s PROVE Tame(s, s)
BY DEF Tame

\* A method that leaves the tree alone.
LEMMA SameTree ==
  ASSUME NEW s, NEW n, n.parent = s.parent, n.kids = s.kids,
         \A q \in Pid : n.st[q] # Absent => s.st[q] # Absent,
         \A q \in Pid : n.st[q] = s.st[q] \/ ~Engaged(n.st[q])
  PROVE  Tame(s, n)
BY EngagedStates DEF Tame, TreeInv, ParentsOlder, IndexComplete, WaitsDown

\* terminate_pid, for a set of victims.
LEMMA TerminateTame ==
  ASSUME NEW s, KernelInv(s), NEW V \in SUBSET Pid
  PROVE  Tame(s, TerminatePids(s, V))
<1> DEFINE n == TerminatePids(s, V)
           woken == Waiters(s, V) \ V
<1>1. \A w \in woken : s.st[w] # Absent
  BY DEF Waiters, Exists
<1>2. /\ n.st = [p \in Pid |-> IF p \in V /\ Exists(s, p) THEN Terminated
                               ELSE IF p \in woken THEN Ready ELSE s.st[p]]
      /\ n.kids = s.kids /\ n.parent = s.parent
  BY DEF TerminatePids, KernelInv, Kernel
<1> HIDE DEF n
<1>3. \A q \in Pid : n.st[q] # Absent => s.st[q] # Absent
  BY <1>1, <1>2 DEF Exists
<1>4. \A q \in Pid : n.st[q] = s.st[q] \/ ~Engaged(n.st[q])
  BY <1>2, EngagedStates
<1>5. Tame(s, n)
  BY <1>2, <1>3, <1>4, SameTree
<1> QED BY <1>5 DEF n

\* remove_process_entry
LEMMA RemoveTame ==
  ASSUME NEW s, KernelInv(s), NEW p \in Pid
  PROVE  Tame(s, RemoveEntry(s, p))
<1> DEFINE G == Removed(s, p)
           n == RemoveEntries(s, G)
           orphans == (UNION {s.kids[g] : g \in G}) \ G
<1>1. /\ n.st = [q \in Pid |-> IF q \in G THEN Absent ELSE s.st[q]]
      /\ n.parent = [q \in Pid |-> IF q \in G \cup orphans THEN None ELSE s.parent[q]]
      /\ n.kids = [q \in Pid |-> IF q \in G THEN {} ELSE s.kids[q] \ G]
  <2> HIDE DEF G
  <2> QED BY DEF RemoveEntries, KernelInv, Kernel
<1> HIDE DEF G, n, orphans
<1>2. \A q \in Pid : n.st[q] = s.st[q] \/ ~Engaged(n.st[q])
  BY <1>1, EngagedStates
<1>3. ASSUME TreeInv(s) PROVE TreeInv(n)
  <2>1. ParentsOlder(n)
    BY <1>1, <1>3 DEF TreeInv, ParentsOlder, None, Pid
  <2>2. IndexComplete(n)
    <3> SUFFICES ASSUME NEW c \in Pid, NEW q \in Pid, n.st[c] # Absent, n.st[q] # Absent,
                        n.parent[c] = q
                 PROVE  c \in n.kids[q]
      BY DEF IndexComplete
    <3>1. q # None  BY DEF Pid, None
    <3>2. c \notin G /\ q \notin G /\ s.st[c] # Absent /\ s.st[q] # Absent
      BY <1>1
    <3>3. s.parent[c] = q  BY <1>1, <3>1
    <3>4. c \in s.kids[q]  BY <1>3, <3>2, <3>3 DEF TreeInv, IndexComplete
    <3> QED BY <1>1, <3>2, <3>4
  <2>3. WaitsDown(n)
    BY <1>1, <1>3, States DEF TreeInv, WaitsDown
  <2> QED BY <2>1, <2>2, <2>3 DEF TreeInv
<1>4. Tame(s, n)
  BY <1>2, <1>3 DEF Tame
<1> QED BY <1>4 DEF RemoveEntry, n, G

LEMMA DropTerminatedTame ==
  ASSUME NEW s, KernelInv(s), NEW p \in Pid
  PROVE  Tame(s, DropTerminated(s, p))
BY RemoveTame, TameRefl DEF DropTerminated

LEMMA SetCurrentTame ==
  ASSUME NEW s, KernelInv(s), NEW p
  PROVE  Tame(s, SetCurrent(s, p)) /\ SetCurrent(s, p).st = s.st
<1>1. /\ SetCurrent(s, p).st = s.st /\ SetCurrent(s, p).parent = s.parent
      /\ SetCurrent(s, p).kids = s.kids
  BY DEF SetCurrent, KernelInv, Kernel
<1> QED BY <1>1, SameTree

LEMMA TerminateCurrentTame ==
  ASSUME NEW s, KernelInv(s)
  PROVE  Tame(s, TerminateCurrent(s))
<1>1. CASE s.cur = None
  BY <1>1, TameRefl DEF TerminateCurrent
<1>2. CASE s.cur # None
  <2>1. {s.cur} \in SUBSET Pid
    BY <1>2 DEF KernelInv, Kernel
  <2>2. TerminateCurrent(s) = SetCurrent(TerminatePids(s, {s.cur}), None)
    BY <1>2 DEF TerminateCurrent, SetCurrent
  <2> QED BY <2>1, <2>2, TerminateInv, TerminateTame, SetCurrentTame, TameTrans
<1> QED BY <1>1, <1>2

LEMMA RequeueCurrentTame ==
  ASSUME NEW s, KernelInv(s)
  PROVE  Tame(s, RequeueCurrent(s))
<1> DEFINE n == RequeueCurrent(s)
<1>1. CASE n = s
  BY <1>1, TameRefl
<1>2. CASE n # s
  <2>1. s.cur \in Pid
    BY <1>2 DEF RequeueCurrent, KernelInv, Kernel
  <2>2. /\ n.parent = s.parent /\ n.kids = s.kids
        /\ n.st = s.st \/ (s.st[s.cur] # Absent /\ n.st = [s.st EXCEPT ![s.cur] = Ready])
    BY <1>2, <2>1, States DEF RequeueCurrent, KernelInv, Kernel, Exists
  <2> HIDE DEF n
  <2>3. \A q \in Pid : n.st[q] # Absent => s.st[q] # Absent
    BY <2>2 DEF KernelInv, Kernel
  <2>4. \A q \in Pid : n.st[q] = s.st[q] \/ ~Engaged(n.st[q])
    BY <2>2, EngagedStates DEF KernelInv, Kernel
  <2>5. Tame(s, n)
    BY <2>2, <2>3, <2>4, SameTree
  <2> QED BY <2>5 DEF n
<1> QED BY <1>1, <1>2

\* The end of a turn: its process does not run any more.
LEMMA TerminateAndCleanupTame ==
  ASSUME NEW s, KernelInv(s), NEW p \in Pid
  PROVE  /\ Tame(s, TerminateAndCleanup(s, p))
         /\ ~Engaged(TerminateAndCleanup(s, p).st[p])
<1> DEFINE c == SetCurrent(s, p)
           d == TerminateCurrent(c)
           n == TerminateAndCleanup(s, p)
<1>1. KernelInv(c) /\ c.cur = p /\ Tame(s, c)
  BY SetCurrentInv, SetCurrentTame
<1> HIDE DEF c
<1>2. KernelInv(d) /\ Tame(c, d)
  BY <1>1, TerminateCurrentInv, TerminateCurrentTame
<1>3. d.st[p] \in {Terminated, Absent}
  <2>1. p # None  BY DEF Pid, None
  <2>2. d.st = TerminatePids(c, {p}).st
    BY <1>1, <2>1 DEF TerminateCurrent, TerminatePids, KernelInv, Kernel
  <2>3. TerminatePids(c, {p}).st
          = [q \in Pid |-> IF q \in {p} /\ Exists(c, q) THEN Terminated
                           ELSE IF q \in Waiters(c, {p}) \ {p} THEN Ready ELSE c.st[q]]
    BY <1>1 DEF TerminatePids, KernelInv, Kernel
  <2> QED BY <2>2, <2>3 DEF Exists
<1> HIDE DEF d
<1>4. n = IF d.parent[p] = None THEN DropTerminated(d, p) ELSE d
  BY DEF TerminateAndCleanup, c, d
<1> HIDE DEF n
<1>5. Tame(d, n)
  BY <1>2, <1>4, DropTerminatedTame, TameRefl
<1>6. ~Engaged(n.st[p])
  BY <1>3, <1>5, EngagedStates DEF Tame
<1>7. Tame(s, n)
  BY <1>1, <1>2, <1>5, TameTrans
<1> QED BY <1>6, <1>7 DEF n

LEMMA FinalizeTame ==
  ASSUME NEW s, KernelInv(s), NEW p \in Pid, NEW ok \in BOOLEAN
  PROVE  Tame(s, Finalize(s, p, ok)) /\ Finalize(s, p, ok).st[p] # Running
<1>1. CASE ok /\ IsParked(s.st[p])
  <2>1. Finalize(s, p, ok) = SetCurrent(s, p)
    BY <1>1 DEF Finalize
  <2>2. s.st[p] # Running
    BY <1>1 DEF IsParked, IsWaiting, IsSleeping, Running, Stopped
  <2> QED BY <2>1, <2>2, SetCurrentTame
<1>2. CASE ~(ok /\ IsParked(s.st[p]))
  <2>1. Finalize(s, p, ok) = TerminateAndCleanup(s, p)
    BY <1>2 DEF Finalize
  <2> QED BY <2>1, TerminateAndCleanupTame, EngagedStates
<1> QED BY <1>1, <1>2

\* The new process is younger than its parent, and nobody is its child yet.
LEMMA SpawnTame ==
  ASSUME NEW s, KernelInv(s), NEW par \in Pid \cup {None}, par < s.next,
         NEW r \in Nat, CanAllocate(s)
  PROVE  Tame(s, Spawn(s, par, r)) /\ Spawn(s, par, r).cur = s.cur
<1> DEFINE n == Spawn(s, par, r)
           p == s.next
           e == NewEntry(s, par, Ready, r)
           kids == [q \in Pid |-> IF q = par THEN s.kids[q] \cup {p} ELSE s.kids[q]]
<1>1. /\ p \in Pid /\ p + 1 \in 1..(MaxPid + 1) /\ s.st[p] = Absent
      /\ e \in Kernel
      /\ e.st = [s.st EXCEPT ![p] = Ready] /\ e.parent = [s.parent EXCEPT ![p] = par]
      /\ e.kids = s.kids /\ e.ready = s.ready /\ e.waitq = s.waitq
      /\ e.heap = s.heap /\ e.tick = s.tick /\ e.next = p + 1
      /\ e.fg = s.fg /\ e.cur = s.cur
  BY NewEntryFields, States
<1>2. n = [e EXCEPT !.kids = kids, !.ready = s.ready \cup {p}]
  BY <1>1 DEF Spawn, Kernel
<1>3. /\ n.st = [s.st EXCEPT ![p] = Ready] /\ n.parent = [s.parent EXCEPT ![p] = par]
      /\ n.kids = kids /\ n.cur = s.cur
  BY <1>1, <1>2 DEF Kernel
<1> HIDE DEF n, e
<1>4. s.st \in [Pid -> State] /\ s.parent \in [Pid -> Pid \cup {None}] /\ p \in Pid
  BY <1>1 DEF KernelInv, Kernel
<1>5. \A q \in Pid : n.st[q] = s.st[q] \/ ~Engaged(n.st[q])
  BY <1>3, <1>4, EngagedStates
<1>6. ASSUME TreeInv(s) PROVE TreeInv(n)
  <2>1. ParentsOlder(n)
    BY <1>3, <1>4, <1>6 DEF TreeInv, ParentsOlder
  <2>2. IndexComplete(n)
    <3> SUFFICES ASSUME NEW c \in Pid, NEW q \in Pid, n.st[c] # Absent, n.st[q] # Absent,
                        n.parent[c] = q
                 PROVE  c \in kids[q]
      BY <1>3 DEF IndexComplete
    <3>1. CASE c = p
      BY <3>1, <1>3, <1>4
    <3>2. CASE c # p
      <4>1. s.st[c] # Absent /\ s.parent[c] = q
        BY <3>2, <1>3, <1>4
      <4>2. c < p /\ q < c
        <5>1. q < c  BY <1>6, <4>1 DEF TreeInv, ParentsOlder
        <5>2. ~(c >= p)  BY <4>1 DEF KernelInv, FreshPids
        <5> QED BY <5>1, <5>2, <1>4 DEF Pid
      <4>3. s.st[q] # Absent
        BY <4>2, <1>3, <1>4 DEF Pid
      <4> QED BY <4>1, <4>3, <1>6 DEF TreeInv, IndexComplete
    <3> QED BY <3>1, <3>2
  <2>3. WaitsDown(n)
    BY <1>3, <1>4, <1>6, States DEF TreeInv, WaitsDown
  <2> QED BY <2>1, <2>2, <2>3 DEF TreeInv
<1>7. Tame(s, n)
  BY <1>5, <1>6 DEF Tame
<1> QED BY <1>3, <1>7 DEF n

\* The dead daemon leaves children behind, but none of a process of the table.
LEMMA RestartDaemonTame ==
  ASSUME NEW s, KernelInv(s), TreeInv(s), NEW old \in Pid,
         s.st[old] = Terminated, s.left[old] > 0, CanAllocate(s)
  PROVE  Tame(s, RestartDaemon(s, old))
<1> DEFINE d == DropDaemon(s, old)
<1>1. /\ KernelInv(d)
      /\ d.st = [s.st EXCEPT ![old] = Absent] /\ d.parent = [s.parent EXCEPT ![old] = None]
      /\ d.kids = [q \in Pid |-> IF q = old THEN {} ELSE s.kids[q] \ {old}]
      /\ d.next = s.next
  BY DropDaemonInv
<1>2. RestartDaemon(s, old) = Spawn(d, s.parent[old], s.left[old] - 1)
  BY DEF RestartDaemon, DropDaemon
<1> HIDE DEF d
<1>3. /\ s.st \in [Pid -> State] /\ s.parent \in [Pid -> Pid \cup {None}]
      /\ s.left[old] - 1 \in Nat /\ s.next \in Nat
  BY DEF KernelInv, Kernel
<1>4. CanAllocate(d) /\ s.parent[old] < d.next
  <2>1. ~(old >= s.next)
    BY States DEF KernelInv, FreshPids
  <2>2. s.parent[old] < old
    BY DEF TreeInv, ParentsOlder
  <2>3. old \in Int /\ s.parent[old] \in Int
    <3>1. s.parent[old] \in Pid \cup {None}  BY <1>3
    <3> QED BY <3>1 DEF Pid, None
  <2>4. s.parent[old] < s.next
    BY <1>3, <2>1, <2>2, <2>3
  <2> QED BY <1>1, <2>4 DEF CanAllocate
<1>5. Tame(s, d)
  <2>1. \A q \in Pid : d.st[q] = s.st[q] \/ ~Engaged(d.st[q])
    BY <1>1, <1>3, EngagedStates
  <2>2. ParentsOlder(d)
    BY <1>1, <1>3 DEF TreeInv, ParentsOlder, None, Pid
  <2>3. IndexComplete(d)
    <3> SUFFICES ASSUME NEW c \in Pid, NEW q \in Pid, d.st[c] # Absent, d.st[q] # Absent,
                        d.parent[c] = q
                 PROVE  c \in d.kids[q]
      BY DEF IndexComplete
    <3>1. c # old /\ q # old /\ s.st[c] # Absent /\ s.st[q] # Absent /\ s.parent[c] = q
      BY <1>1, <1>3
    <3>2. c \in s.kids[q]
      BY <3>1 DEF TreeInv, IndexComplete
    <3> QED BY <1>1, <3>1, <3>2
  <2>4. WaitsDown(d)
    BY <1>1, <1>3, States DEF TreeInv, WaitsDown
  <2> QED BY <2>1, <2>2, <2>3, <2>4 DEF Tame, TreeInv
<1>6. Tame(d, Spawn(d, s.parent[old], s.left[old] - 1))
  BY <1>1, <1>3, <1>4, SpawnTame
<1> QED BY <1>2, <1>5, <1>6, TameTrans

LEMMA SleepCurrentTame ==
  ASSUME NEW s, KernelInv(s), NEW me \in Pid, s.st[me] # Absent, NEW t
  PROVE  Tame(s, SleepCurrent(s, me, t))
<1> DEFINE n == SleepCurrent(s, me, t)
<1>1. /\ n.parent = s.parent /\ n.kids = s.kids
      /\ n.st = [s.st EXCEPT ![me] = Sleeping(s.tick + t)]
  BY DEF SleepCurrent, KernelInv, Kernel
<1> HIDE DEF n
<1>2. /\ \A q \in Pid : n.st[q] # Absent => s.st[q] # Absent
      /\ \A q \in Pid : n.st[q] = s.st[q] \/ ~Engaged(n.st[q])
  BY <1>1, EngagedStates DEF KernelInv, Kernel
<1>3. Tame(s, n)  BY <1>1, <1>2, SameTree
<1> QED BY <1>3 DEF n

LEMMA AdvanceTicksTame ==
  ASSUME NEW s, KernelInv(s), NEW t
  PROVE  Tame(s, AdvanceTicks(s, t))
<1> DEFINE n == AdvanceTicks(s, t)
           woken == {p \in Pid : IsSleeping(s.st[p])
                                 /\ <<s.st[p][2], p>> \in {e \in s.heap : e[1] <= s.tick + t}}
<1>1. /\ n.parent = s.parent /\ n.kids = s.kids
      /\ n.st = [p \in Pid |-> IF p \in woken THEN Ready ELSE s.st[p]]
  BY DEF AdvanceTicks, KernelInv, Kernel
<1>2. \A p \in woken : s.st[p] # Absent
  BY States
<1> HIDE DEF n, woken
<1>3. /\ \A q \in Pid : n.st[q] # Absent => s.st[q] # Absent
      /\ \A q \in Pid : n.st[q] = s.st[q] \/ ~Engaged(n.st[q])
  BY <1>1, <1>2, EngagedStates
<1>4. Tame(s, n)  BY <1>1, <1>3, SameTree
<1> QED BY <1>4 DEF n

\* Of the signals, only SIGSTOP touches current_pid, and only to clear it.
LEMMA DeliverSignalTame ==
  ASSUME NEW s, KernelInv(s), NEW p \in Pid, s.st[p] # Absent, NEW sig \in Signal
  PROVE  LET n == DeliverSignal(s, p, sig)
         IN  /\ Tame(s, n)
             /\ n.cur = s.cur \/ (s.cur = p /\ n.st[p] # Running)
<1> DEFINE n == DeliverSignal(s, p, sig)
<1>1. CASE sig = "SigKill"
  <2>1. n = TerminatePids(s, Cascade(s, p))
    BY <1>1 DEF DeliverSignal
  <2>2. n.cur = s.cur
    BY <2>1 DEF TerminatePids, KernelInv, Kernel
  <2> QED BY <2>1, <2>2, CascadePids, TerminateTame
<1>2. CASE sig # "SigKill"
  <2>1. n \in {DeliverCancel(s, p), DeliverTerm(s, p), DeliverStop(s, p), DeliverCont(s, p)}
    BY <1>2 DEF DeliverSignal, Signal
  <2>2. /\ n.parent = s.parent /\ n.kids = s.kids
        /\ \/ n.st = s.st
           \/ n.st = [s.st EXCEPT ![p] = Ready]
           \/ n.st = [s.st EXCEPT ![p] = Stopped]
        /\ n.cur = s.cur \/ (s.cur = p /\ n.st = [s.st EXCEPT ![p] = Stopped])
    <3>1. CASE n = DeliverCancel(s, p)
      <4> HIDE DEF n
      <4> QED BY <3>1 DEF DeliverCancel, KernelInv, Kernel
    <3>2. CASE n = DeliverTerm(s, p)
      <4> HIDE DEF n
      <4> QED BY <3>2 DEF DeliverTerm, KernelInv, Kernel
    <3>3. CASE n = DeliverStop(s, p)
      <4> HIDE DEF n
      <4> QED BY <3>3 DEF DeliverStop, KernelInv, Kernel
    <3>4. CASE n = DeliverCont(s, p)
      <4> HIDE DEF n
      <4> QED BY <3>4 DEF DeliverCont, KernelInv, Kernel
    <3> QED BY <2>1, <3>1, <3>2, <3>3, <3>4
  <2> HIDE DEF n
  <2>3. /\ \A q \in Pid : n.st[q] # Absent => s.st[q] # Absent
        /\ \A q \in Pid : n.st[q] = s.st[q] \/ ~Engaged(n.st[q])
        /\ n.cur = s.cur \/ (s.cur = p /\ n.st[p] # Running)
    BY <2>2, EngagedStates, States DEF KernelInv, Kernel
  <2>4. Tame(s, n)  BY <2>2, <2>3, SameTree
  <2> QED BY <2>3, <2>4 DEF n
<1> QED BY <1>1, <1>2

LEMMA SignalsClearedTame ==
  ASSUME NEW s, KernelInv(s), NEW sigs \in [Pid -> Seq(Signal)]
  PROVE  LET n == [s EXCEPT !.sigs = sigs]
         IN  Tame(s, n) /\ KernelInv(n)
<1> DEFINE n == [s EXCEPT !.sigs = sigs]
<1>1. n \in Kernel /\ n.st = s.st /\ n.parent = s.parent /\ n.kids = s.kids
  BY DEF KernelInv, Kernel
<1>2. KernelInv(n)
  BY <1>1, SameTable DEF KernelInv, Kernel
<1>3. Tame(s, n)
  BY <1>1, SameTree
<1> QED BY <1>2, <1>3

LEMMA ProcessPendingSignalsTame ==
  ASSUME NEW s, KernelInv(s)
  PROVE  Tame(s, ProcessPendingSignals(s))
<1>1. CASE s.cur = None \/ ~Exists(s, s.cur)
  BY <1>1, TameRefl DEF ProcessPendingSignals
<1>2. CASE s.cur # None /\ Exists(s, s.cur)
  <2> DEFINE sigs == [s.sigs EXCEPT ![s.cur] = <<>>]
             n == [s EXCEPT !.sigs = sigs]
  <2>1. sigs \in [Pid -> Seq(Signal)]
    <3>1. <<>> \in Seq(Signal) /\ s.sigs \in [Pid -> Seq(Signal)]
      BY DEF KernelInv, Kernel
    <3> QED BY <3>1
  <2>2. Tame(s, n) /\ KernelInv(n)
    <3> HIDE DEF sigs
    <3> QED BY <2>1, SignalsClearedTame
  <2>3. ProcessPendingSignals(s) \in {n, TerminateCurrent(n)}
    BY <1>2 DEF ProcessPendingSignals, KernelInv, Kernel
  <2> HIDE DEF n
  <2> QED BY <2>2, <2>3, TerminateCurrentTame, TameTrans
<1> QED BY <1>1, <1>2

LEMMA ClearToolCancelTame ==
  ASSUME NEW s, KernelInv(s), NEW p \in Pid
  PROVE  Tame(s, ClearToolCancel(s, p))
<1> DEFINE n == ClearToolCancel(s, p)
<1>1. n.st = s.st /\ n.parent = s.parent /\ n.kids = s.kids
  BY DEF ClearToolCancel, KernelInv, Kernel
<1> QED BY <1>1, SameTree

-----------------------------------------------------------------------------
(* The steps that are not tame.                                            *)

\* wait_on: ensure_child_scope has found p below me.
LEMMA WaitOnTree ==
  ASSUME NEW s, KernelInv(s), TreeInv(s), NEW me \in Pid, NEW p \in Pid,
         s.st[me] # Absent, IsAncestor(s, me, p)
  PROVE  LET n == WaitOn(s, me, p)
         IN  TreeInv(n) /\ \A q \in Pid : n.st[q] = Running => s.st[q] = Running
<1> DEFINE n == WaitOn(s, me, p)
<1>1. /\ n.parent = s.parent /\ n.kids = s.kids
      /\ n.st = [s.st EXCEPT ![me] = WaitingExit(p)]
      /\ s.st \in [Pid -> State]
  BY DEF WaitOn, KernelInv, Kernel
<1> HIDE DEF n
<1>2. me < p
  BY AncestorsOlder DEF TreeInv, KernelInv
<1>3. ParentsOlder(n) /\ IndexComplete(n)
  BY <1>1 DEF TreeInv, ParentsOlder, IndexComplete
<1>4. WaitsDown(n)
  BY <1>1, <1>2, States DEF TreeInv, WaitsDown
<1>5. \A q \in Pid : n.st[q] = Running => s.st[q] = Running
  BY <1>1, States
<1> QED BY <1>3, <1>4, <1>5 DEF TreeInv, n

\* A pop makes processes Running and leaves the tree alone.
LEMMA PoppedTree ==
  ASSUME NEW s, TreeInv(s), NEW S \in SUBSET Pid, NEW n,
         \A q \in S : s.st[q] # Absent,
         n.parent = s.parent, n.kids = s.kids,
         n.st = [q \in Pid |-> IF q \in S THEN Running ELSE s.st[q]]
  PROVE  TreeInv(n)
BY States DEF TreeInv, ParentsOlder, IndexComplete, WaitsDown

LEMMA PopBatchTree ==
  ASSUME NEW s, KernelInv(s), TreeInv(s), NEW S \in SUBSET s.ready, NEW first \in S
  PROVE  LET n == PopBatch(s, S, first)
         IN  TreeInv(n) /\ \A q \in Pid : n.st[q] = Running => s.st[q] = Running \/ q \in S
<1> DEFINE n == PopBatch(s, S, first)
<1>1. /\ n.parent = s.parent /\ n.kids = s.kids
      /\ n.st = [q \in Pid |-> IF q \in S THEN Running ELSE s.st[q]]
  BY DEF PopBatch, KernelInv, Kernel
<1>2. S \subseteq Pid /\ \A q \in S : s.st[q] # Absent
  BY DEF KernelInv, Kernel, ReadyClean
<1> HIDE DEF n
<1>3. TreeInv(n)
  BY <1>1, <1>2, PoppedTree
<1>4. \A q \in Pid : n.st[q] = Running => s.st[q] = Running \/ q \in S
  BY <1>1
<1> QED BY <1>3, <1>4 DEF n

LEMMA PopForegroundReadyTree ==
  ASSUME NEW s, KernelInv(s), TreeInv(s), NEW p \in s.ready
  PROVE  LET n == PopForegroundReady(s, p)
         IN  TreeInv(n) /\ \A q \in Pid : n.st[q] = Running => s.st[q] = Running \/ q = p
<1> DEFINE n == PopForegroundReady(s, p)
<1>1. /\ n.parent = s.parent /\ n.kids = s.kids
      /\ n.st = [s.st EXCEPT ![p] = Running] /\ s.st \in [Pid -> State]
  BY DEF PopForegroundReady, KernelInv, Kernel
<1>2. {p} \in SUBSET Pid /\ \A q \in {p} : s.st[q] # Absent
  BY DEF KernelInv, Kernel, ReadyClean
<1> HIDE DEF n
<1>3. n.st = [q \in Pid |-> IF q \in {p} THEN Running ELSE s.st[q]]
  BY <1>1, <1>2
<1>4. TreeInv(n)
  BY <1>1, <1>2, <1>3, PoppedTree
<1> QED BY <1>3, <1>4 DEF n

LEMMA BeginForegroundTree ==
  ASSUME NEW s, KernelInv(s), TreeInv(s), CanAllocate(s)
  PROVE  LET n == BeginForeground(s)
         IN  /\ TreeInv(n) /\ n.cur = s.next
             /\ \A q \in Pid : n.st[q] = Running => s.st[q] = Running \/ q = s.next
<1> DEFINE n == BeginForeground(s)
           p == s.next
           e == NewEntry(s, None, Running, 0)
<1>1. /\ p \in Pid /\ s.st[p] = Absent /\ e \in Kernel
      /\ e.st = [s.st EXCEPT ![p] = Running] /\ e.parent = [s.parent EXCEPT ![p] = None]
      /\ e.kids = s.kids /\ e.fg = s.fg
  BY NewEntryFields, States
<1>2. n = [e EXCEPT !.fg = s.fg \cup {p}, !.cur = p]
  BY <1>1 DEF BeginForeground, Kernel
<1>3. /\ n.st = [s.st EXCEPT ![p] = Running] /\ n.parent = [s.parent EXCEPT ![p] = None]
      /\ n.kids = s.kids /\ n.cur = p
  BY <1>1, <1>2 DEF Kernel
<1> HIDE DEF n, e
<1>4. s.st \in [Pid -> State] /\ s.parent \in [Pid -> Pid \cup {None}]
  BY DEF KernelInv, Kernel
<1>5. ParentsOlder(n)
  BY <1>1, <1>3, <1>4 DEF TreeInv, ParentsOlder, Pid, None
<1>6. IndexComplete(n)
  <2> SUFFICES ASSUME NEW c \in Pid, NEW q \in Pid, n.st[c] # Absent, n.st[q] # Absent,
                      n.parent[c] = q
               PROVE  c \in s.kids[q]
    BY <1>3 DEF IndexComplete
  <2>1. q # None  BY DEF Pid, None
  <2>2. c # p /\ s.st[c] # Absent /\ s.parent[c] = q
    BY <2>1, <1>1, <1>3, <1>4
  <2>3. q < c /\ ~(c >= p)
    BY <2>2 DEF TreeInv, ParentsOlder, KernelInv, FreshPids
  <2>4. q # p
    BY <2>3, <1>1 DEF Pid
  <2>5. s.st[q] # Absent
    BY <2>4, <1>1, <1>3, <1>4
  <2> QED BY <2>2, <2>5 DEF TreeInv, IndexComplete
<1>7. WaitsDown(n)
  BY <1>1, <1>3, <1>4, States DEF TreeInv, WaitsDown
<1>8. \A q \in Pid : n.st[q] = Running => s.st[q] = Running \/ q = p
  BY <1>3, <1>4
<1> QED BY <1>3, <1>5, <1>6, <1>7, <1>8 DEF TreeInv, n

-----------------------------------------------------------------------------
(* The steps of the scheduler.                                             *)

\* A system call keeps the tree in order, makes nobody Running, and leaves
\* current_pid alone unless the caller or the process it named stops running.
LEMMA SyscallTree ==
  ASSUME IInv, TreeInv(k), NEW me \in Pid, NEW p \in Pid,
         \/ SysSpawn(me) \/ SysSleep(me) \/ SysWait(me, p)
         \/ SysKill(me, p) \/ SysReap(me, p) \/ SysSignal(me, p)
  PROVE  /\ TreeInv(k')
         /\ \A q \in Pid : k'.st[q] = Running => k.st[q] = Running
         /\ k'.cur = k.cur \/ k'.st[me] # Running \/ k'.st[k.cur] # Running
         /\ HasTurn(me)
         /\ UNCHANGED <<loop, front, toPrep, toLaunch, turns, notified, failed>>
<1> USE DEF IInv
<1>0. ASSUME Tame(k, k') PROVE TreeInv(k') /\ \A q \in Pid : k'.st[q] = Running => k.st[q] = Running
  BY <1>0, EngagedStates DEF Tame
<1>1. CASE SysSpawn(me)
  <2>1. PICK r \in 0..MaxRestart : k' = Spawn(k, me, r)
    BY <1>1 DEF SysSpawn, Syscall
  <2>2. r \in Nat /\ CanAllocate(k) /\ k.st[me] # Absent
    BY <1>1, TableAssumption DEF SysSpawn, Caller, Exists
  <2>3. me < k.next
    <3>1. ~(me >= k.next) /\ k.next \in Nat  BY <2>2 DEF KernelInv, FreshPids, Kernel
    <3> QED BY <3>1 DEF Pid
  <2>4. Tame(k, k') /\ k'.cur = k.cur
    BY <2>1, <2>2, <2>3, SpawnTame
  <2> QED BY <1>0, <2>4, <1>1 DEF SysSpawn, Syscall, Caller
<1>2. CASE SysSleep(me)
  <2>1. PICK n \in Naps : k' = SleepCurrent(k, me, n)
    BY <1>2 DEF SysSleep, Syscall
  <2>2. Tame(k, k')
    BY <1>2, <2>1, SleepCurrentTame DEF SysSleep, Caller, Exists
  <2>3. k'.st[me] # Running
    BY <2>1, States DEF SleepCurrent, KernelInv, Kernel
  <2> QED BY <1>0, <2>2, <2>3, <1>2 DEF SysSleep, Syscall, Caller
<1>3. CASE SysWait(me, p)
  <2>1. k' = WaitOn(k, me, p)
    BY <1>3 DEF SysWait, Syscall
  <2>2. TreeInv(k') /\ \A q \in Pid : k'.st[q] = Running => k.st[q] = Running
    BY <1>3, <2>1, WaitOnTree DEF SysWait, Caller, Exists
  <2>3. k'.st[me] # Running
    BY <2>1, States DEF WaitOn, KernelInv, Kernel
  <2> QED BY <2>2, <2>3, <1>3 DEF SysWait, Syscall, Caller
<1>4. CASE SysKill(me, p)
  <2>1. k' = TerminatePids(k, Cascade(k, p))
    BY <1>4 DEF SysKill, Syscall
  <2>2. Tame(k, k')
    BY <2>1, CascadePids, TerminateTame
  <2>3. k'.cur = k.cur
    BY <2>1 DEF TerminatePids, KernelInv, Kernel
  <2> QED BY <1>0, <2>2, <2>3, <1>4 DEF SysKill, Syscall, Caller
<1>5. CASE SysReap(me, p)
  <2>1. k' = RemoveEntry(k, p)
    BY <1>5 DEF SysReap, Syscall
  <2>2. Tame(k, k')
    BY <2>1, RemoveTame
  <2>3. k'.cur = k.cur
    BY <2>1 DEF RemoveEntry, RemoveEntries, KernelInv, Kernel
  <2> QED BY <1>0, <2>2, <2>3, <1>5 DEF SysReap, Syscall, Caller
<1>6. CASE SysSignal(me, p)
  <2>1. PICK sig \in Signal : k' = DeliverSignal(k, p, sig)
    BY <1>6, SchedAssumption DEF SysSignal, Syscall
  <2>2. k.st[p] # Absent
    BY <1>6 DEF SysSignal
  <2>3. Tame(k, k') /\ (k'.cur = k.cur \/ k'.st[k.cur] # Running)
    BY <2>1, <2>2, DeliverSignalTame
  <2> QED BY <1>0, <2>3, <1>6 DEF SysSignal, Syscall, Caller
<1> QED BY <1>1, <1>2, <1>3, <1>4, <1>5, <1>6

\* A step keeps the tree in order.
LEMMA TreeStep == IInv /\ TreeInv(k) /\ [Next]_vars => TreeInv(k')
<1> SUFFICES ASSUME IInv, TreeInv(k), [Next]_vars PROVE TreeInv(k')
  OBVIOUS
<1> USE DEF IInv
<1>0. ASSUME Tame(k, k') PROVE TreeInv(k')
  BY <1>0 DEF Tame
<1>1. CASE UNCHANGED vars
  BY <1>1 DEF vars
<1>2. CASE LoopStep
  <2>1. CASE Dispatch
    <3>1. CASE k' = k
      BY <3>1
    <3>2. CASE k' # k
      <4>1. PICK S \in SUBSET (k.ready \ k.fg) : \E first \in S : k' = PopBatch(k, S, first)
        BY <2>1, <3>2 DEF Dispatch
      <4>2. S \in SUBSET k.ready
        BY <4>1
      <4> QED BY <4>1, <4>2, PopBatchTree
    <3> QED BY <3>1, <3>2
  <2>2. CASE FrontSignals
    <3>1. front \in Pid
      BY <2>2 DEF FrontSignals, LoopInv
    <3>2. k' = ProcessPendingSignals(SetCurrent(k, front))
      BY <2>2 DEF FrontSignals
    <3> QED BY <3>1, <3>2, <1>0, SetCurrentInv, SetCurrentTame, ProcessPendingSignalsTame, TameTrans
  <2>3. CASE NoForegroundReady \/ GoToWait
    BY <2>3 DEF NoForegroundReady, GoToWait
  <2>4. CASE ClockWait
    BY <2>4, <1>0, AdvanceTicksTame DEF ClockWait
  <2>5. CASE RestartsDone
    BY <2>5, <1>0, RequeueCurrentTame DEF RestartsDone
  <2>6. ASSUME NEW p \in Pid, Prepare(p) PROVE TreeInv(k')
    <3>1. k' = ProcessPendingSignals(SetCurrent(k, p))
      BY <2>6 DEF Prepare
    <3> QED BY <3>1, <1>0, SetCurrentInv, SetCurrentTame, ProcessPendingSignalsTame, TameTrans
  <2>7. ASSUME NEW p \in Pid, Launch(p) PROVE TreeInv(k')
    BY <2>7, <1>0, ClearToolCancelTame DEF Launch
  <2>8. ASSUME NEW p \in Pid, ResumeForeground(p) PROVE TreeInv(k')
    BY <2>8, PopForegroundReadyTree DEF ResumeForeground
  <2>9. ASSUME NEW p \in Pid, Restart(p) PROVE TreeInv(k')
    BY <2>9, <1>0, RestartDaemonTame DEF Restart, DeadDaemons
  <2> QED BY <1>2, <2>1, <2>2, <2>3, <2>4, <2>5, <2>6, <2>7, <2>8, <2>9 DEF LoopStep
<1>3. CASE EndTurn
  <2>1. PICK p \in Pid, ok \in BOOLEAN : k' = k \/ k' = Finalize(k, p, ok)
    <3>1. CASE EndFresh
      <4>1. 1 \in Pid  BY TableAssumption DEF Pid
      <4> QED BY <3>1, <4>1 DEF EndFresh, KernelInv, Kernel
    <3>2. CASE EndResume
      BY <3>2 DEF EndResume, LoopInv
    <3> QED BY <1>3, <3>1, <3>2 DEF EndTurn
  <2> QED BY <2>1, <1>0, FinalizeTame
<1>4. CASE StartForeground
  BY <1>4, BeginForegroundTree DEF StartForeground
<1>5. ASSUME NEW p \in Pid, DispatchFails(p) \/ EndBackground(p) \/ TaskDies(p)
      PROVE  TreeInv(k')
  <2>1. CASE DispatchFails(p)
    BY <2>1, <1>0, TerminateAndCleanupTame DEF DispatchFails
  <2>2. CASE EndBackground(p)
    <3>1. PICK ok \in BOOLEAN : k' = RequeueCurrent(Finalize(k, p, ok))
      BY <2>2 DEF EndBackground
    <3> QED BY <3>1, <1>0, FinalizeInv, FinalizeTame, RequeueCurrentTame, TameTrans
  <2>3. CASE TaskDies(p)
    BY <2>3 DEF TaskDies
  <2> QED BY <1>5, <2>1, <2>2, <2>3
<1>6. CASE \/ \E me \in Pid : SysSpawn(me) \/ SysSleep(me)
           \/ \E me, p \in Pid : \/ SysWait(me, p) \/ SysKill(me, p)
                                 \/ SysReap(me, p) \/ SysSignal(me, p)
  BY <1>6, SyscallTree
<1> QED BY <1>1, <1>2, <1>3, <1>4, <1>5, <1>6 DEF Next

LEMMA TreeInit == Init => TreeInv(k)
BY States, EngagedStates DEF Init, EmptyKernel, TreeInv, ParentsOlder, IndexComplete, WaitsDown,
   Pid, None

LEMMA TreeInductive == Spec => [](IInv /\ TreeInv(k))
<1>1. IInv /\ TreeInv(k) /\ [Next]_vars => TreeInv(k)'
  BY TreeStep
<1> QED BY <1>1, TreeInit, Inductive, PTL DEF Spec

\* children_by_parent misses no child of a process of the table, whatever was
\* reaped, dropped or restarted before.
THEOREM ChildIndexIsComplete == Spec => []ChildIndexComplete
<1>1. TreeInv(k) => ChildIndexComplete
  BY DEF TreeInv, IndexComplete, ChildIndexComplete, Exists
<1> QED BY <1>1, TreeInductive, PTL

\* ensure_child_scope lets a process wait for its descendants only, and they
\* are younger: no circle of exit waits can close.
THEOREM ExitWaitsGoDown == Spec => []WaitsGoDown
<1>1. TreeInv(k) => WaitsGoDown
  BY DEF TreeInv, WaitsDown, WaitsGoDown
<1> QED BY <1>1, TreeInductive, PTL

\* kill_process ends its victim and everybody below it.
LEMMA KillCompletes ==
  ASSUME IInv, TreeInv(k), NEW me \in Pid, NEW p \in Pid, SysKill(me, p),
         NEW q \in Pid, q = p \/ IsAncestor(k, p, q)
  PROVE  k'.st[q] = Terminated
<1>1. k \in Kernel /\ KernelInv(k)
  BY DEF IInv, KernelInv
<1>2. k' = TerminatePids(k, Cascade(k, p)) /\ IsAncestor(k, me, p)
  BY DEF SysKill, Syscall
<1>3. k.st[p] # Absent
  BY <1>1, <1>2, AncestorStep DEF Exists
<1>4. q \in Cascade(k, p) /\ k.st[q] # Absent
  <2>1. CASE q = p
    BY <1>3, <2>1 DEF Cascade
  <2>2. CASE IsAncestor(k, p, q)
    BY <1>1, <1>3, <2>2, AncestryIndexed, AncestorStep DEF TreeInv, Cascade, Exists
  <2> QED BY <2>1, <2>2
<1> QED BY <1>1, <1>2, <1>4 DEF TerminatePids, Kernel, Exists

\* The kill is complete in every tree that the calls of the agents and the
\* restarts of the daemons can build.
THEOREM KillsAreComplete == Spec => KillIsComplete
<1> DEFINE A == \A me, p \in Pid : SysKill(me, p) =>
                  \A q \in Pid : q = p \/ IsAncestor(k, p, q) => k'.st[q] = Terminated
<1>1. IInv /\ TreeInv(k) /\ [Next]_vars => [A]_vars
  BY KillCompletes
<1>2. Spec => [][A]_vars
  <2> HIDE DEF A
  <2> QED BY <1>1, TreeInductive, PTL DEF Spec
<1> QED BY <1>2 DEF KillIsComplete

-----------------------------------------------------------------------------
(* Who runs is driven, as long as no background task dies.                 *)

Batch == toPrep \cup toLaunch

\* While a fresh foreground turn runs it runs alone, so current_pid names it
\* until it stops running: EndFresh finalises the right process.
DrivenInv ==
  /\ RunningIsDriven
  /\ Batch # {} => loop = "prep"
  /\ loop = "fresh" => NoTurnInFlight /\ (k.cur = front \/ k.st[front] # Running)

NobodyStarts == \A q \in Pid : k'.st[q] = Running => k.st[q] = Running

\* A step after which nobody runs that did not run before, and that keeps the
\* batch, the turns and the foreground process.
LEMMA NobodyLost ==
  ASSUME RunningIsDriven, NobodyStarts, front' = front, Batch' = Batch, turns' = turns
  PROVE  RunningIsDriven'
BY DEF RunningIsDriven, NobodyStarts, HasTurn, Batch

LEMMA TameStarts == ASSUME NEW s, Tame(s, k'), s = k PROVE NobodyStarts
BY EngagedStates DEF Tame, NobodyStarts

\* The loop hands a Running process from the batch to a turn.
LEMMA DrivenLoopStep == IInv /\ TreeInv(k) /\ DrivenInv /\ LoopStep => DrivenInv'
<1> SUFFICES ASSUME IInv, TreeInv(k), DrivenInv, LoopStep PROVE DrivenInv'
  OBVIOUS
<1> USE DEF IInv
<1>1. CASE Dispatch
  <2>1. Batch = {} /\ loop' \in {"pop", "prep"} /\ UNCHANGED <<front, toLaunch, turns>>
    BY <1>1 DEF Dispatch, DrivenInv
  <2>2. CASE k' = k /\ toPrep' = toPrep
    <3>1. RunningIsDriven' /\ Batch' = {}
      BY <2>1, <2>2, NobodyLost DEF DrivenInv, NobodyStarts, Batch
    <3> QED BY <2>1, <3>1 DEF DrivenInv
  <2>3. CASE ~(k' = k /\ toPrep' = toPrep)
    <3>1. PICK S \in SUBSET (k.ready \ k.fg) : \E first \in S :
            k' = PopBatch(k, S, first) /\ toPrep' = S
      BY <1>1, <2>3 DEF Dispatch
    <3>2. loop' = "prep"
      BY <1>1, <2>3 DEF Dispatch
    <3>3. \A q \in Pid : k'.st[q] = Running => k.st[q] = Running \/ q \in toPrep'
      BY <3>1 DEF PopBatch, KernelInv, Kernel
    <3>4. RunningIsDriven'
      BY <2>1, <3>3 DEF RunningIsDriven, DrivenInv, HasTurn, Batch
    <3> QED BY <3>2, <3>4 DEF DrivenInv
  <2> QED BY <2>2, <2>3
<1>2. CASE FrontSignals
  <2>1. front \in Pid
    BY <1>2 DEF FrontSignals, LoopInv
  <2>2. Tame(k, k')
    BY <1>2, <2>1, SetCurrentInv, SetCurrentTame, ProcessPendingSignalsTame, TameTrans DEF FrontSignals
  <2>3. RunningIsDriven' /\ Batch = {} /\ Batch' = {} /\ loop' = "resume"
    BY <1>2, <2>2, TameStarts, NobodyLost DEF FrontSignals, DrivenInv, Batch
  <2> QED BY <2>3 DEF DrivenInv
<1>3. CASE NoForegroundReady \/ GoToWait
  <2>1. RunningIsDriven' /\ Batch = {} /\ Batch' = {} /\ loop' \in {"pending", "wait"}
    BY <1>3, NobodyLost DEF NoForegroundReady, GoToWait, DrivenInv, Batch, NobodyStarts
  <2> QED BY <2>1 DEF DrivenInv
<1>4. CASE ClockWait
  <2>1. Tame(k, k')
    BY <1>4, AdvanceTicksTame DEF ClockWait
  <2>2. RunningIsDriven' /\ Batch = {} /\ Batch' = {} /\ loop' = "dispatch"
    BY <1>4, <2>1, TameStarts, NobodyLost DEF ClockWait, DrivenInv, Batch
  <2> QED BY <2>2 DEF DrivenInv
<1>5. CASE RestartsDone
  <2>1. Tame(k, k')
    BY <1>5, RequeueCurrentTame, TameRefl DEF RestartsDone
  <2>2. RunningIsDriven' /\ Batch = {} /\ Batch' = {} /\ loop' = "dispatch"
    BY <1>5, <2>1, TameStarts, NobodyLost DEF RestartsDone, DrivenInv, Batch
  <2> QED BY <2>2 DEF DrivenInv
<1>6. ASSUME NEW p \in Pid, Prepare(p) PROVE DrivenInv'
  <2>1. Tame(k, k')
    BY <1>6, SetCurrentInv, SetCurrentTame, ProcessPendingSignalsTame, TameTrans DEF Prepare
  <2>2. Batch' = Batch /\ loop = "prep" /\ loop' = "prep"
    BY <1>6 DEF Prepare, Batch
  <2>3. RunningIsDriven'
    BY <1>6, <2>1, <2>2, TameStarts, NobodyLost DEF Prepare, DrivenInv
  <2> QED BY <2>2, <2>3 DEF DrivenInv
<1>7. ASSUME NEW p \in Pid, Launch(p) PROVE DrivenInv'
  <2>1. Tame(k, k')
    BY <1>7, ClearToolCancelTame DEF Launch
  <2>2. /\ Batch' = Batch \ {p} /\ front' = front
        /\ loop' = AfterPrep(toPrep', toLaunch')
        /\ turns'[p] > 0 /\ \A q \in Pid \ {p} : turns'[q] = turns[q]
    BY <1>7 DEF Launch, Batch, LoopInv
  <2>3. RunningIsDriven'
    BY <2>1, <2>2, TameStarts DEF RunningIsDriven, DrivenInv, NobodyStarts, HasTurn, Batch
  <2>4. (Batch' # {} => loop' = "prep") /\ loop' # "fresh"
    BY <2>2 DEF AfterPrep, Batch
  <2> QED BY <2>3, <2>4 DEF DrivenInv
<1>8. ASSUME NEW p \in Pid, ResumeForeground(p) PROVE DrivenInv'
  <2>1. /\ Batch = {} /\ Batch' = {} /\ front = None /\ front' = p /\ turns' = turns
        /\ loop' = "signals"
    BY <1>8 DEF ResumeForeground, DrivenInv, Batch, LoopInv
  <2>2. \A q \in Pid : k'.st[q] = Running => k.st[q] = Running \/ q = p
    BY <1>8 DEF ResumeForeground, PopForegroundReady, KernelInv, Kernel
  <2>3. p # None
    BY DEF Pid, None
  <2>4. RunningIsDriven'
    <3> SUFFICES ASSUME NEW q \in Pid, k'.st[q] = Running, q # p PROVE turns[q] > 0
      BY <2>1 DEF RunningIsDriven, HasTurn
    <3>1. q # None
      BY DEF Pid, None
    <3> QED BY <2>1, <2>2, <3>1 DEF RunningIsDriven, DrivenInv, HasTurn, Batch
  <2> QED BY <2>1, <2>4 DEF DrivenInv
<1>9. ASSUME NEW p \in Pid, Restart(p) PROVE DrivenInv'
  <2>1. Tame(k, k')
    BY <1>9, RestartDaemonTame DEF Restart, DeadDaemons
  <2>2. RunningIsDriven' /\ Batch = {} /\ Batch' = {} /\ loop' = "restart"
    BY <1>9, <2>1, TameStarts, NobodyLost DEF Restart, DrivenInv, Batch
  <2> QED BY <2>2 DEF DrivenInv
<1> QED BY <1>1, <1>2, <1>3, <1>4, <1>5, <1>6, <1>7, <1>8, <1>9 DEF LoopStep

\* The process whose turn ends does not run any more.
LEMMA DrivenTurnStep ==
  ASSUME IInv, TreeInv(k), DrivenInv, ~TasksDie,
         \/ EndTurn \/ StartForeground
         \/ \E p \in Pid : DispatchFails(p) \/ EndBackground(p) \/ TaskDies(p)
  PROVE  DrivenInv'
<1> USE DEF IInv
<1>1. CASE EndFresh
  <2>1. /\ loop = "fresh" /\ Batch = {} /\ Batch' = {} /\ turns' = turns /\ front' = None
        /\ loop' \in {"restart", "dispatch"} /\ front \in Pid /\ NoTurnInFlight
    BY <1>1 DEF EndFresh, DrivenInv, Batch, LoopInv
  <2>2. NobodyStarts /\ k'.st[front] # Running
    <3>1. CASE k.cur = None
      <4>1. front # None  BY <2>1 DEF Pid, None
      <4> QED BY <1>1, <2>1, <3>1, <4>1 DEF EndFresh, DrivenInv, NobodyStarts
    <3>2. CASE k.cur # None
      <4>1. PICK ok \in BOOLEAN : k' = Finalize(k, k.cur, ok)
        BY <1>1, <3>2 DEF EndFresh
      <4>2. k.cur \in Pid
        BY <3>2 DEF KernelInv, Kernel
      <4>3. Tame(k, k') /\ k'.st[k.cur] # Running
        BY <4>1, <4>2, FinalizeTame
      <4>4. NobodyStarts
        BY <4>3, TameStarts
      <4> QED BY <2>1, <4>3, <4>4 DEF DrivenInv, NobodyStarts
    <3> QED BY <3>1, <3>2
  <2>3. \A q \in Pid : k'.st[q] # Running
    BY <2>1, <2>2 DEF DrivenInv, RunningIsDriven, NobodyStarts, HasTurn, Batch, NoTurnInFlight
  <2> QED BY <2>1, <2>3 DEF DrivenInv, RunningIsDriven
<1>2. CASE EndResume
  <2>1. /\ Batch = {} /\ Batch' = {} /\ turns' = turns /\ front' = None
        /\ loop' = "dispatch" /\ front \in Pid
    BY <1>2 DEF EndResume, DrivenInv, Batch, LoopInv
  <2>2. PICK ok \in BOOLEAN : k' = Finalize(k, front, ok)
    BY <1>2 DEF EndResume
  <2>3. NobodyStarts /\ k'.st[front] # Running
    BY <2>1, <2>2, FinalizeTame, TameStarts
  <2>4. RunningIsDriven'
    BY <2>1, <2>3 DEF DrivenInv, RunningIsDriven, NobodyStarts, HasTurn, Batch
  <2> QED BY <2>1, <2>4 DEF DrivenInv
<1>3. CASE StartForeground
  <2>1. /\ Batch = {} /\ Batch' = {} /\ turns' = turns /\ front = None /\ front' = k.next
        /\ NoTurnInFlight /\ loop' = "fresh"
    BY <1>3 DEF StartForeground, DrivenInv, Batch, LoopInv
  <2>2. /\ k'.cur = k.next /\ k.next \in Pid
        /\ \A q \in Pid : k'.st[q] = Running => k.st[q] = Running \/ q = k.next
    BY <1>3, BeginForegroundTree DEF StartForeground, CanAllocate
  <2>3. \A q \in Pid : k.st[q] # Running
    <3>1. None \notin Pid  BY DEF Pid, None
    <3> QED BY <2>1, <3>1 DEF DrivenInv, RunningIsDriven, HasTurn, Batch, NoTurnInFlight
  <2>4. RunningIsDriven'
    BY <2>1, <2>2, <2>3 DEF RunningIsDriven
  <2> QED BY <2>1, <2>2, <2>4 DEF DrivenInv, NoTurnInFlight
<1>4. ASSUME NEW p \in Pid, DispatchFails(p) PROVE DrivenInv'
  <2>1. /\ Batch' = Batch \ {p} /\ turns' = turns /\ front' = front
        /\ loop' = AfterPrep(toPrep', toLaunch')
    BY <1>4 DEF DispatchFails, Batch
  <2>2. NobodyStarts /\ k'.st[p] # Running
    BY <1>4, TerminateAndCleanupTame, TameStarts, EngagedStates DEF DispatchFails
  <2>3. RunningIsDriven'
    BY <1>4, <2>1, <2>2 DEF DispatchFails, DrivenInv, RunningIsDriven, NobodyStarts, HasTurn, Batch
  <2>4. (Batch' # {} => loop' = "prep") /\ loop' # "fresh"
    BY <2>1 DEF AfterPrep, Batch
  <2> QED BY <2>3, <2>4 DEF DrivenInv
<1>5. ASSUME NEW p \in Pid, EndBackground(p) PROVE DrivenInv'
  <2>1. PICK ok \in BOOLEAN : k' = RequeueCurrent(Finalize(k, p, ok))
    BY <1>5 DEF EndBackground
  <2> DEFINE f == Finalize(k, p, ok)
  <2>2. KernelInv(f) /\ Tame(k, f) /\ f.st[p] # Running
    BY FinalizeInv, FinalizeTame
  <2>3. Tame(f, k')
    BY <2>1, <2>2, RequeueCurrentTame
  <2> HIDE DEF f
  <2>4. NobodyStarts /\ k'.st[p] # Running
    BY <2>2, <2>3, EngagedStates DEF Tame, NobodyStarts
  <2>5. /\ Batch' = Batch /\ front' = front /\ loop' = loop
        /\ turns[p] > 0 /\ \A q \in Pid \ {p} : turns'[q] = turns[q]
    BY <1>5 DEF EndBackground, Batch, LoopInv
  <2>6. loop # "fresh"
    <3>1. turns[p] # 0
      BY <2>5
    <3> QED BY <3>1 DEF DrivenInv, NoTurnInFlight
  <2>7. RunningIsDriven'
    BY <2>4, <2>5 DEF DrivenInv, RunningIsDriven, NobodyStarts, HasTurn, Batch
  <2> QED BY <2>5, <2>6, <2>7 DEF DrivenInv
<1>6. ASSUME NEW p \in Pid, TaskDies(p) PROVE DrivenInv'
  BY <1>6 DEF TaskDies
<1> QED BY <1>1, <1>2, <1>3, <1>4, <1>5, <1>6 DEF EndTurn

\* Nobody becomes Running by a system call.
LEMMA DrivenSyscall ==
  ASSUME IInv, TreeInv(k), DrivenInv, NEW me \in Pid, NEW p \in Pid,
         \/ SysSpawn(me) \/ SysSleep(me) \/ SysWait(me, p)
         \/ SysKill(me, p) \/ SysReap(me, p) \/ SysSignal(me, p)
  PROVE  DrivenInv'
<1>1. /\ NobodyStarts /\ HasTurn(me)
      /\ k'.cur = k.cur \/ k'.st[me] # Running \/ k'.st[k.cur] # Running
      /\ UNCHANGED <<loop, front, toPrep, toLaunch, turns, notified, failed>>
  BY SyscallTree DEF NobodyStarts
<1>2. Batch' = Batch /\ turns' = turns /\ front' = front /\ loop' = loop
  BY <1>1 DEF Batch
<1>3. RunningIsDriven'
  BY <1>1, <1>2, NobodyLost DEF DrivenInv
<1>4. ASSUME loop = "fresh"
      PROVE  NoTurnInFlight' /\ (k'.cur = front' \/ k'.st[front'] # Running)
  <2>1. NoTurnInFlight /\ (k.cur = front \/ k.st[front] # Running) /\ front \in Pid
    <3>1. front # None /\ front \in Pid \cup {None}
      BY <1>4 DEF IInv, LoopInv
    <3> QED BY <1>4, <3>1 DEF DrivenInv
  <2>2. me = front
    BY <1>1, <2>1 DEF HasTurn, NoTurnInFlight
  <2> QED BY <1>1, <1>2, <2>1, <2>2 DEF NobodyStarts, NoTurnInFlight
<1> QED BY <1>2, <1>3, <1>4 DEF DrivenInv

LEMMA DrivenInductive ==
  ASSUME ~TasksDie
  PROVE  Spec => []DrivenInv
<1>1. Init => DrivenInv
  <2>1. Init => \A p \in Pid : k.st[p] # Running
    BY States DEF Init, EmptyKernel
  <2> QED BY <2>1 DEF Init, DrivenInv, RunningIsDriven, Batch
<1>2. IInv /\ TreeInv(k) /\ DrivenInv /\ [Next]_vars => DrivenInv'
  <2>1. ASSUME DrivenInv, UNCHANGED vars PROVE DrivenInv'
    BY <2>1 DEF vars, DrivenInv, RunningIsDriven, HasTurn, NoTurnInFlight, Batch
  <2>2. 1 \in Pid
    BY TableAssumption DEF Pid
  <2> QED BY <2>1, <2>2, DrivenLoopStep, DrivenTurnStep, DrivenSyscall DEF Next
<1> QED BY <1>1, <1>2, TreeInductive, PTL DEF Spec

\* A process that is Running is in a turn, in the batch, or the foreground
\* process: whoever runs will be finalised, provided no background task
\* panics or is aborted (that one leaves its process Running for ever).
THEOREM WhoRunsIsDriven ==
  ASSUME ~TasksDie
  PROVE  Spec => []RunningIsDriven
<1>1. DrivenInv => RunningIsDriven
  BY DEF DrivenInv
<1> QED BY <1>1, DrivenInductive, PTL

-----------------------------------------------------------------------------
(* The loop that sleeps can be woken.                                      *)

\* What the loop has found out when it gets from the dispatch to its sleep stays
\* true until somebody notifies it: only a turn could change it.
Quiet == ~notified /\ NoTurnInFlight

QuietInv ==
  /\ loop = "pop" /\ Quiet => failed \/ k.ready \subseteq k.fg
  /\ loop \in {"pending", "wait"} /\ Quiet =>
       k.ready \cap k.fg = {} /\ (failed \/ k.ready = {})
  /\ loop = "wait" /\ Quiet => ForegroundPending

LEMMA QuietStep == IInv /\ QuietInv /\ [Next]_vars => QuietInv'
<1> SUFFICES ASSUME IInv, QuietInv, [Next]_vars PROVE QuietInv'
  OBVIOUS
<1>1. CASE loop' \notin {"pop", "pending", "wait"} \/ notified' = TRUE
  BY <1>1 DEF QuietInv, Quiet
<1>2. CASE Dispatch
  BY <1>1, <1>2 DEF Dispatch, QuietInv
<1>3. CASE NoForegroundReady
  BY <1>3 DEF NoForegroundReady, QuietInv, Quiet, NoTurnInFlight
<1>4. CASE GoToWait
  BY <1>4 DEF GoToWait, QuietInv, Quiet, NoTurnInFlight, ForegroundPending
<1>5. CASE LoopStep
  <2>1. \A p \in Pid : Prepare(p) \/ ResumeForeground(p) \/ Restart(p)
                       => loop' \in {"prep", "signals", "restart"}
    BY DEF Prepare, ResumeForeground, Restart
  <2>2. \A p \in Pid : Launch(p) => notified' = TRUE
    BY DEF Launch
  <2>3. FrontSignals \/ ClockWait \/ RestartsDone => loop' \in {"resume", "dispatch"}
    BY DEF FrontSignals, ClockWait, RestartsDone
  <2> QED
    BY <1>1, <1>2, <1>3, <1>4, <1>5, <2>1, <2>2, <2>3 DEF LoopStep
<1>6. CASE EndTurn \/ StartForeground
  BY <1>1, <1>6 DEF EndTurn, EndFresh, EndResume, StartForeground
<1>7. CASE \E p \in Pid : DispatchFails(p) \/ EndBackground(p) \/ TaskDies(p)
  <2>1. ASSUME NEW p \in Pid, DispatchFails(p) PROVE QuietInv'
    <3>1. loop' \in {"prep", "pop"} /\ failed' = TRUE  BY <2>1 DEF DispatchFails, AfterPrep
    <3> QED BY <3>1 DEF QuietInv
  <2>2. \A p \in Pid : EndBackground(p) \/ TaskDies(p) => notified' = TRUE
    BY DEF EndBackground, TaskDies
  <2> QED BY <1>1, <1>7, <2>1, <2>2
<1>8. CASE \/ \E me \in Pid : SysSpawn(me) \/ SysSleep(me)
           \/ \E me, p \in Pid : \/ SysWait(me, p) \/ SysKill(me, p)
                                 \/ SysReap(me, p) \/ SysSignal(me, p)
  <2>1. \E me \in Pid : HasTurn(me) /\ UNCHANGED <<loop, front, turns>>
    BY <1>8 DEF SysSpawn, SysSleep, SysWait, SysKill, SysReap, SysSignal, Syscall, Caller
  <2>2. loop' \notin {"pop", "pending", "wait"} \/ ~NoTurnInFlight'
    <3>1. PICK me \in Pid : HasTurn(me) /\ UNCHANGED <<loop, front, turns>>
      BY <2>1
    <3>2. CASE turns[me] > 0
      <4>1. turns'[me] # 0  BY <3>1, <3>2 DEF IInv, LoopInv
      <4> QED BY <4>1 DEF NoTurnInFlight
    <3>3. CASE front = me
      <4>1. front # None  BY <3>3 DEF Pid, None
      <4> QED BY <3>1, <4>1 DEF IInv, LoopInv
    <3> QED BY <3>1, <3>2, <3>3 DEF HasTurn
  <2> QED BY <2>2 DEF QuietInv, Quiet
<1>9. CASE UNCHANGED vars
  BY <1>9 DEF vars, QuietInv, Quiet, NoTurnInFlight, ForegroundPending
<1> QED BY <1>5, <1>6, <1>7, <1>8, <1>9 DEF Next

LEMMA QuietInductive == Spec => [](IInv /\ TreeInv(k) /\ QuietInv)
<1>1. Init => QuietInv
  BY DEF Init, QuietInv
<1> QED BY <1>1, QuietStep, TreeInductive, PTL DEF Spec

\* With nobody Ready and no timer, following the exit waits from the foreground
\* process the loop sleeps for ends at a process that is stopped, or whose task died
\* and left it Running.
LEMMA StuckBelow ==
  ASSUME IInv, TreeInv(k), QuietInv, LoopAsleep, k.ready = {}
  PROVE  \E p \in Pid : k.st[p] \in {Stopped, Running}
<1> SUFFICES ASSUME \A p \in Pid : k.st[p] \notin {Stopped, Running} PROVE FALSE
  OBVIOUS
<1> DEFINE W == {p \in Pid : IsWaiting(k.st[p])}
<1>1. KernelInv(k) /\ k.ready = {} /\ k.heap = {} /\ ForegroundPending
  BY DEF IInv, QuietInv, Quiet, LoopAsleep, ClockEmpty
<1>2. \A p \in Pid : IsWaiting(k.st[p]) => \E q \in Pid : k.st[p] = WaitingExit(q)
  BY <1>1, States DEF KernelInv, Kernel, State, IsWaiting, WaitingExit, Absent, Ready, Running,
     Stopped, Terminated
<1>3. ASSUME NEW p \in Pid, k.st[p] \notin {Absent, Terminated} PROVE p \in W
  <2>1. k.st[p] # Ready  BY <1>1 DEF KernelInv, ReadyQueued
  <2>2. ~IsSleeping(k.st[p])  BY <1>1 DEF KernelInv, TimersArmed
  <2>3. k.st[p] \in State  BY <1>1 DEF KernelInv, Kernel
  <2> QED BY <1>3, <2>1, <2>2, <2>3 DEF State, IsSleeping, IsWaiting
<1>4. W # {}
  <2>1. PICK p \in k.fg : k.st[p] \notin {Absent, Terminated, Ready}
    BY <1>1 DEF ForegroundPending
  <2>2. p \in Pid  BY <1>1 DEF KernelInv, Kernel
  <2> QED BY <1>3, <2>1, <2>2
<1>5. PICK w \in W : \A n \in W : n <= w
  <2>1. W \in SUBSET Pid  OBVIOUS
  <2> HIDE DEF W
  <2> QED BY <1>4, <2>1, GreatestPid
<1>6. PICK q \in Pid : k.st[w] = WaitingExit(q)
  BY <1>2
<1>7. w < q /\ k.st[q] \notin {Absent, Terminated}
  BY <1>1, <1>6 DEF TreeInv, WaitsDown, KernelInv, WaitersKnown
<1>8. q \in W  BY <1>3, <1>7
<1>9. w \in Pid  OBVIOUS
<1> QED BY <1>5, <1>7, <1>8, <1>9 DEF Pid

\* Only SIGSTOP stops a process: every other kernel method is calm.
Calm(s, n) == \A q \in Pid : n.st[q] = s.st[q] \/ n.st[q] # Stopped

LEMMA CalmTrans ==
  ASSUME NEW s, NEW m, NEW n, Calm(s, m), Calm(m, n) PROVE Calm(s, n)
BY DEF Calm

LEMMA TerminateCalm ==
  ASSUME NEW s, KernelInv(s), NEW V
  PROVE  Calm(s, TerminatePids(s, V))
<1> DEFINE woken == Waiters(s, V) \ V
<1>1. TerminatePids(s, V).st = [p \in Pid |-> IF p \in V /\ Exists(s, p) THEN Terminated
                                              ELSE IF p \in woken THEN Ready ELSE s.st[p]]
  BY DEF TerminatePids, KernelInv, Kernel
<1> HIDE DEF woken
<1> QED BY <1>1, States DEF Calm

LEMMA TerminateCurrentCalm ==
  ASSUME NEW s, KernelInv(s) PROVE Calm(s, TerminateCurrent(s))
<1> DEFINE m == TerminatePids(s, {s.cur})
<1>1. CASE s.cur = None
  BY <1>1 DEF TerminateCurrent, Calm
<1>2. CASE s.cur # None
  <2>1. s.cur \in Pid  BY <1>2 DEF KernelInv, Kernel
  <2>2. Calm(s, m) /\ m \in Kernel  BY <2>1, TerminateCalm, TerminateInv DEF KernelInv
  <2>3. TerminateCurrent(s) = [m EXCEPT !.cur = None]  BY <1>2 DEF TerminateCurrent
  <2> HIDE DEF m
  <2> QED BY <2>2, <2>3 DEF Calm, Kernel
<1> QED BY <1>1, <1>2

LEMMA DropTerminatedCalm ==
  ASSUME NEW s, KernelInv(s), NEW p PROVE Calm(s, DropTerminated(s, p))
<1> DEFINE G == Removed(s, p)
<1>1. DropTerminated(s, p) \in {s, RemoveEntries(s, G)}
  BY DEF DropTerminated, RemoveEntry
<1> HIDE DEF G
<1>2. \A q \in Pid : RemoveEntries(s, G).st[q] \in {s.st[q], Absent}
  BY DEF RemoveEntries, KernelInv, Kernel
<1> QED BY <1>1, <1>2, States DEF Calm

LEMMA RequeueCurrentCalm ==
  ASSUME NEW s, KernelInv(s) PROVE Calm(s, RequeueCurrent(s))
<1>1. \A q \in Pid : RequeueCurrent(s).st[q] \in {s.st[q], Ready}
  BY DEF RequeueCurrent, KernelInv, Kernel
<1> QED BY <1>1, States DEF Calm

LEMMA TerminateAndCleanupCalm ==
  ASSUME NEW s, KernelInv(s), NEW p \in Pid PROVE Calm(s, TerminateAndCleanup(s, p))
<1> DEFINE c == SetCurrent(s, p)
           d == TerminateCurrent(c)
<1>1. KernelInv(c) /\ Calm(s, c)
  BY SetCurrentInv DEF SetCurrent, Calm, KernelInv, Kernel
<1> HIDE DEF c
<1>2. KernelInv(d) /\ Calm(c, d)  BY <1>1, TerminateCurrentInv, TerminateCurrentCalm
<1> HIDE DEF d
<1>3. TerminateAndCleanup(s, p) \in {d, DropTerminated(d, p)}
  BY DEF TerminateAndCleanup, d, c
<1>4. Calm(d, DropTerminated(d, p))  BY <1>2, DropTerminatedCalm
<1> QED BY <1>1, <1>2, <1>3, <1>4, CalmTrans

LEMMA FinalizeCalm ==
  ASSUME NEW s, KernelInv(s), NEW p \in Pid, NEW ok \in BOOLEAN
  PROVE  Calm(s, Finalize(s, p, ok))
<1>1. Calm(s, SetCurrent(s, p))  BY DEF SetCurrent, Calm, KernelInv, Kernel
<1> QED BY <1>1, TerminateAndCleanupCalm DEF Finalize

LEMMA ProcessPendingSignalsCalm ==
  ASSUME NEW s, KernelInv(s), NEW p \in Pid
  PROVE  Calm(s, ProcessPendingSignals(SetCurrent(s, p)))
<1> DEFINE c == SetCurrent(s, p)
           sigs == [c.sigs EXCEPT ![p] = <<>>]
           n == [c EXCEPT !.sigs = sigs]
<1>1. KernelInv(c) /\ Calm(s, c) /\ c.cur = p
  BY SetCurrentInv DEF SetCurrent, Calm, KernelInv, Kernel
<1> HIDE DEF c
<1>2. sigs \in [Pid -> Seq(Signal)]
  <2>1. <<>> \in Seq(Signal) /\ c.sigs \in [Pid -> Seq(Signal)]
    BY <1>1 DEF KernelInv, Kernel
  <2> QED BY <2>1
<1>3. KernelInv(n) /\ Calm(c, n)
  <2> HIDE DEF sigs
  <2>1. KernelInv(n)  BY <1>1, <1>2, SignalsClearedTame
  <2>2. Calm(c, n)  BY <1>1 DEF Calm, KernelInv, Kernel
  <2> QED BY <2>1, <2>2
<1>4. ProcessPendingSignals(c) \in {c, n, TerminateCurrent(n)}
  BY <1>1 DEF ProcessPendingSignals, KernelInv, Kernel
<1> HIDE DEF n
<1>5. Calm(c, ProcessPendingSignals(c))
  BY <1>3, <1>4, TerminateCurrentCalm, CalmTrans DEF Calm
<1> QED BY <1>1, <1>5, CalmTrans DEF c

LEMMA SpawnCalm ==
  ASSUME NEW s, KernelInv(s), NEW par, NEW r PROVE Calm(s, Spawn(s, par, r))
BY States DEF Spawn, NewEntry, Calm, KernelInv, Kernel

LEMMA RestartDaemonCalm ==
  ASSUME NEW s, KernelInv(s), NEW old \in Pid, s.st[old] = Terminated
  PROVE  Calm(s, RestartDaemon(s, old))
<1> DEFINE d == DropDaemon(s, old)
<1>1. KernelInv(d) /\ d.st = [s.st EXCEPT ![old] = Absent]
  BY DropDaemonInv
<1>2. RestartDaemon(s, old) = Spawn(d, s.parent[old], s.left[old] - 1)
  BY DEF RestartDaemon, DropDaemon
<1> HIDE DEF d
<1>3. Calm(s, d)  BY <1>1, States DEF Calm, KernelInv, Kernel
<1> QED BY <1>1, <1>2, <1>3, SpawnCalm, CalmTrans

LEMMA AdvanceTicksCalm ==
  ASSUME NEW s, KernelInv(s), NEW t PROVE Calm(s, AdvanceTicks(s, t))
<1> DEFINE woken == {p \in Pid : IsSleeping(s.st[p])
                                 /\ <<s.st[p][2], p>> \in {e \in s.heap : e[1] <= s.tick + t}}
<1>1. AdvanceTicks(s, t).st = [p \in Pid |-> IF p \in woken THEN Ready ELSE s.st[p]]
  BY DEF AdvanceTicks, KernelInv, Kernel
<1> HIDE DEF woken
<1> QED BY <1>1, States DEF Calm

LEMMA DeliverSignalCalm ==
  ASSUME NEW s, KernelInv(s), NEW p \in Pid, NEW sig \in Signal \ {"SigStop"}
  PROVE  Calm(s, DeliverSignal(s, p, sig))
<1>1. CASE sig = "SigKill"
  BY <1>1, TerminateCalm DEF DeliverSignal
<1>2. CASE sig # "SigKill"
  BY <1>2, States DEF DeliverSignal, Signal, DeliverCancel, DeliverTerm, DeliverCont, Calm,
     KernelInv, Kernel
<1> QED BY <1>1, <1>2

\* Where no agent may send SIGSTOP, no process is ever stopped.
NobodyStopped == \A q \in Pid : k.st[q] # Stopped

LEMMA NobodyStoppedStep ==
  ASSUME "SigStop" \notin Signals, IInv, NobodyStopped, [Next]_vars
  PROVE  NobodyStopped'
<1> USE DEF IInv
<1>0. SUFFICES Calm(k, k')  BY DEF Calm, NobodyStopped
<1>1. ASSUME k' = k PROVE Calm(k, k')  BY <1>1 DEF Calm
<1>2. CASE LoopStep
  <2>1. CASE Dispatch
    <3>1. k' = k \/ \E S, first : k' = PopBatch(k, S, first)  BY <2>1 DEF Dispatch
    <3>2. \A S, first : \A q \in Pid : PopBatch(k, S, first).st[q] \in {k.st[q], Running}
      BY DEF PopBatch, KernelInv, Kernel
    <3> QED BY <1>1, <3>1, <3>2, States DEF Calm
  <2>2. CASE FrontSignals
    <3>1. front \in Pid  BY <2>2 DEF FrontSignals, LoopInv
    <3> QED BY <2>2, <3>1, ProcessPendingSignalsCalm DEF FrontSignals
  <2>3. CASE NoForegroundReady \/ GoToWait
    BY <1>1, <2>3 DEF NoForegroundReady, GoToWait
  <2>4. CASE ClockWait
    BY <2>4, AdvanceTicksCalm DEF ClockWait
  <2>5. CASE RestartsDone
    BY <1>1, <2>5, RequeueCurrentCalm DEF RestartsDone
  <2>6. ASSUME NEW p \in Pid, Prepare(p) \/ Launch(p) \/ ResumeForeground(p) \/ Restart(p)
        PROVE  Calm(k, k')
    <3>1. CASE Prepare(p)  BY <3>1, ProcessPendingSignalsCalm DEF Prepare
    <3>2. CASE Launch(p)
      BY <3>2 DEF Launch, ClearToolCancel, Calm, KernelInv, Kernel
    <3>3. CASE ResumeForeground(p)
      BY <3>3, States DEF ResumeForeground, PopForegroundReady, Calm, KernelInv, Kernel
    <3>4. CASE Restart(p)
      BY <3>4, RestartDaemonCalm DEF Restart, DeadDaemons
    <3> QED BY <2>6, <3>1, <3>2, <3>3, <3>4
  <2> QED BY <1>2, <2>1, <2>2, <2>3, <2>4, <2>5, <2>6 DEF LoopStep
<1>3. CASE EndTurn
  <2>1. k' = k \/ \E p \in Pid, ok \in BOOLEAN : k' = Finalize(k, p, ok)
    <3>1. CASE EndFresh
      <4>1. k.cur # None => k.cur \in Pid  BY DEF KernelInv, Kernel
      <4> QED BY <3>1, <4>1 DEF EndFresh
    <3>2. CASE EndResume
      <4>1. front \in Pid  BY <3>2 DEF EndResume, LoopInv
      <4> QED BY <3>2, <4>1 DEF EndResume
    <3> QED BY <1>3, <3>1, <3>2 DEF EndTurn
  <2> QED BY <1>1, <2>1, FinalizeCalm
<1>4. CASE StartForeground
  BY <1>4, States DEF StartForeground, BeginForeground, NewEntry, Calm, KernelInv, Kernel
<1>5. ASSUME NEW p \in Pid, DispatchFails(p) \/ EndBackground(p) \/ TaskDies(p)
      PROVE  Calm(k, k')
  <2>1. CASE DispatchFails(p)  BY <2>1, TerminateAndCleanupCalm DEF DispatchFails
  <2>2. CASE EndBackground(p)
    <3>1. PICK ok \in BOOLEAN : k' = RequeueCurrent(Finalize(k, p, ok))
      BY <2>2 DEF EndBackground
    <3> QED BY <3>1, FinalizeInv, FinalizeCalm, RequeueCurrentCalm, CalmTrans
  <2>3. CASE TaskDies(p)  BY <1>1, <2>3 DEF TaskDies
  <2> QED BY <1>5, <2>1, <2>2, <2>3
<1>6. ASSUME NEW me \in Pid, NEW p \in Pid,
             \/ SysSpawn(me) \/ SysSleep(me) \/ SysWait(me, p)
             \/ SysKill(me, p) \/ SysReap(me, p) \/ SysSignal(me, p)
      PROVE  Calm(k, k')
  <2>1. CASE SysSpawn(me)
    <3>1. \E r : k' = Spawn(k, me, r)  BY <2>1 DEF SysSpawn, Syscall
    <3> QED BY <3>1, SpawnCalm
  <2>2. CASE SysSleep(me) \/ SysWait(me, p)
    <3>1. \/ \E n : k' = SleepCurrent(k, me, n)
          \/ k' = WaitOn(k, me, p)
      BY <2>2 DEF SysSleep, SysWait, Syscall
    <3>2. \A n : \A q \in Pid : SleepCurrent(k, me, n).st[q] \in {k.st[q], Sleeping(k.tick + n)}
      BY DEF SleepCurrent, KernelInv, Kernel
    <3>3. \A q \in Pid : WaitOn(k, me, p).st[q] \in {k.st[q], WaitingExit(p)}
      BY DEF WaitOn, KernelInv, Kernel
    <3> QED BY <3>1, <3>2, <3>3, States DEF Calm
  <2>3. CASE SysKill(me, p)  BY <2>3, TerminateCalm DEF SysKill, Syscall
  <2>4. CASE SysReap(me, p)
    <3>1. k' = DropTerminated(k, p)  BY <2>4 DEF SysReap, Syscall, DropTerminated
    <3> QED BY <3>1, DropTerminatedCalm
  <2>5. CASE SysSignal(me, p)
    <3>1. \E sig \in Signals : k' = DeliverSignal(k, p, sig)  BY <2>5 DEF SysSignal, Syscall
    <3>2. Signals \subseteq Signal \ {"SigStop"}  BY SchedAssumption
    <3> QED BY <3>1, <3>2, DeliverSignalCalm
  <2> QED BY <1>6, <2>1, <2>2, <2>3, <2>4, <2>5
<1>7. CASE UNCHANGED vars  BY <1>1, <1>7 DEF vars
<1>8. 1 \in Pid  BY TableAssumption DEF Pid
<1> QED BY <1>2, <1>3, <1>4, <1>5, <1>6, <1>7, <1>8 DEF Next

\* The event loop goes to sleep with nobody left to wake it in one case only, a
\* dispatch that failed and whose end made a background process Ready, provided that
\* no agent may stop a process and no background task dies.  These two can leave the
\* foreground waiting for a process that nothing but another process would ever move.
THEOREM LoopWakes ==
  ASSUME ~TasksDie, "SigStop" \notin Signals
  PROVE  Spec => []LoopCanWake
<1>1. Init => NobodyStopped
  BY States DEF Init, EmptyKernel, NobodyStopped
<1>2. IInv /\ NobodyStopped /\ [Next]_vars => NobodyStopped'
  BY NobodyStoppedStep
<1>3. Spec => []NobodyStopped
  BY <1>1, <1>2, TreeInductive, PTL DEF Spec
<1>4. IInv /\ TreeInv(k) /\ QuietInv /\ DrivenInv /\ NobodyStopped => LoopCanWake
  <2> SUFFICES ASSUME IInv, TreeInv(k), QuietInv, DrivenInv, NobodyStopped, LoopAsleep
               PROVE  failed /\ \E p \in k.ready : p \notin k.fg
    BY DEF LoopCanWake
  <2>1. loop = "wait" /\ ~notified /\ NoTurnInFlight
    BY DEF LoopAsleep, ClockEmpty
  <2>2. ASSUME k.ready = {} PROVE FALSE
    <3>1. PICK p \in Pid : k.st[p] = Running
      BY <2>2, StuckBelow DEF NobodyStopped
    <3>2. front = None /\ Batch = {}  BY <2>1 DEF IInv, LoopInv, DrivenInv
    <3>3. p # None /\ ~(turns[p] > 0)  BY <2>1 DEF NoTurnInFlight, Pid, None
    <3> QED BY <2>1, <3>1, <3>2, <3>3 DEF DrivenInv, RunningIsDriven, HasTurn, Batch
  <2> QED BY <2>1, <2>2 DEF QuietInv, Quiet
<1> QED BY <1>3, <1>4, QuietInductive, DrivenInductive, PTL
=============================================================================
