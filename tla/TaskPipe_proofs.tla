--------------------------- MODULE TaskPipe_proofs ---------------------------
(***************************************************************************)
(* TaskPipe implements TaskContract, for any number of tasks and processes *)
(* and whatever fails: a result is decided once, delivered once, and what  *)
(* is delivered is what was decided.  The proof looks at one task at a     *)
(* time: a step of the protocol, however many tasks it is about, is one of *)
(* four moves of each of them, and none of them depends on the state of    *)
(* the kernel.                                                             *)
(***************************************************************************)
EXTENDS TaskPipe, TLAPS

\* What is in the channel of a task: nothing, or one result.
Queue == {<<>>} \cup {<<s>> : s \in Status}

PipeRecord == [chan : {"none", "open", "closed", "gone"}, queue : Queue,
               held : SUBSET {"producer", "consumer"},
               futex : {"none", "zero", "one", "gone"}]

Pipes == [Task -> PipeRecord]

-----------------------------------------------------------------------------
(* What becomes of the pipe p of a task: q.                                *)

Published(p, q) ==
  /\ q.chan = p.chan
  /\ p.futex # "gone" => q.futex # "gone"
  /\ q.queue = p.queue \/ (p.chan = "open" /\ p.queue = <<>> /\ q.queue # <<>>)

Emptied(q) == q.chan = "gone" /\ q.queue = <<>>

\* A pipe after an update of one of its fields.
WithQueue(p, x) == [p EXCEPT !.queue = x]
WithHeld(p, x)  == [p EXCEPT !.held = x]
WithFutex(p, x) == [p EXCEPT !.futex = x]
WithChan(p, x)  == [p EXCEPT !.chan = x]

LEMMA QueueUpdated ==
  ASSUME NEW p \in PipeRecord, NEW x \in Queue
  PROVE  /\ WithQueue(p, x) \in PipeRecord /\ WithQueue(p, x).queue = x
         /\ WithQueue(p, x).chan = p.chan /\ WithQueue(p, x).futex = p.futex
         /\ WithQueue(p, x).held = p.held
BY DEF PipeRecord, WithQueue

LEMMA HeldUpdated ==
  ASSUME NEW p \in PipeRecord, NEW x \in SUBSET {"producer", "consumer"}
  PROVE  /\ WithHeld(p, x) \in PipeRecord /\ WithHeld(p, x).queue = p.queue
         /\ WithHeld(p, x).chan = p.chan /\ WithHeld(p, x).futex = p.futex
BY DEF PipeRecord, WithHeld

LEMMA FutexUpdated ==
  ASSUME NEW p \in PipeRecord, NEW x \in {"none", "zero", "one", "gone"}
  PROVE  /\ WithFutex(p, x) \in PipeRecord /\ WithFutex(p, x).queue = p.queue
         /\ WithFutex(p, x).chan = p.chan /\ WithFutex(p, x).futex = x
BY DEF PipeRecord, WithFutex

LEMMA ChanUpdated ==
  ASSUME NEW p \in PipeRecord, NEW x \in {"none", "open", "closed", "gone"}
  PROVE  /\ WithChan(p, x) \in PipeRecord /\ WithChan(p, x).queue = p.queue
         /\ WithChan(p, x).chan = x
BY DEF PipeRecord, WithChan

LEMMA FirstAppended == ASSUME NEW s \in Status PROVE Append(<<>>, s) = <<s>>
OBVIOUS

\* The channel takes a result only when it is open and empty.
LEMMA PublishEffect ==
  ASSUME NEW w, w.pipe \in Pipes, NEW T, NEW status \in Status
  PROVE  /\ Publish(w, T, status).pipe \in Pipes
         /\ \A t \in Task : Published(w.pipe[t], Publish(w, T, status).pipe[t])
<1> DEFINE told(t) == [w.pipe[t] EXCEPT
                         !.queue = IF CanSend(w, t) THEN Append(@, status) ELSE @,
                         !.held  = @ \ {"producer"},
                         !.futex = IF @ = "zero" THEN "one" ELSE @]
           new == [t \in Task |-> IF t \notin T THEN w.pipe[t] ELSE told(t)]
<1>1. Publish(w, T, status).pipe = new  BY DEF Publish
<1>2. ASSUME NEW t \in Task
      PROVE  told(t) \in PipeRecord /\ Published(w.pipe[t], told(t))
  <2> DEFINE p == w.pipe[t]
             x == IF CanSend(w, t) THEN Append(p.queue, status) ELSE p.queue
             f == IF p.futex = "zero" THEN "one" ELSE p.futex
             p1 == WithQueue(p, x)
             p2 == WithHeld(p1, p.held \ {"producer"})
             p3 == WithFutex(p2, f)
  <2>1. p \in PipeRecord  BY DEF Pipes
  <2>2. told(t) = p3  BY DEF WithQueue, WithHeld, WithFutex
  <2>3. CanSend(w, t) => p.chan = "open" /\ p.queue = <<>>  BY DEF CanSend
  <2> HIDE DEF p
  <2>4. /\ x \in Queue
        /\ x = p.queue \/ (p.chan = "open" /\ p.queue = <<>> /\ x # <<>>)
    <3>1. CASE CanSend(w, t)
      <4>1. x = <<status>>  BY <2>3, <3>1, FirstAppended
      <4> QED  BY <2>3, <3>1, <4>1 DEF Queue
    <3>2. CASE ~CanSend(w, t)  BY <2>1, <3>2 DEF PipeRecord
    <3> QED  BY <3>1, <3>2
  <2>5. /\ f \in {"none", "zero", "one", "gone"} /\ (p.futex # "gone" => f # "gone")
        /\ p.held \ {"producer"} \in SUBSET {"producer", "consumer"}
    BY <2>1 DEF PipeRecord
  <2> HIDE DEF x, f, p3
  <2>6. p1 \in PipeRecord /\ p1.queue = x /\ p1.chan = p.chan /\ p1.futex = p.futex
    BY <2>1, <2>4, QueueUpdated
  <2> HIDE DEF p1
  <2>7. p2 \in PipeRecord /\ p2.queue = x /\ p2.chan = p.chan /\ p2.futex = p.futex
    BY <2>5, <2>6, HeldUpdated
  <2> HIDE DEF p2
  <2>8. p3 \in PipeRecord /\ p3.queue = x /\ p3.chan = p.chan /\ p3.futex = f
    BY <2>5, <2>7, FutexUpdated DEF p3
  <2>9. Published(p, p3)  BY <2>4, <2>5, <2>8 DEF Published
  <2> QED  BY <2>2, <2>8, <2>9 DEF p
<1>3. ASSUME NEW t \in Task PROVE w.pipe[t] \in PipeRecord /\ Published(w.pipe[t], w.pipe[t])
  BY DEF Pipes, Published
<1> HIDE DEF told
<1>4. new \in Pipes  BY <1>2, <1>3 DEF Pipes
<1>5. \A t \in Task : Published(w.pipe[t], new[t])  BY <1>2, <1>3
<1> QED  BY <1>1, <1>4, <1>5

LEMMA ReleasedEffect ==
  ASSUME NEW p \in PipeRecord
  PROVE  /\ Released(p) \in PipeRecord /\ Released(p).queue = p.queue
         /\ Released(p).chan = IF p.queue = <<>> THEN "gone" ELSE "closed"
<1> DEFINE c == IF p.queue = <<>> THEN "gone" ELSE "closed"
           p1 == WithHeld(p, {})
           p2 == WithFutex(p1, "gone")
           p3 == WithChan(p2, c)
<1>1. Released(p) = p3  BY DEF Released, WithHeld, WithFutex, WithChan
<1>0. c \in {"none", "open", "closed", "gone"}  OBVIOUS
<1> HIDE DEF p3, c
<1>2. p1 \in PipeRecord /\ p1.queue = p.queue /\ p1.chan = p.chan  BY HeldUpdated
<1> HIDE DEF p1
<1>3. p2 \in PipeRecord /\ p2.queue = p.queue  BY <1>2, FutexUpdated
<1> HIDE DEF p2
<1>4. p3 \in PipeRecord /\ p3.queue = p2.queue /\ p3.chan = c
  BY <1>0, <1>3, ChanUpdated DEF p3
<1> QED  BY <1>1, <1>3, <1>4 DEF c

\* cleanup_collected_task leaves no channel behind.
LEMMA CleanUpEffect ==
  ASSUME NEW w, w.pipe \in Pipes, NEW me, NEW C
  PROVE  /\ CleanUp(w, me, C).pipe \in Pipes
         /\ \A t \in Task \cap C : Emptied(CleanUp(w, me, C).pipe[t])
         /\ \A t \in Task \ C : CleanUp(w, me, C).pipe[t] = w.pipe[t]
<1> DEFINE left(t) == Released([w.pipe[t] EXCEPT !.queue = <<>>])
           new == [t \in Task |-> IF t \in C THEN left(t) ELSE w.pipe[t]]
<1>1. CleanUp(w, me, C).pipe = new  BY DEF CleanUp
<1>2. ASSUME NEW t \in Task PROVE left(t) \in PipeRecord /\ Emptied(left(t))
  <2> DEFINE p == WithQueue(w.pipe[t], <<>>)
  <2>1. w.pipe[t] \in PipeRecord /\ <<>> \in Queue  BY DEF Pipes, Queue
  <2>2. p \in PipeRecord /\ p.queue = <<>>  BY <2>1, QueueUpdated
  <2> HIDE DEF p
  <2>3. Released(p) \in PipeRecord /\ Released(p).queue = <<>> /\ Released(p).chan = "gone"
    BY <2>2, ReleasedEffect
  <2> QED  BY <2>3 DEF p, WithQueue, Emptied
<1> HIDE DEF left
<1>3. new \in Pipes  BY <1>2 DEF Pipes
<1> QED  BY <1>1, <1>2, <1>3

-----------------------------------------------------------------------------
(* What a step does to one task.                                           *)

DataTypes ==
  /\ pipe \in Pipes
  /\ pid \in [Task -> Pid \cup {None}]
  /\ ledger \in [Task -> Status \cup {NoStatus}]

Idles(t) ==
  /\ pid'[t] = pid[t] /\ ledger'[t] = ledger[t]
  /\ t \in tracked' <=> t \in tracked
  /\ t \in dropped' <=> t \in dropped
  /\ Published(pipe[t], pipe'[t])

Spawns(t) ==
  /\ pid[t] = None /\ pid'[t] # None /\ ledger'[t] = ledger[t]
  /\ t \in tracked' /\ (t \in dropped' <=> t \in dropped)
  /\ pipe'[t] = NewPipe

Collects(t) ==
  /\ t \in tracked /\ HasChan(World, t)
  /\ pid'[t] = pid[t] /\ ledger'[t] \in Status
  /\ pipe[t].queue # <<>> => ledger'[t] = Head(pipe[t].queue)
  /\ t \in dropped' <=> t \in dropped
  /\ Emptied(pipe'[t])

Discards(t) ==
  /\ t \in tracked /\ t \notin tracked' /\ t \in dropped'
  /\ pid'[t] = pid[t] /\ ledger'[t] = ledger[t]
  /\ pipe'[t] = Released(pipe[t])

Moves == \A t \in Task : Idles(t) \/ Spawns(t) \/ Collects(t) \/ Discards(t)

IsWorld(w) == \E kk, pp : w = [k |-> kk, pipe |-> pp]

LEMMA KernelReplaced ==
  ASSUME NEW w, IsWorld(w), NEW x
  PROVE  [w EXCEPT !.k = x].pipe = w.pipe /\ IsWorld([w EXCEPT !.k = x])
<1>1. PICK kk, pp : w = [k |-> kk, pipe |-> pp]  BY DEF IsWorld
<1>2. [w EXCEPT !.k = x] = [k |-> x, pipe |-> pp]  BY <1>1
<1> QED  BY <1>1, <1>2 DEF IsWorld

LEMMA Worlds ==
  /\ IsWorld(World) /\ World.pipe = pipe
  /\ \A w, T, status : IsWorld(Publish(w, T, status))
BY DEF IsWorld, World, Publish

LEMMA StaysPublished == \A p : Published(p, p)
BY DEF Published

LEMMA WriteTerminalEffect ==
  ASSUME pipe \in Pipes, NEW me, NEW T, NEW status \in Status
  PROVE  /\ WriteTerminal(World, me, T, status).pipe \in Pipes
         /\ \A t \in Task : Published(pipe[t], WriteTerminal(World, me, T, status).pipe[t])
<1> DEFINE x == Killed(World.k, me, {pid[t] : t \in T})
           w == [World EXCEPT !.k = x]
<1>1. WriteTerminal(World, me, T, status) = Publish(w, T, status)  BY DEF WriteTerminal
<1> HIDE DEF x
<1>2. w.pipe = pipe  BY Worlds, KernelReplaced
<1> HIDE DEF w
<1> QED  BY <1>1, <1>2, PublishEffect

\* A step that only publishes.
LEMMA OnlyPublishes ==
  ASSUME DataTypes, pipe' \in Pipes, \A t \in Task : Published(pipe[t], pipe'[t]),
         UNCHANGED <<pid, ledger, tracked, dropped>>
  PROVE  DataTypes' /\ Moves
BY DEF DataTypes, Moves, Idles

LEMMA NoMove ==
  ASSUME DataTypes, UNCHANGED <<pipe, pid, ledger, tracked, dropped>>
  PROVE  DataTypes' /\ Moves
BY StaysPublished, OnlyPublishes DEF DataTypes

\* A step that collects the tasks of C from the world w, in which some may have been
\* published already.
LEMMA Collecting ==
  ASSUME DataTypes, NEW w, w.pipe \in Pipes,
         \A t \in Task : Published(pipe[t], w.pipe[t]),
         NEW C, C \subseteq tracked, C \subseteq Task, \A t \in C : HasChan(World, t),
         NEW me, pipe' = CleanUp(w, me, C).pipe, Recorded(w, C),
         UNCHANGED <<pid, dropped>>, tracked' \in {tracked, tracked \ C}
  PROVE  DataTypes' /\ Moves
<1>1. /\ pipe' \in Pipes
      /\ \A t \in C : Emptied(pipe'[t])
      /\ \A t \in Task \ C : pipe'[t] = w.pipe[t]
  BY CleanUpEffect
<1>2. ASSUME NEW t \in C
      PROVE  /\ ledger'[t] \in Status
             /\ pipe[t].queue # <<>> => ledger'[t] = Head(pipe[t].queue)
  <2>1. ledger'[t] = IF w.pipe[t].queue # <<>> THEN Head(w.pipe[t].queue) ELSE "failed"
    BY DEF Recorded
  <2>2. w.pipe[t].queue \in Queue  BY DEF Pipes, PipeRecord
  <2>3. w.pipe[t].queue # <<>> => Head(w.pipe[t].queue) \in Status
    <3>1. \A s \in Status : Head(<<s>>) = s  OBVIOUS
    <3> QED  BY <2>2, <3>1 DEF Queue
  <2>4. pipe[t].queue # <<>> => w.pipe[t].queue = pipe[t].queue
    BY DEF Published
  <2> QED  BY <2>1, <2>3, <2>4 DEF Status
<1>3. \A t \in Task \ C : ledger'[t] = ledger[t]  BY DEF Recorded
<1>4. ledger' \in [Task -> Status \cup {NoStatus}]
  <2>1. ledger' = [t \in Task |-> ledger'[t]]  BY DEF Recorded
  <2> QED  BY <1>2, <1>3, <2>1 DEF DataTypes
<1>5. \A t \in C : Collects(t)  BY <1>1, <1>2 DEF Collects
<1>6. \A t \in Task \ C : Idles(t)  BY <1>1, <1>3 DEF Idles
<1> QED  BY <1>1, <1>4, <1>5, <1>6 DEF DataTypes, Moves

LEMMA OverSubset == \A w, T : Over(w, T) \subseteq T
BY DEF Over, Answered, Silent

LEMMA ScanFailsMoves ==
  ASSUME DataTypes, NEW w, w.pipe \in Pipes, \A t \in Task : Published(pipe[t], w.pipe[t]),
         NEW f, NEW D, D \subseteq tracked, D \subseteq Task, ScanFails(w, f, D),
         UNCHANGED <<pid, dropped, tracked>>
  PROVE  DataTypes' /\ Moves
<1> DEFINE C == Over(w, D)
<1>1. /\ pipe' = CleanUp(w, front, C).pipe /\ Recorded(w, C)
      /\ \A t \in D : HasChan(World, t)
  BY DEF ScanFails, Becomes
<1>2. C \subseteq D  BY OverSubset
<1> HIDE DEF C
<1> QED  BY <1>1, <1>2, Collecting

LEMMA SpawnMoves ==
  ASSUME DataTypes, NEW t \in Task, SpawnTask(t)
  PROVE  DataTypes' /\ Moves
<1>1. /\ k.next \in Pid /\ pid[t] = None
      /\ pid' = [pid EXCEPT ![t] = k.next] /\ pipe' = [pipe EXCEPT ![t] = NewPipe]
      /\ tracked' = tracked \cup {t} /\ ledger' = ledger /\ dropped' = dropped
  BY DEF SpawnTask, CanAllocate
<1>2. NewPipe \in PipeRecord  BY DEF NewPipe, PipeRecord, Queue
<1>3. k.next # None  BY <1>1 DEF Pid, None
<1>4. DataTypes'  BY <1>1, <1>2 DEF DataTypes, Pipes
<1>5. Spawns(t)  BY <1>1, <1>3 DEF Spawns, DataTypes, Pipes
<1>6. \A u \in Task \ {t} : Idles(u)
  BY <1>1, StaysPublished DEF Idles, DataTypes, Pipes
<1> QED  BY <1>4, <1>5, <1>6 DEF Moves

LEMMA DiscardMoves ==
  ASSUME DataTypes, Discard
  PROVE  DataTypes' /\ Moves
<1>1. /\ pipe' = [t \in Task |-> IF t \in tracked THEN Released(pipe[t]) ELSE pipe[t]]
      /\ tracked' = {} /\ dropped' = dropped \cup tracked
      /\ UNCHANGED <<pid, ledger>>
  BY DEF Discard
<1>2. \A t \in Task : pipe[t] \in PipeRecord /\ Released(pipe[t]) \in PipeRecord
  BY ReleasedEffect DEF DataTypes, Pipes
<1>3. DataTypes'  BY <1>1, <1>2 DEF DataTypes, Pipes
<1>4. \A t \in Task \cap tracked : Discards(t)  BY <1>1 DEF Discards
<1>5. \A t \in Task \ tracked : Idles(t)  BY <1>1, StaysPublished DEF Idles
<1> QED  BY <1>3, <1>4, <1>5 DEF Moves

LEMMA TaskWaitMoves ==
  ASSUME DataTypes, NEW S \in Asks, NEW policy \in Policies, TaskWait(S, policy)
  PROVE  DataTypes' /\ Moves
<1> DEFINE T == S \cap tracked
           w == WriteTerminal(World, front, T \cap overdue, "timeout")
           C == Over(w, T)
<1>1. /\ \A t \in T : HasChan(World, t)
      /\ pipe' = CleanUp(w, front, C).pipe /\ Recorded(w, C)
      /\ tracked' = tracked \ C /\ UNCHANGED <<pid, dropped>>
  BY DEF TaskWait
<1>2. w.pipe \in Pipes /\ \A t \in Task : Published(pipe[t], w.pipe[t])
  BY WriteTerminalEffect DEF DataTypes, Status
<1>3. C \subseteq T /\ T \subseteq tracked /\ T \subseteq Task
  BY OverSubset, PipeAssumption
<1> HIDE DEF w, C
<1> QED  BY <1>1, <1>2, <1>3, Collecting

LEMMA TaskWaitFailsMoves ==
  ASSUME DataTypes, NEW S \in Asks, NEW policy \in Policies, TaskWaitFails(S, policy)
  PROVE  DataTypes' /\ Moves
<1> DEFINE T == S \cap tracked
           w(f, D) == WriteTerminal(World, front, (D \cup {f}) \cap overdue, "timeout")
<1>1. PICK f \in T, D \in SUBSET T : ScanFails(w(f, D), f, D)
  BY DEF TaskWaitFails
<1>2. UNCHANGED <<pid, dropped, tracked>>  BY DEF TaskWaitFails
<1>3. w(f, D).pipe \in Pipes /\ \A t \in Task : Published(pipe[t], w(f, D).pipe[t])
  BY WriteTerminalEffect DEF DataTypes, Status
<1>4. D \subseteq tracked /\ D \subseteq Task  BY PipeAssumption
<1> HIDE DEF w
<1> QED  BY <1>1, <1>2, <1>3, <1>4, ScanFailsMoves

LEMMA TaskStatusMoves ==
  ASSUME DataTypes, tracked \subseteq Task, TaskStatus \/ TaskStatusFails
  PROVE  DataTypes' /\ Moves
<1>1. World.pipe \in Pipes /\ \A t \in Task : Published(pipe[t], World.pipe[t])
  BY Worlds, StaysPublished DEF DataTypes
<1>2. Mine \subseteq tracked  BY DEF Mine
<1>3. CASE TaskStatus
  <2> DEFINE C == Over(World, Mine)
  <2>1. /\ \A t \in Mine : HasChan(World, t)
        /\ pipe' = CleanUp(World, front, C).pipe /\ Recorded(World, C)
        /\ tracked' = tracked \ C /\ UNCHANGED <<pid, dropped>>
    BY <1>3 DEF TaskStatus, Becomes
  <2>2. C \subseteq Mine  BY OverSubset
  <2> HIDE DEF C
  <2> QED  BY <1>1, <1>2, <2>1, <2>2, Collecting
<1>4. CASE TaskStatusFails
  <2>1. PICK f \in Mine, D \in SUBSET Mine : ScanFails(World, f, D)
    BY <1>4 DEF TaskStatusFails
  <2>2. UNCHANGED <<pid, dropped, tracked>>  BY <1>4 DEF TaskStatusFails
  <2>3. D \subseteq tracked /\ D \subseteq Task  BY <1>2
  <2> QED  BY <1>1, <2>1, <2>2, <2>3, ScanFailsMoves
<1> QED  BY <1>3, <1>4

LEMMA PublishingMoves ==
  ASSUME DataTypes,
         \/ Reap
         \/ \E p \in picked : DispatchFails(p)
         \/ \E t \in Task : Finish(t) \/ TaskCancel(t)
  PROVE  DataTypes' /\ Moves
<1>0. pipe \in Pipes  BY DEF DataTypes
<1>1. CASE Reap
  <2>1. PICK T : pipe' = WriteTerminal(World, k.cur, T, "timeout").pipe
    BY <1>1 DEF Reap, Becomes
  <2>2. UNCHANGED <<pid, ledger, tracked, dropped>>  BY <1>1 DEF Reap
  <2>3. "timeout" \in Status  BY DEF Status
  <2> QED  BY <1>0, <2>1, <2>2, <2>3, WriteTerminalEffect, OnlyPublishes
<1>2. ASSUME NEW p \in picked, DispatchFails(p) PROVE DataTypes' /\ Moves
  <2> DEFINE w == Publish(World, {TaskOf(p)}, "failed")
  <2>1. \E x : pipe' = [w EXCEPT !.k = x].pipe  BY <1>2 DEF DispatchFails, Becomes
  <2>2. UNCHANGED <<pid, ledger, tracked, dropped>>  BY <1>2 DEF DispatchFails
  <2>3. IsWorld(w)  BY Worlds
  <2>4. "failed" \in Status  BY DEF Status
  <2>5. w.pipe \in Pipes /\ \A t \in Task : Published(pipe[t], w.pipe[t])
    BY <1>0, <2>4, Worlds, PublishEffect
  <2> HIDE DEF w
  <2>6. pipe' = w.pipe  BY <2>1, <2>3, KernelReplaced
  <2> QED  BY <2>2, <2>5, <2>6, OnlyPublishes
<1>3. ASSUME NEW t \in Task, Finish(t) PROVE DataTypes' /\ Moves
  <2> DEFINE now == [World EXCEPT !.k = SetCurrent(k, pid[t])]
  <2>1. PICK told \in {now} \cup {Publish(now, {t}, s) : s \in Status} :
          \E x : pipe' = [told EXCEPT !.k = x].pipe
    <3> DEFINE status(ok, valid) == IF ok /\ valid THEN "completed" ELSE "failed"
               told(ok, valid, spoke) == IF ShouldPublish(pid[t], ok /\ valid, spoke)
                                         THEN Publish(now, {t}, status(ok, valid)) ELSE now
               kernel(ok, valid, spoke) ==
                 RequeueCurrent(IF ok /\ IsParked(told(ok, valid, spoke).k.st[pid[t]])
                                THEN told(ok, valid, spoke).k
                                ELSE TerminateAndCleanup(told(ok, valid, spoke).k, pid[t]))
    <3>1. \E ok, valid, spoke \in BOOLEAN :
            pipe' = [told(ok, valid, spoke) EXCEPT !.k = kernel(ok, valid, spoke)].pipe
      BY <1>3 DEF Finish, Becomes
    <3> HIDE DEF kernel
    <3>2. PICK ok \in BOOLEAN, valid \in BOOLEAN, spoke \in BOOLEAN :
            pipe' = [told(ok, valid, spoke) EXCEPT !.k = kernel(ok, valid, spoke)].pipe
      BY <3>1
    <3>3. status(ok, valid) \in Status  BY DEF Status
    <3> HIDE DEF status
    <3>4. told(ok, valid, spoke) \in {now} \cup {Publish(now, {t}, s) : s \in Status}
      BY <3>3
    <3> HIDE DEF told
    <3> QED  BY <3>2, <3>4
  <2>2. UNCHANGED <<pid, ledger, tracked, dropped>>  BY <1>3 DEF Finish
  <2>3. IsWorld(now) /\ now.pipe = pipe  BY Worlds, KernelReplaced
  <2> HIDE DEF now
  <2>4. /\ IsWorld(told) /\ told.pipe \in Pipes
        /\ \A u \in Task : Published(pipe[u], told.pipe[u])
    BY <1>0, <2>3, Worlds, PublishEffect, StaysPublished
  <2>5. pipe' = told.pipe  BY <2>1, <2>4, KernelReplaced
  <2> QED  BY <2>2, <2>4, <2>5, OnlyPublishes
<1>4. ASSUME NEW t \in Task, TaskCancel(t) PROVE DataTypes' /\ Moves
  <2>1. \/ pipe' = WriteTerminal(World, front, {t}, "cancelled").pipe
        \/ pipe' = World.pipe
    BY <1>4 DEF TaskCancel, Becomes
  <2>2. UNCHANGED <<pid, ledger, tracked, dropped>>  BY <1>4 DEF TaskCancel
  <2>3. "cancelled" \in Status  BY DEF Status
  <2> QED
    BY <1>0, <2>1, <2>2, <2>3, Worlds, WriteTerminalEffect, OnlyPublishes, StaysPublished
<1> QED  BY <1>1, <1>2, <1>3, <1>4

LEMMA StepMoves ==
  ASSUME DataTypes, tracked \subseteq Task, [Next]_vars
  PROVE  DataTypes' /\ Moves
<1>1. CASE UNCHANGED tasks  BY <1>1, NoMove DEF tasks
<1>2. CASE UNCHANGED vars  BY <1>1, <1>2 DEF vars
<1>3. CASE LoopStep
  <2>1. Reap \/ UNCHANGED tasks
    BY <1>3 DEF LoopStep, WakeExpired, Dispatch, ClockWait, Launch, ResumeForeground
  <2> QED  BY <1>1, <2>1, PublishingMoves
<1>4. CASE Ask \/ EndTurn  BY <1>1, <1>4 DEF Ask, EndTurn
<1>5. CASE Discard  BY <1>5, DiscardMoves
<1>6. CASE Calls
  <2>1. CASE \E t \in Task : TaskSpawn(t) \/ TaskRetry(t)
    BY <2>1, SpawnMoves DEF TaskSpawn, TaskRetry
  <2>2. CASE \E t \in Task : TaskCancel(t)  BY <2>2, PublishingMoves
  <2>3. CASE \E t \in Task : OsKill(t) \/ OsSignal(t)
    BY <1>1, <2>3 DEF OsKill, OsSignal
  <2>4. CASE \E S \in Asks, policy \in Policies :
               TaskWait(S, policy) \/ TaskWaitFails(S, policy)
    BY <2>4, TaskWaitMoves, TaskWaitFailsMoves
  <2>5. CASE TaskStatus \/ TaskStatusFails  BY <2>5, TaskStatusMoves
  <2> QED  BY <1>6, <2>1, <2>2, <2>3, <2>4, <2>5 DEF Calls
<1>7. CASE \E p \in picked : DispatchFails(p)  BY <1>7, PublishingMoves
<1>8. CASE \E t \in Task : Finish(t) \/ Dies(t) \/ GrowsOld(t)
  <2>1. PICK t \in Task : Finish(t) \/ Dies(t) \/ GrowsOld(t)  BY <1>8
  <2>2. CASE Finish(t)  BY <2>2, PublishingMoves
  <2>3. CASE Dies(t) \/ GrowsOld(t)  BY <1>1, <2>3 DEF Dies, GrowsOld
  <2> QED  BY <2>1, <2>2, <2>3
<1>9. CASE \E x \in Key : Elapses(x)  BY <1>1, <1>9 DEF Elapses
<1> QED  BY <1>2, <1>3, <1>4, <1>5, <1>6, <1>7, <1>8, <1>9 DEF Next

-----------------------------------------------------------------------------
(* The invariant of one task.                                              *)

TaskInv(t) ==
  /\ pid[t] = None => /\ pipe[t].chan = "none" /\ pipe[t].queue = <<>>
                      /\ t \notin tracked /\ t \notin dropped /\ ledger[t] = NoStatus
  /\ ledger[t] # NoStatus => pipe[t].chan = "gone" /\ pipe[t].queue = <<>>
  /\ t \in tracked => t \notin dropped
  /\ t \in tracked /\ ledger[t] = NoStatus => HasChan(World, t) /\ pipe[t].futex # "gone"
  /\ HasChan(World, t) => t \in tracked \/ t \in dropped

PipeInv == DataTypes /\ tracked \subseteq Task /\ \A t \in Task : TaskInv(t)

LEMMA HasChanOf == \A t : HasChan(World, t) <=> pipe[t].chan \in {"open", "closed"}
BY DEF HasChan, World

LEMMA HasChanOfNext == \A t : HasChan(World, t)' <=> pipe'[t].chan \in {"open", "closed"}
BY DEF HasChan, World

LEMMA TaskInvStep ==
  ASSUME DataTypes, NEW t \in Task, TaskInv(t),
         Idles(t) \/ Spawns(t) \/ Collects(t) \/ Discards(t)
  PROVE  TaskInv(t)'
<1>1. CASE Idles(t)
  <2>1. /\ pid'[t] = pid[t] /\ ledger'[t] = ledger[t]
        /\ t \in tracked' <=> t \in tracked
        /\ t \in dropped' <=> t \in dropped
        /\ pipe'[t].chan = pipe[t].chan /\ (pipe[t].futex # "gone" => pipe'[t].futex # "gone")
        /\ pipe[t].chan # "open" => pipe'[t].queue = pipe[t].queue
    BY <1>1 DEF Idles, Published
  <2> QED  BY <2>1, HasChanOf, HasChanOfNext DEF TaskInv
<1>2. CASE Spawns(t)
  <2>1. /\ pid'[t] # None /\ ledger'[t] = NoStatus /\ t \in tracked' /\ t \notin dropped'
        /\ pipe'[t].chan = "open" /\ pipe'[t].futex = "zero"
    BY <1>2 DEF Spawns, TaskInv, NewPipe
  <2> QED  BY <2>1, HasChanOfNext DEF TaskInv
<1>3. CASE Collects(t)
  <2>1. /\ pid'[t] # None /\ ledger'[t] # NoStatus /\ t \notin dropped'
        /\ pipe'[t].chan = "gone" /\ pipe'[t].queue = <<>>
    BY <1>3 DEF Collects, TaskInv, Emptied, Status, NoStatus
  <2> QED  BY <2>1, HasChanOfNext DEF TaskInv
<1>4. CASE Discards(t)
  <2>1. /\ pid'[t] # None /\ ledger'[t] = ledger[t] /\ t \notin tracked' /\ t \in dropped'
        /\ pipe'[t].queue = pipe[t].queue
        /\ pipe[t].queue = <<>> => pipe'[t].chan = "gone"
    BY <1>4, ReleasedEffect DEF Discards, TaskInv, DataTypes, Pipes
  <2> QED  BY <2>1 DEF TaskInv
<1> QED  BY <1>1, <1>2, <1>3, <1>4

LEMMA TrackedStep ==
  ASSUME tracked \subseteq Task, [Next]_vars PROVE tracked' \subseteq Task
<1>1. CASE tracked' \subseteq tracked  BY <1>1
<1>2. CASE UNCHANGED vars  BY <1>2 DEF vars, tasks
<1>3. CASE LoopStep
  BY <1>1, <1>3 DEF LoopStep, Reap, WakeExpired, Dispatch, ClockWait, Launch,
     ResumeForeground, tasks
<1>4. CASE Ask \/ EndTurn \/ Discard  BY <1>1, <1>4 DEF Ask, EndTurn, Discard, tasks
<1>5. CASE Calls
  <2>1. CASE \E t \in Task : TaskSpawn(t) \/ TaskRetry(t)
    <3>1. \E t \in Task : tracked' = tracked \cup {t}
      BY <2>1 DEF TaskSpawn, TaskRetry, SpawnTask
    <3> QED  BY <3>1
  <2>2. CASE \E t \in Task : TaskCancel(t) \/ OsKill(t) \/ OsSignal(t)
    BY <1>1, <2>2 DEF TaskCancel, OsKill, OsSignal, tasks
  <2>3. CASE \E S \in Asks, policy \in Policies :
               TaskWait(S, policy) \/ TaskWaitFails(S, policy)
    <3>1. PICK S \in Asks, policy \in Policies :
            TaskWait(S, policy) \/ TaskWaitFails(S, policy)
      BY <2>3
    <3>2. tracked' \subseteq tracked  BY <3>1 DEF TaskWait, TaskWaitFails
    <3> QED  BY <1>1, <3>2
  <2>4. CASE TaskStatus \/ TaskStatusFails
    <3>1. tracked' \subseteq tracked  BY <2>4 DEF TaskStatus, TaskStatusFails
    <3> QED  BY <1>1, <3>1
  <2> QED  BY <1>5, <2>1, <2>2, <2>3, <2>4 DEF Calls
<1>6. CASE \E p \in picked : DispatchFails(p)  BY <1>1, <1>6 DEF DispatchFails
<1>7. CASE \E t \in Task : Finish(t) \/ Dies(t) \/ GrowsOld(t)
  BY <1>1, <1>7 DEF Finish, Dies, GrowsOld, tasks
<1>8. CASE \E x \in Key : Elapses(x)  BY <1>1, <1>8 DEF Elapses, tasks
<1> QED  BY <1>2, <1>3, <1>4, <1>5, <1>6, <1>7, <1>8 DEF Next

LEMMA PipeInvStep == PipeInv /\ [Next]_vars => PipeInv' /\ Moves
<1> SUFFICES ASSUME PipeInv, [Next]_vars PROVE PipeInv' /\ Moves  OBVIOUS
<1>1. DataTypes' /\ Moves  BY StepMoves DEF PipeInv
<1>2. \A t \in Task : TaskInv(t)'  BY <1>1, TaskInvStep DEF PipeInv, Moves
<1>3. tracked' \subseteq Task  BY TrackedStep DEF PipeInv
<1> QED  BY <1>1, <1>2, <1>3 DEF PipeInv

LEMMA PipeInit == Init => PipeInv
<1> SUFFICES ASSUME Init PROVE PipeInv  OBVIOUS
<1>1. NoPipe \in PipeRecord  BY DEF NoPipe, PipeRecord, Queue
<1>2. DataTypes  BY <1>1 DEF Init, DataTypes, Pipes
<1>3. ASSUME NEW t \in Task PROVE TaskInv(t)
  <2>1. pipe[t].chan = "none" /\ pipe[t].queue = <<>>  BY DEF Init, NoPipe
  <2>2. pid[t] = None /\ ledger[t] = NoStatus /\ tracked = {} /\ dropped = {}  BY DEF Init
  <2> QED  BY <2>1, <2>2, HasChanOf DEF TaskInv
<1>4. tracked \subseteq Task  BY DEF Init
<1> QED  BY <1>2, <1>3, <1>4 DEF PipeInv

LEMMA PipeInvariant == Spec => []PipeInv
BY PipeInit, PipeInvStep, PTL DEF Spec

\* A tracked task whose result is not in the ledger has its channel and futex, whatever
\* was cancelled, reaped or failed half-way through a scan.
THEOREM UncollectedCorrect == Spec => []UncollectedHasPipe
<1>1. PipeInv => UncollectedHasPipe  BY DEF PipeInv, TaskInv, UncollectedHasPipe
<1> QED  BY <1>1, PipeInvariant, PTL

\* A channel belongs to a task that can still be collected, or was of a deleted session.
THEOREM PipeTrackedCorrect == Spec => []PipeIsTracked
<1>1. PipeInv => PipeIsTracked  BY DEF PipeInv, TaskInv, PipeIsTracked
<1> QED  BY <1>1, PipeInvariant, PTL

-----------------------------------------------------------------------------
(* The refinement.                                                         *)

LEMMA RefinesInit == Init => Contract!Init
<1> SUFFICES ASSUME Init PROVE Contract!Init  OBVIOUS
<1>1. ASSUME NEW t \in Task PROVE PhaseOf(t) = "new" /\ ResultOf(t) = NoStatus
  <2>1. pid[t] = None /\ ledger[t] = NoStatus /\ dropped = {} /\ pipe[t].queue = <<>>
    BY DEF Init, NoPipe
  <2> QED  BY <2>1 DEF PhaseOf, ResultOf
<1> QED  BY <1>1 DEF Contract!Init

\* The contract's moves, of the phase and the result of one task.
Keeps(t)   == PhaseOf(t)' = PhaseOf(t) /\ ResultOf(t)' = ResultOf(t)
Begins(t)  == PhaseOf(t) = "new" /\ PhaseOf(t)' = "running" /\ ResultOf(t)' = NoStatus
Decides(t) == PhaseOf(t) = "running" /\ PhaseOf(t)' = "ended" /\ ResultOf(t)' \in Status
Hands(t) ==
  /\ PhaseOf(t)' = "delivered"
  /\ \/ PhaseOf(t) = "ended" /\ ResultOf(t)' = ResultOf(t)
     \/ PhaseOf(t) = "running" /\ ResultOf(t)' \in Status
Drops(t) ==
  PhaseOf(t) \in {"running", "ended"} /\ PhaseOf(t)' = "discarded" /\ ResultOf(t)' = NoStatus

LEMMA MovesRefine ==
  ASSUME DataTypes, DataTypes', NEW t \in Task, TaskInv(t),
         Idles(t) \/ Spawns(t) \/ Collects(t) \/ Discards(t)
  PROVE  Keeps(t) \/ Begins(t) \/ Decides(t) \/ Hands(t) \/ Drops(t)
<1>0. /\ pipe[t].queue \in Queue /\ pipe'[t].queue \in Queue
      /\ \A s \in Status : Head(<<s>>) = s
  BY DEF DataTypes, Pipes, PipeRecord
<1>1. CASE Idles(t)
  <2>1. /\ pid'[t] = pid[t] /\ ledger'[t] = ledger[t]
        /\ t \in dropped' <=> t \in dropped
        /\ \/ pipe'[t].queue = pipe[t].queue
           \/ pipe[t].chan = "open" /\ pipe[t].queue = <<>> /\ pipe'[t].queue # <<>>
    BY <1>1 DEF Idles, Published
  <2>2. CASE pipe'[t].queue = pipe[t].queue
    BY <2>1, <2>2 DEF Keeps, PhaseOf, ResultOf
  <2>3. CASE ledger[t] # NoStatus \/ t \in dropped
    BY <2>1, <2>3 DEF Keeps, PhaseOf, ResultOf
  <2>4. CASE /\ pipe[t].chan = "open" /\ pipe[t].queue = <<>> /\ pipe'[t].queue # <<>>
             /\ ledger[t] = NoStatus /\ t \notin dropped
    <3>1. pid[t] # None  BY <2>4 DEF TaskInv
    <3>2. Head(pipe'[t].queue) \in Status  BY <1>0, <2>4 DEF Queue
    <3> QED  BY <2>1, <2>4, <3>1, <3>2 DEF Decides, PhaseOf, ResultOf
  <2> QED  BY <2>1, <2>2, <2>3, <2>4
<1>2. CASE Spawns(t)
  <2>1. /\ pid[t] = None /\ pid'[t] # None /\ ledger[t] = NoStatus /\ ledger'[t] = NoStatus
        /\ t \notin dropped /\ t \notin dropped' /\ pipe'[t].queue = <<>>
    BY <1>2 DEF Spawns, TaskInv, NewPipe
  <2> QED  BY <2>1 DEF Begins, PhaseOf, ResultOf
<1>3. CASE Collects(t)
  <2>1. /\ ledger'[t] \in Status /\ ledger'[t] # NoStatus /\ ledger[t] = NoStatus
        /\ t \notin dropped /\ pid[t] # None
        /\ pipe[t].queue # <<>> => ledger'[t] = Head(pipe[t].queue)
    BY <1>3, HasChanOf DEF Collects, TaskInv, Status, NoStatus
  <2> QED  BY <2>1 DEF Hands, PhaseOf, ResultOf
<1>4. CASE Discards(t)
  <2>1. /\ ledger'[t] = ledger[t] /\ t \notin dropped /\ t \in dropped' /\ pid[t] # None
    BY <1>4 DEF Discards, TaskInv
  <2>2. CASE ledger[t] # NoStatus  BY <2>1, <2>2 DEF Keeps, PhaseOf, ResultOf
  <2>3. CASE ledger[t] = NoStatus  BY <2>1, <2>3 DEF Drops, PhaseOf, ResultOf
  <2> QED  BY <2>2, <2>3
<1> QED  BY <1>1, <1>2, <1>3, <1>4

LEMMA RefinesNext == PipeInv /\ [Next]_vars => Contract!Next
<1> SUFFICES ASSUME PipeInv, [Next]_vars PROVE Contract!Next  OBVIOUS
<1>1. PipeInv' /\ Moves  BY PipeInvStep
<1>2. \A t \in Task : Keeps(t) \/ Begins(t) \/ Decides(t) \/ Hands(t) \/ Drops(t)
  BY <1>1, MovesRefine DEF PipeInv, Moves
<1>3. ASSUME NEW t \in Task PROVE Contract!Moves(t)
  BY <1>2 DEF Contract!Moves, Contract!Stays, Contract!Starts, Contract!Ends,
     Contract!Delivered, Contract!Discarded, Keeps, Begins, Decides, Hands, Drops
<1> QED  BY <1>3 DEF Contract!Next

\* The task protocol of task_tools.rs implements TaskContract: the result of a task is
\* decided once, what is delivered is what was decided, and it is delivered once.
THEOREM ImplementsContract == Spec => Implements
<1>1. Init => Contract!Init  BY RefinesInit
<1>2. PipeInv /\ [Next]_vars => [Contract!Next]_Contract!vars  BY RefinesNext
<1> QED  BY <1>1, <1>2, PipeInvariant, PTL DEF Spec, Implements, Contract!Spec

=============================================================================
