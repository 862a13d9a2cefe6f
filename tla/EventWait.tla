------------------------------ MODULE EventWait ------------------------------
(***************************************************************************)
(* Processes that wait for kernel events while others send, close, store,  *)
(* destroy and complete: the system calls of EventTable, each under the    *)
(* kernel mutex, in every order.  A process makes calls while it runs; a   *)
(* process that was woken runs again when the scheduler picks it.          *)
(*                                                                         *)
(* The driver parks through epoll_wait_many, which takes a snapshot of the *)
(* sources first; the kernel also offers wait_on_events itself.            *)
(***************************************************************************)
EXTENDS EventTable

CONSTANTS Policies,  \* the wait policies given to epoll_wait_many
          RawPolicies, \* and those given to wait_on_events itself
          Naps,      \* timeouts in ticks a caller may give, None for no timeout
          MaxHeld    \* a holder references a channel at most so many times

ASSUME WaitAssumption == /\ Policies \cup RawPolicies \subseteq Policy
                         /\ Naps \subseteq Nat
                         /\ MaxHeld \in Nat

VARIABLES e,      \* the kernel
          parked  \* history: what a waiting process gave to wait_many, the
                  \* events that were completed since, and whether one it
                  \* waits for was pruned
vars == <<e, parked>>

Nothing == [srcs |-> {}, policy |-> "Any", seen |-> {}, lost |-> FALSE]

Init == e = EmptyTable /\ parked = [p \in Proc |-> Nothing]

\* Bound: an operation that rotates an event may allocate one.
Fits == e.next <= MaxEvent

Who == Proc \cup {None}   \* None: the runtime itself

Running(p) == e.st[p] = "running"

\* The history of a process that waits no more is dropped.
Kept(p) == IF e'.st[p] = "waiting"
           THEN [parked[p] EXCEPT !.seen = @ \cup (e'.done \ e.done),
                                  !.lost = @ \/ e.wait[p].ids \cap (e.done \ e'.done) # {}]
           ELSE Nothing
Forget  == parked' = [p \in Proc |-> Kept(p)]

\* p has asked for srcs; it is parked if e' says so.
Parks(p, srcs, policy) ==
  parked' = [q \in Proc |-> IF q = p /\ e'.st[p] = "waiting"
                            THEN [Nothing EXCEPT !.srcs = srcs, !.policy = policy]
                            ELSE Kept(q)]

-----------------------------------------------------------------------------
\* The scheduler resumes a process that is Ready.
Resume(p) == /\ e.st[p] = "ready"
             /\ e' = [e EXCEPT !.st[p] = "running"]
             /\ Forget

Open(c, p, hs) == /\ e.chan[c].phase = "new" /\ Fits
                  /\ e' = ChanCreate(e, c, p, hs)
                  /\ Forget

Send(c, who, m) == /\ CanSend(e, c, who) /\ Fits
                   /\ e' = ChanSend(e, c, who, m)
                   /\ Forget

Receive(c, who) == /\ HasChan(e, c) /\ e.chan[c].queue # <<>>
                   /\ MayReceive(e, c, who)
                   /\ e' \in {ChanRecv(e, c), ChanRecvAll(e, c)}
                   /\ Forget

\* Bound: MaxHeld references of each holder.
Retain(c, h) == /\ HasChan(e, c) /\ e.chan[c].held[h] < MaxHeld
                /\ e' = ChanRetain(e, c, h)
                /\ Forget

Release(c, h) == /\ HasChan(e, c) /\ e.chan[c].held[h] > 0
                 /\ e' = ChanRelease(e, c, h)
                 /\ Forget

Close(c, who) == /\ HasChan(e, c) /\ MayReceive(e, c, who) /\ Fits
                 /\ e' = ChanClose(e, c, who)
                 /\ Forget

\* channel_destroy by one caller, channel_gc_closed_empty by the runtime.
Destroy(c, who) == /\ GcEligible(e, c) /\ MayReceive(e, c, who)
                   /\ e' = ChanDestroy(e, c, who)
                   /\ Forget

Make(f) == /\ e.futex[f].phase = "new" /\ Fits
           /\ e' = FutexCreate(e, f)
           /\ Forget

Store(f, v) == /\ HasFutex(e, f) /\ Fits
               /\ e' = FutexStore(e, f, v)
               /\ Forget

Unmake(f) == /\ HasFutex(e, f)
             /\ e' = FutexDestroy(e, f)
             /\ Forget

\* An event of the world outside the kernel.
Complete(ev) == /\ e' = Notify(e, ev)
                /\ Forget

\* epoll_wait_many; a process parks on at most two sources.
Park(p, srcs, policy, ticks) ==
  /\ Running(p)
  /\ \A s \in srcs : Exists(e, s)
  /\ e.tick + ticks <= MaxTick
  /\ e' = WaitMany(e, p, srcs, policy, ticks)
  /\ Parks(p, srcs, policy)

\* wait_on_events without a look at the objects the events belong to, of at most
\* two events.
RawWait(p, ids, policy) ==
  /\ Running(p)
  /\ e' = WaitOnEvents(e, p, ids, policy, None)
  /\ Parks(p, {<<"event", ev, 0>> : ev \in ids}, policy)

\* Bound: MaxTick ticks.
Tick == /\ e.tick < MaxTick
        /\ e' = AdvanceTicks(e)
        /\ Forget

\* The wall clock budget of task_wait ran out.
WallClock(p) == /\ e.st[p] = "waiting"
                /\ e' = WakeProcess(e, p)
                /\ Forget

Stop(p) == /\ e.st[p] \in {"running", "ready", "waiting"}
           /\ e' = Leave(e, p, "stopped")
           /\ Forget

Cont(p) == /\ e.st[p] = "stopped"
           /\ e' = Leave(e, p, "ready")
           /\ Forget

Kill(p) == /\ e.st[p] # "terminated"
           /\ e' = Leave(e, p, "terminated")
           /\ Forget

Interesting == {s \in Source : s[1] = "event" => s[2] \in Outside}

\* The events somebody may know of.
Known == {ev \in Event : ev \in Outside \/ e.refs[ev] > 0}

Objects == \/ \E c \in Chan, p \in Proc : Open(c, p, Holder)
           \/ \E c \in Chan, w \in Who :
                \/ \E m \in Msg : Send(c, w, m)
                \/ Receive(c, w)
                \/ Close(c, w)
                \/ Destroy(c, w)
           \/ \E c \in Chan, h \in Holder : Retain(c, h) \/ Release(c, h)
           \/ \E f \in Futex : Make(f) \/ Unmake(f) \/ \E v \in {0, 1} : Store(f, v)

Processes == \/ \E p \in Proc : \/ Resume(p) \/ WallClock(p)
                                \/ Stop(p) \/ Cont(p) \/ Kill(p)
             \/ \E p \in Proc, s, t \in Interesting, pol \in Policies, n \in Naps :
                  Park(p, {s, t}, pol, n)
             \/ \E p \in Proc, ev, ew \in Known, pol \in RawPolicies :
                  RawWait(p, {ev, ew}, pol)
             \/ \E ev \in Outside : Complete(ev)
             \/ Tick

Next == Objects \/ Processes
Spec == Init /\ [][Next]_vars

-----------------------------------------------------------------------------
(* Properties.                                                             *)

\* The table and the history are well formed.
TypeOK == /\ e \in Table
          /\ parked \in [Proc -> [srcs : SUBSET Source, policy : Policy,
                                 seen : SUBSET Event, lost : BOOLEAN]]

\* No wake-up is lost (wait_on_events, notify_events_completed, channel_send,
\* channel_close, complete_futex_event, futex_destroy): while a process sleeps
\* until any of its sources is ready, none is -- however they changed, were
\* drained, reset or destroyed since it looked at them.
NoMissedSource ==
  \A p \in Proc : e.st[p] = "waiting" /\ parked[p].policy = "Any" =>
    ~IsReady(e, parked[p].srcs, "Any")

\* A wait ends when its condition holds, also one for all of several events that
\* complete in any order: nobody waits although its condition holds, provided that
\* no completed event it waits for was pruned meanwhile.
RememberedWaitsEnd ==
  \A p \in Proc : e.st[p] = "waiting" /\ ~parked[p].lost =>
    ~Satisfied(e, e.wait[p].ids, e.wait[p].policy)

\* local.rs:1744: to take all waiters of a completed event out of the index is safe,
\* as completed_events remembers it for them: no process waits while one of its
\* events, or all of them, have been completed since it parked.
WaitIsHonoured ==
  \A p \in Proc : e.st[p] = "waiting" =>
    IF e.wait[p].policy = "Any" THEN e.wait[p].ids \cap parked[p].seen = {}
    ELSE ~(e.wait[p].ids \subseteq parked[p].seen)

\* event_source_refs is exact and rotation is complete: a live channel or futex
\* has an event of its own, referenced once and not completed yet, and no event
\* is referenced that no live object owns (or it could never be pruned).
Owners(ev) == {<<"chan", c>> : c \in {c \in Chan : e.chan[c].ev = ev}}
                \cup {<<"futex", f>> : f \in {f \in Futex : e.futex[f].ev = ev}}
SourcesOwnEvents ==
  /\ \A ev \in Event : e.refs[ev] = Cardinality(Owners(ev))
  /\ \A ev \in Event : e.refs[ev] > 0 => ev \notin e.done /\ e.refs[ev] = 1
  /\ \A c \in Chan : HasChan(e, c) <=> e.chan[c].ev # None
  /\ \A f \in Futex : HasFutex(e, f) <=> e.futex[f].ev # None

\* A wait with a timeout has its entry in wakeup_heap, so it ends by itself;
\* none is overdue, and stale entries of earlier waits end no other wait early.
TimeoutsArmed ==
  \A p \in Proc : e.st[p] = "waiting" /\ e.wait[p].due # None =>
    e.wait[p].due > e.tick /\ <<e.wait[p].due, p>> \in e.heap

\* Retention is bounded: when the log changes, whatever is in it beyond the
\* newest Retention entries is an event somebody waits for or an object owns.
RetentionBounded ==
  [][e'.order # e.order =>
       \A i \in 1..(Len(e'.order) - Retention) : Live(e, e'.order[i])]_e

\* ref_count is the number of references the named holders have, and a channel
\* somebody holds is not destroyed.
References(held) == UNION {{h} \X (1..held[h]) : h \in Holder}
HeldCount(c) == Cardinality(References(e.chan[c].held))
HoldersCounted == \A c \in Chan : /\ e.chan[c].ref = HeldCount(c)
                                  /\ e.chan[c].phase = "gone" => HeldCount(c) = 0
=============================================================================
