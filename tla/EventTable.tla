----------------------------- MODULE EventTable -----------------------------
(***************************************************************************)
(* The event half of the AIOS kernel (`LocalOS' in                         *)
(* crates/aios_kernel/src/local.rs): completed events and their retention, *)
(* the reverse index of event waiters, the reference counts of the objects *)
(* an event comes from, and those objects: IPC channels and futexes.       *)
(*                                                                         *)
(* As in ProcTable, the kernel is one value behind one mutex: a state is   *)
(* the record e, every method is an operator from e to the next e.  Of a   *)
(* process only what an event wait depends on is kept; the rest of its     *)
(* life is in ProcTable and AgentSched.                                    *)
(*                                                                         *)
(* Channels and futexes are slots that are used once, as their ids are     *)
(* never reused.  A channel's messages are members of Msg.                 *)
(***************************************************************************)
EXTENDS Integers, SequencesExt

CONSTANTS Proc,      \* pids, positive
          Kin,       \* pairs {p, q} of one group, or one an ancestor of or sibling to the other
          Chan, Futex, Holder, Msg,
          Outside,   \* event ids that no kernel object owns
          MaxEvent,  \* ids 1..MaxEvent may be allocated for kernel objects
          MaxTick,   \* scheduler ticks 0..MaxTick
          Capacity,  \* capacity of every channel
          Retention  \* completed_event_retention

ASSUME EventAssumption == /\ Proc \subseteq Nat \ {0}
                          /\ Kin \subseteq SUBSET Proc
                          /\ MaxEvent \in Nat
                          /\ MaxTick \in Nat
                          /\ Outside \subseteq Nat \ (0..MaxEvent)
                          /\ Capacity \in Nat \ {0}
                          /\ Retention \in Nat \ {0}
                          /\ IsFiniteSet(Holder)

None  == 0                        \* Option::None for a pid, a tick or an event
Event == 1..MaxEvent \cup Outside

Policy == {"Any", "All"}
NoWait == [ids |-> {}, policy |-> "Any", due |-> None]

Table ==
  [ st      : [Proc -> {"running", "ready", "waiting", "stopped", "terminated"}],
    wait    : [Proc -> [ids : SUBSET Event, policy : Policy, due : Nat]],
                                        \* WaitReason::Events, of a waiting process
    done    : SUBSET Event,             \* completed_events
    order   : Seq(Event),               \* completed_event_order
    waiters : [Event -> SUBSET Proc],   \* event_waiters
    refs    : [Event -> Nat],           \* event_source_refs
    heap    : SUBSET (Nat \X Proc),     \* wakeup_heap
    tick    : Nat,
    next    : Nat,                      \* next_internal_event_id
    chan    : [Chan -> [phase : {"new", "open", "closed", "gone"},
                        owner : Proc \cup {None}, ev : Event \cup {None},
                        queue : BoundedSeq(Msg, Capacity), ref : Nat, held : [Holder -> Nat]]],
    futex   : [Futex -> [phase : {"new", "live", "gone"},
                         ev : Event \cup {None}, val : Nat]] ]

EmptyTable ==
  [ st |-> [p \in Proc |-> "running"], wait |-> [p \in Proc |-> NoWait],
    done |-> {}, order |-> <<>>,
    waiters |-> [ev \in Event |-> {}], refs |-> [ev \in Event |-> 0],
    heap |-> {}, tick |-> 0, next |-> 1,
    chan |-> [c \in Chan |-> [phase |-> "new", owner |-> None, ev |-> None,
                              queue |-> <<>>, ref |-> 0,
                              held |-> [h \in Holder |-> 0]]],
    futex |-> [f \in Futex |-> [phase |-> "new", ev |-> None, val |-> 0]] ]

HasChan(e, c)  == e.chan[c].phase \in {"open", "closed"}
HasFutex(e, f) == e.futex[f].phase = "live"

-----------------------------------------------------------------------------
(* Completed events.  At most Retention of them are remembered, not        *)
(* counting those somebody waits for or a kernel object still owns.        *)

\* completed_event_is_live
Live(e, ev) == e.waiters[ev] # {} \/ e.refs[ev] > 0

\* The live ones of the first n entries of the log, in their order.
Survivors(e, n) ==
  LET kept[i \in 0..n] == IF i = 0 THEN <<>>
                          ELSE IF Live(e, e.order[i]) THEN Append(kept[i - 1], e.order[i])
                          ELSE kept[i - 1]
  IN  kept[n]

\* prune_completed_events: of the entries in excess, the oldest ones, those that
\* are live go back to the front.
Prune(e) ==
  LET excess == Len(e.order) - Retention
      dead   == {ev \in Event : ~Live(e, ev) /\ \E i \in 1..excess : e.order[i] = ev}
  IN  IF excess <= 0 THEN e
      ELSE [e EXCEPT !.done  = @ \ dead,
                     !.order = Survivors(e, excess) \o SubSeq(@, excess + 1, Len(@))]

\* Mutant: the log is not pruned.
RememberAll(e, ev) ==
  IF ev \in e.done THEN e
  ELSE [e EXCEPT !.done = @ \cup {ev}, !.order = Append(@, ev)]

\* remember_completed_event
Remember(e, ev) ==
  Prune(IF ev \in e.done THEN e
        ELSE [e EXCEPT !.done = @ \cup {ev}, !.order = Append(@, ev)])

\* event_wait_is_satisfied
Satisfied(e, ids, policy) ==
  IF policy = "Any" THEN ids \cap e.done # {} ELSE ids \subseteq e.done

\* The processes of W leave their wait and become Ready.
Awake(e, W) ==
  [e EXCEPT !.st   = [p \in Proc |-> IF p \in W THEN "ready" ELSE e.st[p]],
            !.wait = [p \in Proc |-> IF p \in W THEN NoWait ELSE e.wait[p]]]

\* Mutant: the waiters are looked for after the index was cleared.
NotifyForgets(e, ev) == [Remember(e, ev) EXCEPT !.waiters[ev] = {}]

\* notify_events_completed for one event, as every caller in the kernel does.
\* The waiters it takes out of the index are not put back when their condition
\* does not hold yet.
Notify(e, ev) ==
  LET r == Remember(e, ev)
      woken == {p \in e.waiters[ev] :
                  /\ e.st[p] = "waiting"
                  /\ Satisfied(r, e.wait[p].ids, e.wait[p].policy)}
  IN  Awake([r EXCEPT !.waiters[ev] = {}], woken)

\* Mutant: the timeout is recorded in the process but not armed.
WaitOnEventsUnarmed(e, p, ids, policy, ticks) ==
  LET due == IF ticks = None THEN None ELSE e.tick + ticks
  IN  IF Satisfied(e, ids, policy) THEN e
      ELSE [e EXCEPT !.st[p] = "waiting",
                     !.wait[p] = [ids |-> ids, policy |-> policy, due |-> due],
                     !.waiters = [ev \in Event |->
                                    IF ev \in ids THEN e.waiters[ev] \cup {p}
                                    ELSE e.waiters[ev]]]

\* wait_on_events: a condition that holds already does not park the caller.
WaitOnEvents(e, p, ids, policy, ticks) ==
  LET due == IF ticks = None THEN None ELSE e.tick + ticks
  IN  IF Satisfied(e, ids, policy) THEN e
      ELSE [e EXCEPT !.st[p] = "waiting",
                     !.wait[p] = [ids |-> ids, policy |-> policy, due |-> due],
                     !.heap = IF due = None THEN @ ELSE @ \cup {<<due, p>>},
                     !.waiters = [ev \in Event |->
                                    IF ev \in ids THEN e.waiters[ev] \cup {p}
                                    ELSE e.waiters[ev]]]

\* advance_ticks, for event waits: an entry that is due wakes the process whose
\* present wait it belongs to, any other is stale and dropped.
AdvanceTicks(e) ==
  LET t   == e.tick + 1
      due == {x \in e.heap : x[1] <= t}
  IN  [Awake(e, {p \in Proc : /\ e.st[p] = "waiting"
                              /\ <<e.wait[p].due, p>> \in due})
         EXCEPT !.tick = t, !.heap = @ \ due]

\* wake_process, of a process in an event wait.
WakeProcess(e, p) == IF e.st[p] = "waiting" THEN Awake(e, {p}) ELSE e

\* A process leaves its wait by a signal (SIGSTOP) or for good (SIGKILL,
\* kill_process, terminate_current): the index and the heap keep its entries.
Leave(e, p, state) == [Awake(e, {p}) EXCEPT !.st[p] = state]

-----------------------------------------------------------------------------
(* The objects events come from.                                           *)

\* complete_futex_event with rotate, and the end of channel_send and
\* channel_close: the event of the object is completed, released, and replaced
\* by a new one.
Rotated(e, ev) ==
  LET n == Notify(e, ev)
  IN  [n EXCEPT !.refs = [n.refs EXCEPT ![ev] = IF @ = 0 THEN 0 ELSE @ - 1,
                                        ![n.next] = @ + 1],
                !.next = @ + 1]

\* dec_event_source_ref
Unref(e, ev) == [e EXCEPT !.refs[ev] = IF @ = 0 THEN 0 ELSE @ - 1]

\* channel_create_tagged_with_holders
ChanCreate(e, c, owner, holders) ==
  [e EXCEPT !.chan[c] = [phase |-> "open", owner |-> owner, ev |-> e.next,
                         queue |-> <<>>, ref |-> Cardinality(holders),
                         held |-> [h \in Holder |-> IF h \in holders THEN 1 ELSE 0]],
            !.refs[e.next] = @ + 1,
            !.next = @ + 1]

\* channel_allows_sender, channel_allows_receiver; channel_can_manage is the
\* same test as the second.
MaySend(e, c, who) ==
  None \in {e.chan[c].owner, who} \/ e.chan[c].owner = who
    \/ {who, e.chan[c].owner} \in Kin
MayReceive(e, c, who) == None \in {e.chan[c].owner, who} \/ e.chan[c].owner = who

\* The event of a channel is completed when it stops being empty and open.
ChanEvent(e, c) ==
  [Rotated(e, e.chan[c].ev) EXCEPT !.chan[c].ev = e.next]

\* Mutant: the capacity is not looked at.
CanSendFull(e, c, who) == e.chan[c].phase = "open" /\ MaySend(e, c, who)

\* channel_send
CanSend(e, c, who) == /\ e.chan[c].phase = "open"
                      /\ MaySend(e, c, who)
                      /\ Len(e.chan[c].queue) < Capacity
ChanSend(e, c, who, m) ==
  LET put == [e EXCEPT !.chan[c].queue = Append(@, m)]
  IN  IF ~CanSend(e, c, who) THEN e
      ELSE IF e.chan[c].queue = <<>> THEN ChanEvent(put, c) ELSE put

\* channel_try_recv with a message in the queue; channel_try_recv_all
ChanRecv(e, c)    == [e EXCEPT !.chan[c].queue = Tail(@)]
ChanRecvAll(e, c) == [e EXCEPT !.chan[c].queue = <<>>]

\* Mutant: the named holder is dropped, the count is not.
ChanReleaseNameOnly(e, c, h) ==
  IF ~HasChan(e, c) \/ e.chan[c].held[h] = 0 THEN e
  ELSE [e EXCEPT !.chan[c].held[h] = @ - 1]

\* channel_retain_named, channel_release_named
ChanRetain(e, c, h) ==
  [e EXCEPT !.chan[c] = [e.chan[c] EXCEPT !.ref = @ + 1, !.held[h] = @ + 1]]
ChanRelease(e, c, h) ==
  IF ~HasChan(e, c) \/ e.chan[c].held[h] = 0 THEN e
  ELSE [e EXCEPT !.chan[c] = [e.chan[c] EXCEPT !.ref = @ - 1, !.held[h] = @ - 1]]

\* Mutant: a close tells nobody.
ChanCloseSilent(e, c, who) ==
  IF ~(HasChan(e, c) /\ MayReceive(e, c, who)) THEN e
  ELSE [e EXCEPT !.chan[c].phase = "closed"]

\* channel_close
ChanClose(e, c, who) ==
  LET shut == [e EXCEPT !.chan[c].phase = "closed"]
  IN  IF ~(HasChan(e, c) /\ MayReceive(e, c, who)) THEN e
      ELSE IF e.chan[c].phase = "open" /\ e.chan[c].queue = <<>>
      THEN ChanEvent(shut, c) ELSE shut

\* channel_is_gc_eligible, channel_destroy, channel_gc_closed_empty
GcEligible(e, c) == /\ e.chan[c].phase = "closed"
                    /\ e.chan[c].queue = <<>>
                    /\ e.chan[c].ref = 0

\* Mutant: the event of a destroyed channel stays referenced.
ChanRemoveLeaks(e, c) == [e EXCEPT !.chan[c].phase = "gone", !.chan[c].ev = None]

ChanRemove(e, c) == [Unref(e, e.chan[c].ev) EXCEPT !.chan[c].phase = "gone",
                                                   !.chan[c].ev = None]
ChanDestroy(e, c, who) ==
  IF GcEligible(e, c) /\ MayReceive(e, c, who) THEN ChanRemove(e, c) ELSE e

\* futex_create
FutexCreate(e, f) ==
  [e EXCEPT !.futex[f] = [phase |-> "live", ev |-> e.next, val |-> 0],
            !.refs[e.next] = @ + 1,
            !.next = @ + 1]

\* futex_store; futex_cas and futex_fetch_add that change the value do the same.
FutexStore(e, f, v) ==
  IF ~HasFutex(e, f) \/ e.futex[f].val = v THEN e
  ELSE [Rotated(e, e.futex[f].ev) EXCEPT !.futex[f].val = v,
                                         !.futex[f].ev = e.next]

\* futex_destroy
FutexDestroy(e, f) ==
  IF ~HasFutex(e, f) THEN e
  ELSE [Notify(Unref(e, e.futex[f].ev), e.futex[f].ev)
          EXCEPT !.futex[f].phase = "gone", !.futex[f].ev = None]

-----------------------------------------------------------------------------
(* Waiting for several objects at once: epoll_wait_many of task_tools.rs,  *)
(* with the epoll it creates, fills, asks and destroys under one lock.  A  *)
(* source is <<"chan", c, 0>>, <<"futex", f, expected>> or                 *)
(* <<"event", ev, 0>>.                                                     *)

Source == ({"chan"} \X Chan \X {0}) \cup ({"futex"} \X Futex \X {0, 1})
            \cup ({"event"} \X Event \X {0})

Exists(e, s) == CASE s[1] = "chan"  -> HasChan(e, s[2])
                  [] s[1] = "futex" -> HasFutex(e, s[2])
                  [] OTHER          -> TRUE

\* epoll_actual_events_for_source: readable, hung up, or gone.
SourceReady(e, s) ==
  CASE s[1] = "chan"  -> e.chan[s[2]].phase # "open" \/ e.chan[s[2]].queue # <<>>
    [] s[1] = "futex" -> ~HasFutex(e, s[2]) \/ e.futex[s[2]].val # s[3]
    [] OTHER          -> s[2] \in e.done

EventOf(e, s) == CASE s[1] = "chan"  -> e.chan[s[2]].ev
                   [] s[1] = "futex" -> e.futex[s[2]].ev
                   [] OTHER          -> s[2]

\* wait_many_snapshot
Pending(e, srcs) == {s \in srcs : ~SourceReady(e, s)}
IsReady(e, srcs, policy) ==
  IF policy = "Any" THEN Pending(e, srcs) # srcs ELSE Pending(e, srcs) = {}

WaitMany(e, p, srcs, policy, ticks) ==
  IF IsReady(e, srcs, policy) \/ \E s \in srcs : ~Exists(e, s) THEN e
  ELSE WaitOnEvents(e, p, {EventOf(e, s) : s \in Pending(e, srcs)}, policy, ticks)

=============================================================================
