-------------------------- MODULE EventWait_proofs --------------------------
(***************************************************************************)
(* Theorems of EventWait, for any number of processes, channels, futexes,  *)
(* events and ticks.  The kernel is one record, so the proofs go in layers:*)
(*                                                                         *)
(*   the methods      what Remember, Notify, Rotated, WaitOnEvents do to   *)
(*                    the fields of the table (Told, Slept, Hushed);       *)
(*   the invariants   Alert, Watches, Armed, Living and Owned, predicates  *)
(*                    of a table and of the history, and what keeps each;  *)
(*   the objects      one channel or one futex moves (ChanMoves,           *)
(*                    FutexMoves), or none does (ObjectsStay);             *)
(*   the actions      one lemma each, then the induction and the theorems; *)
(*   the log and the references, apart (Tidy): what Survivors returns is   *)
(*                    proved by induction along the log, and a channel     *)
(*                    counts the set of the references of its holders.     *)
(*                                                                         *)
(* The properties are not inductive.  That no ready source is slept on     *)
(* needs that the sleeper waits for the PRESENT event of each of its       *)
(* sources and is in the index of that event (Watches, Alert), and that    *)
(* no two objects share an event, or that an event is completed before it  *)
(* is handed out (Owned).                                                  *)
(***************************************************************************)
EXTENDS EventWait, FiniteSetTheorems, WellFoundedInduction, TLAPS

PState == {"running", "ready", "waiting", "stopped", "terminated"}

\* The part of Table the first invariant needs: nothing about the log and the counts of
\* holders, which Tidy adds.
Shape(s) ==
  s \in [ st      : [Proc -> PState],
          wait    : [Proc -> [ids : SUBSET Event, policy : Policy, due : Nat]],
          done    : SUBSET Event,
          order   : {s.order},
          waiters : [Event -> SUBSET Proc],
          refs    : [Event -> Nat],
          heap    : SUBSET (Nat \X Proc),
          tick    : Nat,
          next    : Nat,
          chan    : [Chan -> [phase : {"new", "open", "closed", "gone"},
                              owner : Proc \cup {None}, ev : Event \cup {None},
                              queue : Seq(Msg), ref : Int, held : [Holder -> Int]]],
          futex   : [Futex -> [phase : {"new", "live", "gone"},
                               ev : Event \cup {None}, val : Nat]] ]

LEMMA PruneFields ==
  ASSUME NEW s, Shape(s)
  PROVE  \E D, O : /\ Prune(s) = [s EXCEPT !.done = D, !.order = O]
                   /\ D \subseteq s.done
                   /\ \A ev \in s.done : Live(s, ev) => ev \in D
<1> DEFINE excess == Len(s.order) - Retention
           X == {ev \in Event : ~Live(s, ev) /\ \E i \in 1..excess : s.order[i] = ev}
           Y == Survivors(s, excess) \o SubSeq(s.order, excess + 1, Len(s.order))
<1>1. CASE excess <= 0
  <2>1. Prune(s) = s
    BY <1>1 DEF Prune
  <2>2. s = [s EXCEPT !.done = s.done, !.order = s.order]
    BY DEF Shape
  <2> QED BY <2>1, <2>2
<1>2. CASE ~(excess <= 0)
  <2>1. Prune(s) = [s EXCEPT !.done = s.done \ X, !.order = Y]
    BY <1>2, Zenon DEF Prune
  <2>2. \A ev \in s.done : Live(s, ev) => ev \in s.done \ X
    OBVIOUS
  <2> HIDE DEF X, Y
  <2> QED BY <2>1, <2>2
<1> QED BY <1>1, <1>2

\* remember_completed_event
LEMMA RememberFields ==
  ASSUME NEW s, Shape(s), NEW ev \in Event
  PROVE  \E D, O : /\ Remember(s, ev) = [s EXCEPT !.done = D, !.order = O]
                   /\ D \subseteq s.done \cup {ev}
                   /\ s.waiters[ev] # {} => ev \in D
<1>1. CASE ev \in s.done
  <2>1. Remember(s, ev) = Prune(s)
    BY <1>1 DEF Remember
  <2> QED BY <1>1, <2>1, PruneFields DEF Live
<1>2. CASE ev \notin s.done
  <2> DEFINE m == [s EXCEPT !.done = s.done \cup {ev}, !.order = Append(s.order, ev)]
  <2>1. /\ m.done = s.done \cup {ev} /\ m.waiters = s.waiters /\ m.refs = s.refs
        /\ m.st = s.st /\ m.wait = s.wait /\ m.heap = s.heap /\ m.tick = s.tick
        /\ m.next = s.next /\ m.chan = s.chan /\ m.futex = s.futex
    BY DEF Shape
  <2>2. Shape(m)
    <3>1. m.done \in SUBSET Event
      BY <2>1 DEF Shape
    <3> QED BY <2>1, <3>1 DEF Shape
  <2>3. Remember(s, ev) = Prune(m)
    BY <1>2 DEF Remember, Shape
  <2>4. PICK D, O : /\ Prune(m) = [m EXCEPT !.done = D, !.order = O]
                    /\ D \subseteq m.done
                    /\ \A x \in m.done : Live(m, x) => x \in D
    BY <2>2, PruneFields
  <2>5. [m EXCEPT !.done = D, !.order = O] = [s EXCEPT !.done = D, !.order = O]
    BY DEF Shape
  <2>6. s.waiters[ev] # {} => Live(m, ev)
    BY <2>1 DEF Live
  <2> QED BY <2>1, <2>3, <2>4, <2>5, <2>6
<1> QED BY <1>1, <1>2

\* What a completed event means to those who wait: whoever is in its index and has
\* what it waits for is woken, and nothing else happens to anybody.
Told(s, n, ev) ==
  /\ n.waiters = [s.waiters EXCEPT ![ev] = {}]
  /\ n.done \subseteq s.done \cup {ev}
  /\ s.waiters[ev] # {} => ev \in n.done
  /\ \A p \in Proc :
       IF /\ p \in s.waiters[ev] /\ s.st[p] = "waiting"
          /\ Satisfied(n, s.wait[p].ids, s.wait[p].policy)
       THEN n.st[p] = "ready"
       ELSE n.st[p] = s.st[p] /\ n.wait[p] = s.wait[p]

SameClock(s, n)   == n.heap = s.heap /\ n.tick = s.tick
SameObjects(s, n) == n.chan = s.chan /\ n.futex = s.futex /\ n.refs = s.refs /\ n.next = s.next

LEMMA NoWaitTyped == NoWait \in [ids : SUBSET Event, policy : Policy, due : Nat]
BY DEF NoWait, Policy, None

\* notify_events_completed
LEMMA NotifyTells ==
  ASSUME NEW s, Shape(s), NEW ev \in Event
  PROVE  LET n == Notify(s, ev)
         IN  Shape(n) /\ Told(s, n, ev) /\ SameClock(s, n) /\ SameObjects(s, n)
<1> DEFINE r == Remember(s, ev)
           woken == {p \in s.waiters[ev] : /\ s.st[p] = "waiting"
                                           /\ Satisfied(r, s.wait[p].ids, s.wait[p].policy)}
           q == [r EXCEPT !.waiters[ev] = {}]
           n == Notify(s, ev)
<1>1. PICK D, O : /\ r = [s EXCEPT !.done = D, !.order = O]
                  /\ D \subseteq s.done \cup {ev}
                  /\ s.waiters[ev] # {} => ev \in D
  BY RememberFields
<1> HIDE DEF r
<1>2. /\ r.done = D /\ r.waiters = s.waiters /\ r.refs = s.refs
      /\ r.st = s.st /\ r.wait = s.wait /\ r.heap = s.heap /\ r.tick = s.tick
      /\ r.next = s.next /\ r.chan = s.chan /\ r.futex = s.futex
      /\ Shape(r)
  <2>1. D \in SUBSET Event
    BY <1>1 DEF Shape
  <2> QED BY <1>1, <2>1 DEF Shape
<1>3. /\ q.done = D /\ q.waiters = [s.waiters EXCEPT ![ev] = {}] /\ q.refs = s.refs
      /\ q.st = s.st /\ q.wait = s.wait /\ q.heap = s.heap /\ q.tick = s.tick
      /\ q.next = s.next /\ q.chan = s.chan /\ q.futex = s.futex
      /\ Shape(q)
  BY <1>2 DEF Shape
<1>4. n = Awake(q, woken)
  BY DEF Notify, r
<1> HIDE DEF q
<1>5. woken \subseteq Proc
  BY DEF Shape
<1> HIDE DEF woken
<1>6. /\ n.done = D /\ n.waiters = [s.waiters EXCEPT ![ev] = {}] /\ n.refs = s.refs
      /\ n.st = [p \in Proc |-> IF p \in woken THEN "ready" ELSE s.st[p]]
      /\ n.wait = [p \in Proc |-> IF p \in woken THEN NoWait ELSE s.wait[p]]
      /\ n.heap = s.heap /\ n.tick = s.tick
      /\ n.next = s.next /\ n.chan = s.chan /\ n.futex = s.futex
  BY <1>3, <1>4 DEF Awake, Shape
<1>7. Shape(n)
  <2>1. n.st \in [Proc -> PState] /\ n.wait \in [Proc -> [ids : SUBSET Event, policy : Policy, due : Nat]]
    BY <1>6, NoWaitTyped DEF Shape, PState
  <2>2. DOMAIN n = DOMAIN q
    BY <1>4 DEF Awake
  <2> QED BY <1>3, <1>4, <1>6, <2>1 DEF Shape, Awake
<1> HIDE DEF n
<1>8. Told(s, n, ev)
  <2>1. ASSUME NEW p \in Proc
        PROVE  p \in woken <=> /\ p \in s.waiters[ev] /\ s.st[p] = "waiting"
                               /\ Satisfied(n, s.wait[p].ids, s.wait[p].policy)
    BY <1>2, <1>6 DEF woken, Satisfied
  <2> QED BY <1>1, <1>6, <2>1 DEF Told
<1> QED BY <1>6, <1>7, <1>8 DEF SameClock, SameObjects, n

-----------------------------------------------------------------------------
(* The invariants, as predicates of the kernel and of the history.         *)

\* A wait whose events are all remembered does not hold yet, and is in the index
\* of each event it still needs.
Alert(s, h) ==
  \A p \in Proc : s.st[p] = "waiting" /\ (s.wait[p].policy = "Any" \/ ~h[p].lost) =>
    /\ ~Satisfied(s, s.wait[p].ids, s.wait[p].policy)
    /\ \A ev \in s.wait[p].ids \ s.done : p \in s.waiters[ev]

\* Whoever waits for any of several sources waits for the present event of each,
\* and none is ready.
Watches(s, h) ==
  \A p \in Proc : s.st[p] = "waiting" /\ h[p].policy = "Any" =>
    /\ s.wait[p].policy = "Any" /\ h[p].srcs \subseteq Source
    /\ \A c \in Chan : <<"chan", c, 0>> \in h[p].srcs =>
         /\ s.chan[c].phase = "open" /\ s.chan[c].queue = <<>>
         /\ s.chan[c].ev \in s.wait[p].ids
    /\ \A f \in Futex, x \in {0, 1} : <<"futex", f, x>> \in h[p].srcs =>
         /\ s.futex[f].phase = "live" /\ s.futex[f].val = x
         /\ s.futex[f].ev \in s.wait[p].ids
    /\ \A ev \in Event : <<"event", ev, 0>> \in h[p].srcs => ev \in s.wait[p].ids

Armed(s) ==
  \A p \in Proc : s.st[p] = "waiting" /\ s.wait[p].due # None =>
    s.wait[p].due > s.tick /\ <<s.wait[p].due, p>> \in s.heap

Obj == ({"chan"} \X Chan) \cup ({"futex"} \X Futex)
EvOf(s, o) == IF o[1] = "chan" THEN s.chan[o[2]].ev ELSE s.futex[o[2]].ev

\* Each live object owns one event, no event has two owners, and an event that
\* was not allocated yet has neither an owner nor been completed.
Living(s) ==
  /\ \A c \in Chan : HasChan(s, c) <=> s.chan[c].ev # None
  /\ \A f \in Futex : HasFutex(s, f) <=> s.futex[f].ev # None

Owned(s) ==
  /\ \A o \in Obj : EvOf(s, o) # None =>
       /\ EvOf(s, o) \in 1..MaxEvent /\ EvOf(s, o) < s.next
       /\ s.refs[EvOf(s, o)] = 1 /\ EvOf(s, o) \notin s.done
  /\ \A o, u \in Obj : EvOf(s, o) = EvOf(s, u) /\ EvOf(s, o) # None => o = u
  /\ \A ev \in Event : s.refs[ev] = 0 \/ \E o \in Obj : EvOf(s, o) = ev
  /\ \A ev \in 1..MaxEvent : ev >= s.next => ev \notin s.done
  /\ s.next >= 1

-----------------------------------------------------------------------------
(* What a step may do to a wait.                                           *)

Fewer(s, n) == \A p \in Proc : n.st[p] = "waiting" =>
                 s.st[p] = "waiting" /\ n.wait[p] = s.wait[p]

\* Nothing is completed, and nobody starts to wait.
Hushed(s, n) == n.waiters = s.waiters /\ n.done = s.done /\ Fewer(s, n)

\* The history of those who go on waiting.
Recalled(s, n, h, g) ==
  \A p \in Proc : n.st[p] = "waiting" =>
    /\ g[p].policy = h[p].policy /\ g[p].srcs = h[p].srcs
    /\ g[p].lost = (h[p].lost \/ s.wait[p].ids \cap (s.done \ n.done) # {})

LEMMA ToldFewer ==
  ASSUME NEW s, NEW n, NEW ev \in Event, Told(s, n, ev)
  PROVE  Fewer(s, n)
BY DEF Told, Fewer

LEMMA HushedAlert ==
  ASSUME NEW s, NEW n, NEW h, NEW g, Hushed(s, n), Recalled(s, n, h, g), Alert(s, h)
  PROVE  Alert(n, g)
BY DEF Hushed, Fewer, Recalled, Alert, Satisfied

LEMMA ToldAlert ==
  ASSUME NEW s, Shape(s), NEW n, NEW h, NEW g, NEW ev \in Event,
         Told(s, n, ev), Recalled(s, n, h, g), Alert(s, h)
  PROVE  Alert(n, g)
<1> SUFFICES ASSUME NEW p \in Proc, n.st[p] = "waiting",
                    n.wait[p].policy = "Any" \/ ~g[p].lost
             PROVE  /\ ~Satisfied(n, n.wait[p].ids, n.wait[p].policy)
                    /\ \A x \in n.wait[p].ids \ n.done : p \in n.waiters[x]
  BY DEF Alert
<1>1. /\ s.st[p] = "waiting" /\ n.wait[p] = s.wait[p]
      /\ ~(p \in s.waiters[ev] /\ Satisfied(n, s.wait[p].ids, s.wait[p].policy))
  BY DEF Told
<1> DEFINE ids == s.wait[p].ids
           any == s.wait[p].policy = "Any"
<1>2. /\ ids \subseteq Event /\ s.waiters \in [Event -> SUBSET Proc]
  BY DEF Shape
<1>3. /\ ~Satisfied(s, ids, s.wait[p].policy)
      /\ \A x \in ids \ s.done : p \in s.waiters[x]
      /\ any \/ ids \cap s.done \subseteq n.done
  BY <1>1 DEF Alert, Recalled
<1>4. n.waiters = [s.waiters EXCEPT ![ev] = {}] /\ n.done \subseteq s.done \cup {ev}
      /\ (s.waiters[ev] # {} => ev \in n.done)
  BY DEF Told
<1>5. ~Satisfied(n, ids, s.wait[p].policy)
  BY <1>1, <1>3, <1>4 DEF Satisfied
<1>6. ASSUME NEW x \in ids \ n.done PROVE p \in n.waiters[x]
  <2>1. x \notin s.done
    BY <1>3, <1>6 DEF Satisfied
  <2>2. p \in s.waiters[x]
    BY <1>3, <2>1
  <2>3. x # ev
    BY <1>4, <2>2
  <2> QED BY <1>2, <1>4, <2>2, <2>3
<1> QED BY <1>1, <1>5, <1>6

\* Nobody who waits for any of several events goes on waiting when one is completed.
LEMMA ToldWakes ==
  ASSUME NEW s, NEW n, NEW h, NEW ev \in Event, Told(s, n, ev), Alert(s, h),
         NEW p \in Proc, n.st[p] = "waiting", s.wait[p].policy = "Any"
  PROVE  ev \notin s.wait[p].ids
BY DEF Told, Alert, Satisfied

\* An object is left as it is as far as those who wait for it can see, or it was
\* ready, or nobody who goes on waiting waits for its event.
Unwatched(s, n, ev) ==
  \A p \in Proc : n.st[p] = "waiting" /\ s.wait[p].policy = "Any" => ev \notin s.wait[p].ids

LEMMA WatchesKept ==
  ASSUME NEW s, NEW n, NEW h, NEW g, Fewer(s, n), Recalled(s, n, h, g), Watches(s, h),
         \A c \in Chan : \/ /\ n.chan[c].phase = s.chan[c].phase
                            /\ n.chan[c].queue = s.chan[c].queue /\ n.chan[c].ev = s.chan[c].ev
                         \/ s.chan[c].phase # "open" \/ s.chan[c].queue # <<>>
                         \/ Unwatched(s, n, s.chan[c].ev),
         \A f \in Futex : \/ n.futex[f] = s.futex[f]
                          \/ s.futex[f].phase # "live"
                          \/ Unwatched(s, n, s.futex[f].ev)
  PROVE  Watches(n, g)
<1> SUFFICES ASSUME NEW p \in Proc, n.st[p] = "waiting", g[p].policy = "Any"
             PROVE  /\ n.wait[p].policy = "Any" /\ g[p].srcs \subseteq Source
                    /\ \A c \in Chan : <<"chan", c, 0>> \in g[p].srcs =>
                         /\ n.chan[c].phase = "open" /\ n.chan[c].queue = <<>>
                         /\ n.chan[c].ev \in n.wait[p].ids
                    /\ \A f \in Futex, x \in {0, 1} : <<"futex", f, x>> \in g[p].srcs =>
                         /\ n.futex[f].phase = "live" /\ n.futex[f].val = x
                         /\ n.futex[f].ev \in n.wait[p].ids
                    /\ \A ev \in Event : <<"event", ev, 0>> \in g[p].srcs => ev \in n.wait[p].ids
  BY DEF Watches
<1>1. /\ s.st[p] = "waiting" /\ n.wait[p] = s.wait[p]
      /\ h[p].policy = "Any" /\ g[p].srcs = h[p].srcs
  BY DEF Fewer, Recalled
<1> HIDE DEF Watches
<1>2. /\ s.wait[p].policy = "Any" /\ h[p].srcs \subseteq Source
      /\ \A c \in Chan : <<"chan", c, 0>> \in h[p].srcs =>
           /\ s.chan[c].phase = "open" /\ s.chan[c].queue = <<>>
           /\ s.chan[c].ev \in s.wait[p].ids
      /\ \A f \in Futex, x \in {0, 1} : <<"futex", f, x>> \in h[p].srcs =>
           /\ s.futex[f].phase = "live" /\ s.futex[f].val = x
           /\ s.futex[f].ev \in s.wait[p].ids
      /\ \A ev \in Event : <<"event", ev, 0>> \in h[p].srcs => ev \in s.wait[p].ids
  BY <1>1 DEF Watches
<1>3. ASSUME NEW c \in Chan, <<"chan", c, 0>> \in h[p].srcs
      PROVE  /\ n.chan[c].phase = "open" /\ n.chan[c].queue = <<>>
             /\ n.chan[c].ev \in n.wait[p].ids
  BY <1>1, <1>2, <1>3 DEF Unwatched
<1>4. ASSUME NEW f \in Futex, NEW x \in {0, 1}, <<"futex", f, x>> \in h[p].srcs
      PROVE  /\ n.futex[f].phase = "live" /\ n.futex[f].val = x
             /\ n.futex[f].ev \in n.wait[p].ids
  <2>1. /\ s.futex[f].phase = "live" /\ s.futex[f].val = x
        /\ s.futex[f].ev \in s.wait[p].ids
    BY <1>2, <1>4
  <2>2. n.futex[f] = s.futex[f]
    BY <1>1, <1>2, <2>1 DEF Unwatched
  <2> QED BY <1>1, <2>1, <2>2
<1> QED BY <1>1, <1>2, <1>3, <1>4

LEMMA ArmedKept ==
  ASSUME NEW s, NEW n, Fewer(s, n), SameClock(s, n), Armed(s)
  PROVE  Armed(n)
BY DEF Fewer, SameClock, Armed

-----------------------------------------------------------------------------
(* What a step may do to the owners of events.                             *)

Less(x) == IF x = 0 THEN 0 ELSE x - 1

LEMMA Events ==
  /\ None \notin Event /\ 1..MaxEvent \subseteq Event
  /\ \A ev \in Outside : ev \in Event /\ ev \notin 1..MaxEvent
BY EventAssumption DEF None, Event

\* No object changes its event.
LEMMA OwnedKept ==
  ASSUME NEW s, NEW n, Owned(s), \A o \in Obj : EvOf(n, o) = EvOf(s, o),
         n.refs = s.refs, n.next = s.next, n.done \subseteq s.done \cup Outside
  PROVE  Owned(n)
BY Events DEF Owned

\* The object o gets its first event, or its next one.
LEMMA OwnedNext ==
  ASSUME NEW s, NEW n, Shape(s), Owned(s), NEW o \in Obj, s.next <= MaxEvent,
         \A u \in Obj : EvOf(n, u) = IF u = o THEN s.next ELSE EvOf(s, u),
         n.next = s.next + 1,
         \/ /\ EvOf(s, o) = None
            /\ n.refs = [s.refs EXCEPT ![s.next] = @ + 1] /\ n.done = s.done
         \/ /\ EvOf(s, o) # None
            /\ n.refs = [s.refs EXCEPT ![EvOf(s, o)] = Less(@), ![s.next] = @ + 1]
            /\ n.done \subseteq s.done \cup {EvOf(s, o)}
  PROVE  Owned(n)
<1> DEFINE a == EvOf(s, o)
           b == s.next
<1>1. b \in 1..MaxEvent /\ b \in Event /\ b # None /\ b \notin s.done
  BY Events DEF Owned, Shape, None
<1>2. \A u \in Obj : EvOf(s, u) # b
  BY <1>1 DEF Owned
<1>3. s.refs[b] = 0 /\ s.refs \in [Event -> Nat]
  BY <1>1, <1>2 DEF Owned, Shape
<1>4. a # None => a \in Event /\ a \in 1..MaxEvent /\ a < b /\ a # b /\ s.refs[a] = 1
  BY <1>2, Events DEF Owned
<1>5. /\ n.refs[b] = 1
      /\ a # None => n.refs[a] = 0
      /\ \A ev \in Event \ {a, b} : n.refs[ev] = s.refs[ev]
  BY <1>1, <1>3, <1>4 DEF Less
<1>6. n.done \subseteq s.done \cup ({a} \ {None})
  OBVIOUS
<1> HIDE DEF a, b
<1>7. ASSUME NEW u \in Obj, EvOf(n, u) # None
      PROVE  /\ EvOf(n, u) \in 1..MaxEvent /\ EvOf(n, u) < n.next
             /\ n.refs[EvOf(n, u)] = 1 /\ EvOf(n, u) \notin n.done
  <2>1. CASE u = o
    <3>1. EvOf(n, u) = b
      BY <2>1 DEF b
    <3>2. b < n.next
      BY <1>1 DEF b
    <3>3. b # a
      BY <1>1, <1>4
    <3> QED BY <1>1, <1>5, <1>6, <3>1, <3>2, <3>3
  <2>2. CASE u # o
    <3>1. EvOf(n, u) = EvOf(s, u)
      BY <2>2
    <3>2. EvOf(s, u) # a
      BY <1>7, <2>2, <3>1 DEF a, Owned
    <3>3. /\ EvOf(s, u) \in 1..MaxEvent /\ EvOf(s, u) < s.next
          /\ s.refs[EvOf(s, u)] = 1 /\ EvOf(s, u) \notin s.done
      BY <1>7, <3>1 DEF Owned
    <3>4. EvOf(s, u) # b /\ EvOf(s, u) \in Event
      BY <1>2, <3>3, Events
    <3>5. EvOf(s, u) < n.next
      BY <1>1, <3>3 DEF b
    <3> QED BY <1>5, <1>6, <3>1, <3>2, <3>3, <3>4, <3>5
  <2> QED BY <2>1, <2>2
<1>8. ASSUME NEW u \in Obj, NEW v \in Obj, EvOf(n, u) = EvOf(n, v), EvOf(n, u) # None
      PROVE  u = v
  BY <1>2, <1>8 DEF Owned, b
<1>9. ASSUME NEW ev \in Event PROVE n.refs[ev] = 0 \/ \E u \in Obj : EvOf(n, u) = ev
  <2>1. CASE ev = b
    BY <2>1 DEF b
  <2>2. CASE ev = a
    BY <1>5, <2>2, Events
  <2>3. CASE ev \notin {a, b}
    BY <1>5, <2>3 DEF Owned, a
  <2> QED BY <2>1, <2>2, <2>3
<1>10. ASSUME NEW ev \in 1..MaxEvent, ev >= n.next PROVE ev \notin n.done
  <2>1. ev > b
    BY <1>1, <1>10 DEF b
  <2>2. ev # a
    <3>1. CASE a = None
      BY <3>1, Events
    <3>2. CASE a # None
      BY <1>1, <1>4, <2>1, <3>2
    <3> QED BY <3>1, <3>2
  <2> QED BY <1>1, <1>6, <2>1, <2>2 DEF Owned, b
<1>11. n.next >= 1
  BY <1>1 DEF b
<1> QED BY <1>7, <1>8, <1>9, <1>10, <1>11 DEF Owned

\* The object o gives its event up.
LEMMA OwnedFreed ==
  ASSUME NEW s, NEW n, Shape(s), Owned(s), NEW o \in Obj, EvOf(s, o) # None,
         \A u \in Obj : EvOf(n, u) = IF u = o THEN None ELSE EvOf(s, u),
         n.next = s.next, n.refs = [s.refs EXCEPT ![EvOf(s, o)] = Less(@)],
         n.done \subseteq s.done \cup {EvOf(s, o)}
  PROVE  Owned(n)
<1> DEFINE a == EvOf(s, o)
<1>1. a \in 1..MaxEvent /\ a \in Event /\ a < s.next /\ s.refs[a] = 1
  BY Events DEF Owned
<1>2. /\ n.refs[a] = 0
      /\ \A ev \in Event \ {a} : n.refs[ev] = s.refs[ev]
  BY <1>1 DEF Less, Shape
<1> HIDE DEF a
<1>3. ASSUME NEW u \in Obj, EvOf(n, u) # None
      PROVE  /\ EvOf(n, u) = EvOf(s, u) /\ EvOf(s, u) # a /\ EvOf(s, u) \in Event
  BY <1>3, Events DEF Owned, a
<1>4. ASSUME NEW u \in Obj, EvOf(n, u) # None
      PROVE  /\ EvOf(n, u) \in 1..MaxEvent /\ EvOf(n, u) < n.next
             /\ n.refs[EvOf(n, u)] = 1 /\ EvOf(n, u) \notin n.done
  BY <1>2, <1>3, <1>4 DEF Owned, a
<1>5. ASSUME NEW u \in Obj, NEW v \in Obj, EvOf(n, u) = EvOf(n, v), EvOf(n, u) # None
      PROVE  u = v
  BY <1>5 DEF Owned
<1>6. ASSUME NEW ev \in Event PROVE n.refs[ev] = 0 \/ \E u \in Obj : EvOf(n, u) = ev
  BY <1>2 DEF Owned, a
<1>7. ASSUME NEW ev \in 1..MaxEvent, ev >= n.next PROVE ev \notin n.done
  <2>0. s.next \in Nat
    BY DEF Shape
  <2>1. ev # a
    BY <1>1, <1>7, <2>0
  <2> QED BY <1>7, <2>1 DEF Owned, a
<1> QED BY <1>4, <1>5, <1>6, <1>7 DEF Owned

-----------------------------------------------------------------------------
(* One channel, or one futex, moves.                                       *)

ChanRec == [phase : {"new", "open", "closed", "gone"},
            owner : Proc \cup {None}, ev : Event \cup {None},
            queue : Seq(Msg), ref : Int, held : [Holder -> Int]]
FutexRec == [phase : {"new", "live", "gone"}, ev : Event \cup {None}, val : Nat]

Good(s, h) == Shape(s) /\ Alert(s, h) /\ Watches(s, h) /\ Armed(s) /\ Living(s) /\ Owned(s)

LEMMA ChanEvOf ==
  ASSUME NEW s, NEW n, Shape(s), NEW c \in Chan, NEW x,
         n.chan = [s.chan EXCEPT ![c] = x], n.futex = s.futex
  PROVE  /\ <<"chan", c>> \in Obj /\ EvOf(s, <<"chan", c>>) = s.chan[c].ev
         /\ \A u \in Obj : EvOf(n, u) = IF u = <<"chan", c>> THEN x.ev ELSE EvOf(s, u)
<1>1. s.chan \in [Chan -> ChanRec]
  BY DEF Shape, ChanRec
<1>2. <<"chan", c>> \in Obj /\ EvOf(s, <<"chan", c>>) = s.chan[c].ev
  BY DEF Obj, EvOf
<1>3. ASSUME NEW u \in Obj
      PROVE  EvOf(n, u) = IF u = <<"chan", c>> THEN x.ev ELSE EvOf(s, u)
  <2>1. CASE u[1] = "chan"
    <3>1. u[2] \in Chan /\ (u = <<"chan", c>> <=> u[2] = c)
      BY <2>1 DEF Obj
    <3> QED BY <1>1, <2>1, <3>1 DEF EvOf
  <2>2. CASE u[1] # "chan"
    BY <2>2 DEF EvOf
  <2> QED BY <2>1, <2>2
<1> QED BY <1>2, <1>3

LEMMA FutexEvOf ==
  ASSUME NEW s, NEW n, Shape(s), NEW f \in Futex, NEW x,
         n.futex = [s.futex EXCEPT ![f] = x], n.chan = s.chan
  PROVE  /\ <<"futex", f>> \in Obj /\ EvOf(s, <<"futex", f>>) = s.futex[f].ev
         /\ \A u \in Obj : EvOf(n, u) = IF u = <<"futex", f>> THEN x.ev ELSE EvOf(s, u)
<1>1. s.futex \in [Futex -> FutexRec]
  BY DEF Shape, FutexRec
<1>2. <<"futex", f>> \in Obj /\ EvOf(s, <<"futex", f>>) = s.futex[f].ev
  BY DEF Obj, EvOf
<1>3. ASSUME NEW u \in Obj
      PROVE  EvOf(n, u) = IF u = <<"futex", f>> THEN x.ev ELSE EvOf(s, u)
  <2>1. CASE u[1] = "chan"
    <3>1. u # <<"futex", f>>
      BY <2>1
    <3> QED BY <2>1, <3>1 DEF EvOf
  <2>2. CASE u[1] # "chan"
    <3>1. u[2] \in Futex /\ (u = <<"futex", f>> <=> u[2] = f)
      BY <2>2 DEF Obj
    <3> QED BY <1>1, <2>2, <3>1 DEF EvOf
  <2> QED BY <2>1, <2>2
<1> QED BY <1>2, <1>3

\* What becomes of the events when an object goes from event a to event b.
Passes(s, n, a, b) ==
  \/ b = a /\ n.refs = s.refs /\ n.next = s.next /\ n.done = s.done
  \/ /\ b = s.next /\ s.next <= MaxEvent /\ n.next = s.next + 1
     /\ \/ a = None /\ n.refs = [s.refs EXCEPT ![s.next] = @ + 1] /\ n.done = s.done
        \/ /\ a # None /\ n.refs = [s.refs EXCEPT ![a] = Less(@), ![s.next] = @ + 1]
           /\ n.done \subseteq s.done \cup {a}
  \/ /\ a # None /\ b = None /\ n.next = s.next
     /\ n.refs = [s.refs EXCEPT ![a] = Less(@)] /\ n.done \subseteq s.done \cup {a}

LEMMA OwnedMoved ==
  ASSUME NEW s, NEW n, Shape(s), Owned(s), NEW o \in Obj, NEW b,
         \A u \in Obj : EvOf(n, u) = IF u = o THEN b ELSE EvOf(s, u),
         Passes(s, n, EvOf(s, o), b)
  PROVE  Owned(n)
<1> DEFINE a == EvOf(s, o)
<1>1. CASE b = a /\ n.refs = s.refs /\ n.next = s.next /\ n.done = s.done
  BY <1>1, OwnedKept
<1>2. CASE /\ b = s.next /\ s.next <= MaxEvent /\ n.next = s.next + 1
           /\ \/ a = None /\ n.refs = [s.refs EXCEPT ![s.next] = @ + 1] /\ n.done = s.done
              \/ /\ a # None /\ n.refs = [s.refs EXCEPT ![a] = Less(@), ![s.next] = @ + 1]
                 /\ n.done \subseteq s.done \cup {a}
  BY <1>2, OwnedNext
<1>3. CASE /\ a # None /\ b = None /\ n.next = s.next
           /\ n.refs = [s.refs EXCEPT ![a] = Less(@)] /\ n.done \subseteq s.done \cup {a}
  BY <1>3, OwnedFreed
<1> QED BY <1>1, <1>2, <1>3 DEF Passes

\* A step of one channel, that completes its event or is hushed.
LEMMA ChanMoves ==
  ASSUME NEW s, NEW n, NEW h, NEW g, Good(s, h), Shape(n), NEW c \in Chan, NEW x,
         n.chan = [s.chan EXCEPT ![c] = x], n.futex = s.futex, SameClock(s, n),
         Recalled(s, n, h, g), Passes(s, n, s.chan[c].ev, x.ev),
         x.phase \in {"open", "closed"} <=> x.ev # None,
         \/ Told(s, n, s.chan[c].ev) /\ s.chan[c].ev # None
         \/ /\ Hushed(s, n)
            /\ \/ s.chan[c].phase # "open" \/ s.chan[c].queue # <<>>
               \/ x.phase = "open" /\ x.queue = <<>> /\ x.ev = s.chan[c].ev
  PROVE  Good(n, g)
<1> DEFINE ev == s.chan[c].ev
<1>0. s.chan \in [Chan -> ChanRec] /\ n.chan[c] = x /\ ev \in Event \cup {None}
  BY DEF Good, Shape, ChanRec
<1>1. Fewer(s, n) /\ Alert(n, g)
  BY <1>0, ToldFewer, ToldAlert, HushedAlert DEF Good, Hushed
<1>2. Armed(n)
  BY <1>1, ArmedKept DEF Good
<1>3. Owned(n)
  <2> DEFINE o == <<"chan", c>>
  <2>1. Shape(s) /\ Owned(s)
    BY DEF Good
  <2>2. /\ o \in Obj /\ EvOf(s, o) = s.chan[c].ev
        /\ \A u \in Obj : EvOf(n, u) = IF u = o THEN x.ev ELSE EvOf(s, u)
    BY <2>1, ChanEvOf
  <2>3. Passes(s, n, EvOf(s, o), x.ev)
    BY <2>2
  <2> HIDE DEF o
  <2> QED BY <2>1, <2>2, <2>3, OwnedMoved
<1>4. Living(n)
  <2>1. ASSUME NEW d \in Chan PROVE HasChan(n, d) <=> n.chan[d].ev # None
    <3>1. CASE d = c
      BY <1>0, <3>1 DEF HasChan
    <3>2. CASE d # c
      <4>1. n.chan[d] = s.chan[d]
        BY <1>0, <3>2
      <4> QED BY <4>1 DEF Good, Living, HasChan
    <3> QED BY <3>1, <3>2
  <2>2. \A d \in Futex : HasFutex(n, d) <=> n.futex[d].ev # None
    BY DEF Good, Living, HasFutex
  <2> QED BY <2>1, <2>2 DEF Living
<1>5. Watches(n, g)
  <2>1. ASSUME Told(s, n, ev), ev # None PROVE Unwatched(s, n, ev)
    BY <1>0, <2>1, ToldWakes DEF Unwatched, Good
  <2>2. ASSUME NEW d \in Chan
        PROVE  \/ /\ n.chan[d].phase = s.chan[d].phase
                  /\ n.chan[d].queue = s.chan[d].queue /\ n.chan[d].ev = s.chan[d].ev
               \/ s.chan[d].phase # "open" \/ s.chan[d].queue # <<>>
               \/ Unwatched(s, n, s.chan[d].ev)
    <3>1. CASE d = c
      BY <1>0, <2>1, <3>1
    <3>2. CASE d # c
      BY <1>0, <3>2
    <3> QED BY <3>1, <3>2
  <2> QED BY <1>1, <2>2, WatchesKept DEF Good
<1> QED BY <1>1, <1>2, <1>3, <1>4, <1>5 DEF Good

\* The same for one futex.
LEMMA FutexMoves ==
  ASSUME NEW s, NEW n, NEW h, NEW g, Good(s, h), Shape(n), NEW f \in Futex, NEW x,
         n.futex = [s.futex EXCEPT ![f] = x], n.chan = s.chan, SameClock(s, n),
         Recalled(s, n, h, g), Passes(s, n, s.futex[f].ev, x.ev),
         x.phase = "live" <=> x.ev # None,
         \/ Told(s, n, s.futex[f].ev) /\ s.futex[f].ev # None
         \/ Hushed(s, n) /\ s.futex[f].phase # "live"
  PROVE  Good(n, g)
<1> DEFINE ev == s.futex[f].ev
<1>0. s.futex \in [Futex -> FutexRec] /\ n.futex[f] = x /\ ev \in Event \cup {None}
  BY DEF Good, Shape, FutexRec
<1>1. Fewer(s, n) /\ Alert(n, g)
  BY <1>0, ToldFewer, ToldAlert, HushedAlert DEF Good, Hushed
<1>2. Armed(n)
  BY <1>1, ArmedKept DEF Good
<1>3. Owned(n)
  <2> DEFINE o == <<"futex", f>>
  <2>1. Shape(s) /\ Owned(s)
    BY DEF Good
  <2>2. /\ o \in Obj /\ EvOf(s, o) = s.futex[f].ev
        /\ \A u \in Obj : EvOf(n, u) = IF u = o THEN x.ev ELSE EvOf(s, u)
    BY <2>1, FutexEvOf
  <2>3. Passes(s, n, EvOf(s, o), x.ev)
    BY <2>2
  <2> HIDE DEF o
  <2> QED BY <2>1, <2>2, <2>3, OwnedMoved
<1>4. Living(n)
  <2>1. ASSUME NEW d \in Futex PROVE HasFutex(n, d) <=> n.futex[d].ev # None
    <3>1. CASE d = f
      BY <1>0, <3>1 DEF HasFutex
    <3>2. CASE d # f
      <4>1. n.futex[d] = s.futex[d]
        BY <1>0, <3>2
      <4> QED BY <4>1 DEF Good, Living, HasFutex
    <3> QED BY <3>1, <3>2
  <2>2. \A d \in Chan : HasChan(n, d) <=> n.chan[d].ev # None
    BY DEF Good, Living, HasChan
  <2> QED BY <2>1, <2>2 DEF Living
<1>5. Watches(n, g)
  <2>1. ASSUME Told(s, n, ev), ev # None PROVE Unwatched(s, n, ev)
    BY <1>0, <2>1, ToldWakes DEF Unwatched, Good
  <2>2. ASSUME NEW d \in Futex
        PROVE  n.futex[d] = s.futex[d] \/ s.futex[d].phase # "live" \/ Unwatched(s, n, s.futex[d].ev)
    <3>1. CASE d = f
      BY <1>0, <2>1, <3>1
    <3>2. CASE d # f
      BY <1>0, <3>2
    <3> QED BY <3>1, <3>2
  <2> QED BY <1>1, <2>2, WatchesKept DEF Good
<1> QED BY <1>1, <1>2, <1>3, <1>4, <1>5 DEF Good

\* A step that moves no object.
LEMMA ObjectsStay ==
  ASSUME NEW s, NEW n, NEW h, NEW g, Good(s, h), Shape(n), n.chan = s.chan, n.futex = s.futex,
         n.refs = s.refs, n.next = s.next, Recalled(s, n, h, g),
         Armed(n), Fewer(s, n), Alert(n, g), n.done \subseteq s.done \cup Outside
  PROVE  Good(n, g)
<1>1. Owned(n)
  BY OwnedKept DEF Good, EvOf
<1>2. Living(n)
  BY DEF Living, Good, HasChan, HasFutex
<1>3. Watches(n, g)
  BY WatchesKept DEF Good
<1> QED BY <1>1, <1>2, <1>3 DEF Good

-----------------------------------------------------------------------------
(* The methods of the kernel.                                              *)

\* complete_futex_event, and the end of channel_send and channel_close.
LEMMA RotatedTells ==
  ASSUME NEW s, Shape(s), NEW ev \in Event, s.next \in 1..MaxEvent, ev # s.next
  PROVE  LET n == Rotated(s, ev)
         IN  /\ Shape(n) /\ Told(s, n, ev) /\ SameClock(s, n)
             /\ n.chan = s.chan /\ n.futex = s.futex /\ n.next = s.next + 1
             /\ n.refs = [s.refs EXCEPT ![ev] = Less(@), ![s.next] = @ + 1]
<1> DEFINE m == Notify(s, ev)
           R == [s.refs EXCEPT ![ev] = Less(@), ![s.next] = @ + 1]
           n == Rotated(s, ev)
<1>1. Shape(m) /\ Told(s, m, ev) /\ SameClock(s, m) /\ SameObjects(s, m)
  BY NotifyTells
<1>3. R \in [Event -> Nat] /\ s.next + 1 \in Nat
  <2>1. s.refs \in [Event -> Nat] /\ s.next \in Event /\ s.next \in Nat
    BY Events DEF Shape
  <2>2. \A i \in Nat : Less(i) \in Nat
    BY DEF Less
  <2> QED BY <2>1, <2>2
<1>2. n = [m EXCEPT !.refs = R, !.next = s.next + 1]
  <2>1. m.refs = s.refs /\ m.next = s.next
    BY <1>1 DEF SameObjects
  <2> QED BY <1>1, <2>1 DEF Rotated, Less, Shape
<1> HIDE DEF m, n, R
<1>4. /\ n.refs = R /\ n.next = s.next + 1
      /\ n.st = m.st /\ n.wait = m.wait /\ n.done = m.done /\ n.waiters = m.waiters
      /\ n.heap = m.heap /\ n.tick = m.tick /\ n.chan = m.chan /\ n.futex = m.futex
  BY <1>1, <1>2 DEF Shape
<1>c. Shape(n)
  BY <1>1, <1>2, <1>3 DEF Shape
<1>5. Told(s, n, ev)
  BY <1>1, <1>4 DEF Told, Satisfied
<1> QED BY <1>1, <1>4, <1>c, <1>5 DEF SameClock, SameObjects, R, n

\* dec_event_source_ref changes nothing else.
LEMMA UnrefFields ==
  ASSUME NEW s, Shape(s), NEW ev \in Event
  PROVE  LET n == Unref(s, ev)
         IN  /\ Shape(n) /\ n.refs = [s.refs EXCEPT ![ev] = Less(@)]
             /\ n.st = s.st /\ n.wait = s.wait /\ n.done = s.done /\ n.waiters = s.waiters
             /\ n.heap = s.heap /\ n.tick = s.tick /\ n.next = s.next
             /\ n.chan = s.chan /\ n.futex = s.futex
<1> DEFINE R == [s.refs EXCEPT ![ev] = Less(@)]
<1>1. R \in [Event -> Nat]
  BY DEF Shape, Less
<1>2. Unref(s, ev) = [s EXCEPT !.refs = R]
  BY DEF Unref, Less, Shape
<1> HIDE DEF R
<1>3. QED BY <1>1, <1>2 DEF Shape, R

\* The table with one channel, or one futex, replaced.
LEMMA ChanPut ==
  ASSUME NEW s, Shape(s), NEW c \in Chan, NEW x \in ChanRec
  PROVE  LET n == [s EXCEPT !.chan = [s.chan EXCEPT ![c] = x]]
         IN  /\ Shape(n) /\ n.chan = [s.chan EXCEPT ![c] = x]
             /\ n.st = s.st /\ n.wait = s.wait /\ n.done = s.done /\ n.waiters = s.waiters
             /\ n.heap = s.heap /\ n.tick = s.tick /\ n.next = s.next
             /\ n.refs = s.refs /\ n.futex = s.futex
<1> DEFINE C == [s.chan EXCEPT ![c] = x]
<1>1. C \in [Chan -> ChanRec]
  BY DEF Shape, ChanRec
<1> HIDE DEF C
<1> QED BY <1>1 DEF Shape, ChanRec

LEMMA FutexPut ==
  ASSUME NEW s, Shape(s), NEW f \in Futex, NEW x \in FutexRec
  PROVE  LET n == [s EXCEPT !.futex = [s.futex EXCEPT ![f] = x]]
         IN  /\ Shape(n) /\ n.futex = [s.futex EXCEPT ![f] = x]
             /\ n.st = s.st /\ n.wait = s.wait /\ n.done = s.done /\ n.waiters = s.waiters
             /\ n.heap = s.heap /\ n.tick = s.tick /\ n.next = s.next
             /\ n.refs = s.refs /\ n.chan = s.chan
<1> DEFINE F == [s.futex EXCEPT ![f] = x]
<1>1. F \in [Futex -> FutexRec]
  BY DEF Shape, FutexRec
<1> HIDE DEF F
<1> QED BY <1>1 DEF Shape, FutexRec

-----------------------------------------------------------------------------
(* The history.                                                            *)

Hist(h) == h \in [Proc -> [srcs : SUBSET Source, policy : Policy,
                           seen : SUBSET Event, lost : BOOLEAN]]

IInv == Good(e, parked) /\ Hist(parked)

LEMMA KeptTyped ==
  ASSUME Hist(parked), Shape(e'), NEW p \in Proc
  PROVE  /\ Kept(p) \in [srcs : SUBSET Source, policy : Policy,
                         seen : SUBSET Event, lost : BOOLEAN]
         /\ e'.st[p] = "waiting" =>
              /\ Kept(p).policy = parked[p].policy /\ Kept(p).srcs = parked[p].srcs
              /\ Kept(p).lost = (parked[p].lost \/ e.wait[p].ids \cap (e.done \ e'.done) # {})
<1> DEFINE R == [srcs : SUBSET Source, policy : Policy, seen : SUBSET Event, lost : BOOLEAN]
           L == e.wait[p].ids \cap (e.done \ e'.done) # {}
           D == e'.done \ e.done
<1>1. Nothing \in R
  BY DEF Nothing, Policy
<1>2. parked[p] \in R /\ D \subseteq Event /\ L \in BOOLEAN
  BY DEF Hist, Shape
<1>3. Kept(p) = IF e'.st[p] = "waiting"
                THEN [parked[p] EXCEPT !.seen = @ \cup D, !.lost = @ \/ L] ELSE Nothing
  BY DEF Kept
<1> HIDE DEF L, D
<1>4. CASE e'.st[p] = "waiting"
  <2> DEFINE k == [parked[p] EXCEPT !.seen = parked[p].seen \cup D,
                                  !.lost = parked[p].lost \/ L]
  <2>1. Kept(p) = k
    BY <1>3, <1>4, Zenon
  <2>2. k \in R /\ k.policy = parked[p].policy /\ k.srcs = parked[p].srcs
    BY <1>2
  <2>3. k.lost = (parked[p].lost \/ L)
    BY <1>2
  <2> HIDE DEF k
  <2> QED BY <2>1, <2>2, <2>3, Zenon DEF L
<1>5. CASE e'.st[p] # "waiting"
  <2>1. Kept(p) = Nothing
    BY <1>3, <1>5, Zenon
  <2> QED BY <1>1, <1>5, <2>1
<1> QED BY <1>4, <1>5

LEMMA ForgetRecalls ==
  ASSUME Hist(parked), Shape(e'), Forget
  PROVE  Hist(parked') /\ Recalled(e, e', parked, parked')
BY KeptTyped DEF Forget, Hist, Recalled

\* A step that completes no event and touches neither the objects nor the clock.
LEMMA Quiet ==
  ASSUME NEW s, NEW n, NEW h, NEW g, Good(s, h), Shape(n), Recalled(s, n, h, g),
         Hushed(s, n), SameObjects(s, n), SameClock(s, n)
  PROVE  Good(n, g)
<1>1. Alert(n, g) /\ Armed(n) /\ Fewer(s, n)
  BY HushedAlert, ArmedKept DEF Good, Hushed
<1> QED BY <1>1, ObjectsStay DEF Hushed, SameObjects

\* A process leaves its wait.
LEMMA AwakeFields ==
  ASSUME NEW s, Shape(s), NEW W \in SUBSET Proc
  PROVE  LET n == Awake(s, W)
         IN  /\ Shape(n) /\ n.done = s.done /\ n.waiters = s.waiters
             /\ n.heap = s.heap /\ n.tick = s.tick /\ n.next = s.next
             /\ n.refs = s.refs /\ n.chan = s.chan /\ n.futex = s.futex
             /\ n.st = [p \in Proc |-> IF p \in W THEN "ready" ELSE s.st[p]]
             /\ n.wait = [p \in Proc |-> IF p \in W THEN NoWait ELSE s.wait[p]]
<1> DEFINE S == [p \in Proc |-> IF p \in W THEN "ready" ELSE s.st[p]]
           V == [p \in Proc |-> IF p \in W THEN NoWait ELSE s.wait[p]]
<1>1. /\ S \in [Proc -> PState]
      /\ V \in [Proc -> [ids : SUBSET Event, policy : Policy, due : Nat]]
  BY NoWaitTyped DEF Shape, PState
<1>2. Awake(s, W) = [s EXCEPT !.st = S, !.wait = V]
  BY DEF Awake
<1> DEFINE n == Awake(s, W)
<1> HIDE DEF S, V, n
<1>3. /\ n.done = s.done /\ n.waiters = s.waiters
      /\ n.heap = s.heap /\ n.tick = s.tick /\ n.next = s.next
      /\ n.refs = s.refs /\ n.chan = s.chan /\ n.futex = s.futex
      /\ n.st = S /\ n.wait = V
  BY <1>2 DEF Shape, n
<1>4. Shape(n)
  BY <1>1, <1>2, <1>3 DEF Shape, n
<1> QED BY <1>3, <1>4 DEF S, V, n

LEMMA StateFields ==
  ASSUME NEW s, Shape(s), NEW p \in Proc, NEW x \in PState
  PROVE  LET n == [s EXCEPT !.st[p] = x]
         IN  /\ Shape(n) /\ n.done = s.done /\ n.waiters = s.waiters
             /\ n.heap = s.heap /\ n.tick = s.tick /\ n.next = s.next
             /\ n.refs = s.refs /\ n.chan = s.chan /\ n.futex = s.futex
             /\ n.st = [s.st EXCEPT ![p] = x] /\ n.wait = s.wait
BY DEF Shape

LEMMA LeaveQuiet ==
  ASSUME NEW s, Shape(s), NEW p \in Proc, NEW x \in PState \ {"waiting"}
  PROVE  LET n == Leave(s, p, x)
         IN  Shape(n) /\ Hushed(s, n) /\ SameObjects(s, n) /\ SameClock(s, n)
<1> DEFINE a == Awake(s, {p})
           n == [a EXCEPT !.st[p] = x]
<1>1. /\ Shape(a) /\ a.done = s.done /\ a.waiters = s.waiters
      /\ a.heap = s.heap /\ a.tick = s.tick /\ a.next = s.next
      /\ a.refs = s.refs /\ a.chan = s.chan /\ a.futex = s.futex
      /\ a.st = [q \in Proc |-> IF q \in {p} THEN "ready" ELSE s.st[q]]
      /\ a.wait = [q \in Proc |-> IF q \in {p} THEN NoWait ELSE s.wait[q]]
  <2>1. {p} \in SUBSET Proc
    OBVIOUS
  <2> QED BY <2>1, AwakeFields
<1> HIDE DEF a
<1>2. /\ Shape(n) /\ n.done = a.done /\ n.waiters = a.waiters
      /\ n.heap = a.heap /\ n.tick = a.tick /\ n.next = a.next
      /\ n.refs = a.refs /\ n.chan = a.chan /\ n.futex = a.futex
      /\ n.st = [a.st EXCEPT ![p] = x] /\ n.wait = a.wait
  BY <1>1, StateFields
<1>3. Leave(s, p, x) = n
  BY DEF Leave, a
<1> HIDE DEF n
<1>4. Fewer(s, n)
  BY <1>1, <1>2 DEF Fewer
<1> QED BY <1>1, <1>2, <1>3, <1>4 DEF Hushed, SameObjects, SameClock

-----------------------------------------------------------------------------
(* The actions.                                                            *)

LEMMA QuietStep ==
  ASSUME IInv, Forget, Shape(e'), Hushed(e, e'), SameObjects(e, e'), SameClock(e, e')
  PROVE  IInv'
<1>1. Hist(parked') /\ Recalled(e, e', parked, parked')
  BY ForgetRecalls DEF IInv
<1>2. Good(e', parked')
  BY <1>1, Quiet DEF IInv
<1> QED BY <1>1, <1>2 DEF IInv

LEMMA SignalsKeep ==
  ASSUME IInv, NEW p \in Proc, Resume(p) \/ WallClock(p) \/ Stop(p) \/ Cont(p) \/ Kill(p)
  PROVE  IInv'
<1>0. Shape(e)
  BY DEF IInv, Good
<1>1. CASE Resume(p)
  <2>1. /\ Shape(e') /\ e'.done = e.done /\ e'.waiters = e.waiters
        /\ e'.heap = e.heap /\ e'.tick = e.tick /\ e'.next = e.next
        /\ e'.refs = e.refs /\ e'.chan = e.chan /\ e'.futex = e.futex
        /\ e'.st = [e.st EXCEPT ![p] = "running"] /\ e'.wait = e.wait
    <3>1. "running" \in PState
      BY DEF PState
    <3> QED BY <1>0, <1>1, <3>1, StateFields DEF Resume
  <2>2. Fewer(e, e')
    BY <1>0, <2>1 DEF Fewer, Shape
  <2> QED BY <1>1, <2>1, <2>2, QuietStep DEF Resume, Hushed, SameObjects, SameClock
<1>2. CASE WallClock(p)
  <2>1. e' = Awake(e, {p}) /\ {p} \in SUBSET Proc
    BY <1>2 DEF WallClock, WakeProcess
  <2>2. /\ Shape(e') /\ e'.done = e.done /\ e'.waiters = e.waiters
        /\ e'.heap = e.heap /\ e'.tick = e.tick /\ e'.next = e.next
        /\ e'.refs = e.refs /\ e'.chan = e.chan /\ e'.futex = e.futex
        /\ e'.st = [q \in Proc |-> IF q \in {p} THEN "ready" ELSE e.st[q]]
        /\ e'.wait = [q \in Proc |-> IF q \in {p} THEN NoWait ELSE e.wait[q]]
    BY <1>0, <2>1, AwakeFields
  <2>3. Fewer(e, e')
    BY <2>2 DEF Fewer
  <2> QED BY <1>2, <2>2, <2>3, QuietStep DEF WallClock, Hushed, SameObjects, SameClock
<1>3. CASE Stop(p) \/ Cont(p) \/ Kill(p)
  <2>1. PICK x \in PState \ {"waiting"} : e' = Leave(e, p, x)
    BY <1>3 DEF Stop, Cont, Kill, PState
  <2> QED BY <1>0, <1>3, <2>1, LeaveQuiet, QuietStep DEF Stop, Cont, Kill
<1> QED BY <1>1, <1>2, <1>3

\* An entry that is due wakes the one whose wait it belongs to.
LEMMA TickKeeps ==
  ASSUME IInv, Tick
  PROVE  IInv'
<1> DEFINE t   == e.tick + 1
           due == {x \in e.heap : x[1] <= t}
           W   == {p \in Proc : e.st[p] = "waiting" /\ <<e.wait[p].due, p>> \in due}
           a   == Awake(e, W)
<1>0. Shape(e) /\ Good(e, parked) /\ Hist(parked)
  BY DEF IInv, Good
<1>1. e' = [a EXCEPT !.tick = t, !.heap = a.heap \ due]
  BY DEF Tick, AdvanceTicks, Awake
<1>2. /\ Shape(a) /\ a.done = e.done /\ a.waiters = e.waiters
      /\ a.heap = e.heap /\ a.tick = e.tick /\ a.next = e.next
      /\ a.refs = e.refs /\ a.chan = e.chan /\ a.futex = e.futex
      /\ a.st = [q \in Proc |-> IF q \in W THEN "ready" ELSE e.st[q]]
      /\ a.wait = [q \in Proc |-> IF q \in W THEN NoWait ELSE e.wait[q]]
  <2>1. W \in SUBSET Proc
    OBVIOUS
  <2> HIDE DEF W
  <2> QED BY <1>0, <2>1, AwakeFields
<1>3. t \in Nat /\ e.heap \ due \in SUBSET (Nat \X Proc)
  BY <1>0 DEF Shape
<1> HIDE DEF a, W, due
<1>4. /\ Shape(e') /\ e'.done = e.done /\ e'.waiters = e.waiters
      /\ e'.heap = e.heap \ due /\ e'.tick = t /\ e'.next = e.next
      /\ e'.refs = e.refs /\ e'.chan = e.chan /\ e'.futex = e.futex
      /\ e'.st = a.st /\ e'.wait = a.wait
  BY <1>1, <1>2, <1>3 DEF Shape
<1>5. Fewer(e, e') /\ Hushed(e, e')
  BY <1>2, <1>4 DEF Fewer, Hushed
<1>6. Armed(e')
  <2> SUFFICES ASSUME NEW p \in Proc, e'.st[p] = "waiting", e'.wait[p].due # None
               PROVE  e'.wait[p].due > e'.tick /\ <<e'.wait[p].due, p>> \in e'.heap
    BY DEF Armed
  <2>1. /\ e.st[p] = "waiting" /\ e'.wait[p] = e.wait[p] /\ p \notin W
    BY <1>2, <1>4 DEF W
  <2>2. e.wait[p].due > e.tick /\ <<e.wait[p].due, p>> \in e.heap /\ e.wait[p].due \in Nat
    BY <1>0, <2>1 DEF Good, Armed, Shape
  <2>3. ~(e.wait[p].due <= t) /\ <<e.wait[p].due, p>> \notin due
    BY <2>1, <2>2 DEF W, due
  <2> QED BY <1>3, <1>4, <2>1, <2>2, <2>3
<1>7. Hist(parked') /\ Recalled(e, e', parked, parked')
  BY <1>0, <1>4, ForgetRecalls DEF Tick
<1>8. Alert(e', parked')
  BY <1>0, <1>5, <1>7, HushedAlert DEF Good
<1>9. Good(e', parked')
  BY <1>0, <1>4, <1>5, <1>6, <1>7, <1>8, ObjectsStay
<1> QED BY <1>7, <1>9 DEF IInv

LEMMA CompleteKeeps ==
  ASSUME IInv, NEW ev \in Outside, Complete(ev)
  PROVE  IInv'
<1>0. Shape(e) /\ Good(e, parked) /\ Hist(parked) /\ ev \in Event
  BY Events DEF IInv, Good
<1>1. Shape(e') /\ Told(e, e', ev) /\ SameClock(e, e') /\ SameObjects(e, e')
  BY <1>0, NotifyTells DEF Complete
<1>2. Hist(parked') /\ Recalled(e, e', parked, parked')
  BY <1>0, <1>1, ForgetRecalls DEF Complete
<1>3. Fewer(e, e') /\ Alert(e', parked')
  BY <1>0, <1>1, <1>2, ToldFewer, ToldAlert DEF Good
<1>4. Armed(e')
  BY <1>0, <1>1, <1>3, ArmedKept DEF Good
<1>5. e'.done \subseteq e.done \cup Outside
  BY <1>1 DEF Told
<1>6. Good(e', parked')
  BY <1>0, <1>1, <1>2, <1>3, <1>4, <1>5, ObjectsStay DEF SameObjects
<1> QED BY <1>2, <1>6 DEF IInv

\* The event of an object is completed and replaced, after its channel became x.
LEMMA ChanEventMoves ==
  ASSUME NEW s, NEW h, Good(s, h), NEW c \in Chan, NEW x \in ChanRec, HasChan(s, c),
         x.ev = s.chan[c].ev, s.next <= MaxEvent
  PROVE  LET put == [s EXCEPT !.chan = [s.chan EXCEPT ![c] = x]]
             n   == ChanEvent(put, c)
         IN  /\ Shape(n) /\ n.chan = [s.chan EXCEPT ![c] = [x EXCEPT !.ev = s.next]]
             /\ n.futex = s.futex /\ SameClock(s, n)
             /\ Passes(s, n, s.chan[c].ev, s.next)
             /\ Told(s, n, s.chan[c].ev) /\ s.chan[c].ev # None /\ s.next # None
<1> DEFINE put == [s EXCEPT !.chan = [s.chan EXCEPT ![c] = x]]
           a   == s.chan[c].ev
           y   == [x EXCEPT !.ev = s.next]
           r   == Rotated(put, a)
           n   == ChanEvent(put, c)
<1>0. Shape(s) /\ s.next \in Nat /\ s.chan \in [Chan -> ChanRec]
  BY DEF Good, Shape, ChanRec
<1>1. /\ Shape(put) /\ put.chan = [s.chan EXCEPT ![c] = x]
      /\ put.st = s.st /\ put.wait = s.wait /\ put.done = s.done /\ put.waiters = s.waiters
      /\ put.heap = s.heap /\ put.tick = s.tick /\ put.next = s.next
      /\ put.refs = s.refs /\ put.futex = s.futex
  BY <1>0, ChanPut
<1> HIDE DEF put
<1>2. put.chan[c] = x /\ put.chan[c].ev = a
  BY <1>0, <1>1
<1>3. a # None /\ a \in 1..MaxEvent /\ a \in Event /\ a < s.next
  <2>1. <<"chan", c>> \in Obj /\ EvOf(s, <<"chan", c>>) = a
    BY DEF Obj, EvOf
  <2>2. a # None
    BY DEF Good, Living
  <2> QED BY <2>1, <2>2, Events DEF Good, Owned
<1>4. s.next \in 1..MaxEvent /\ s.next \in Event /\ s.next # None
  BY <1>0, Events DEF Good, Owned, None
<1> HIDE DEF a
<1>5. /\ Shape(r) /\ Told(put, r, a) /\ SameClock(put, r)
      /\ r.chan = put.chan /\ r.futex = put.futex /\ r.next = put.next + 1
      /\ r.refs = [put.refs EXCEPT ![a] = Less(@), ![put.next] = @ + 1]
  <2>1. put.next \in 1..MaxEvent /\ a # put.next
    BY <1>0, <1>1, <1>3, <1>4
  <2> QED BY <1>1, <1>3, <2>1, RotatedTells
<1>6. n = [r EXCEPT !.chan[c].ev = put.next]
  BY <1>2 DEF ChanEvent
<1> HIDE DEF r, n
<1>7. y \in ChanRec /\ r.chan[c] = x
  BY <1>2, <1>4, <1>5 DEF ChanRec
<1>8. n = [r EXCEPT !.chan = [r.chan EXCEPT ![c] = y]]
  BY <1>1, <1>5, <1>6, <1>7 DEF Shape
<1> HIDE DEF y
<1>9. /\ Shape(n) /\ n.chan = [r.chan EXCEPT ![c] = y]
      /\ n.st = r.st /\ n.wait = r.wait /\ n.done = r.done /\ n.waiters = r.waiters
      /\ n.heap = r.heap /\ n.tick = r.tick /\ n.next = r.next
      /\ n.refs = r.refs /\ n.futex = r.futex
  BY <1>5, <1>7, <1>8, ChanPut
<1>10. n.chan = [s.chan EXCEPT ![c] = y]
  BY <1>0, <1>1, <1>5, <1>9
<1>11. Told(s, n, a)
  BY <1>1, <1>5, <1>9 DEF Told, Satisfied
<1>12. Passes(s, n, a, s.next)
  BY <1>1, <1>3, <1>4, <1>5, <1>9, <1>11 DEF Passes, Told
<1> QED BY <1>1, <1>3, <1>4, <1>5, <1>9, <1>10, <1>11, <1>12 DEF SameClock, y, n, a, put

\* The step of one channel, seen from the specification.
LEMMA ChanStep ==
  ASSUME IInv, Forget, Shape(e'), NEW c \in Chan, NEW x,
         e'.chan = [e.chan EXCEPT ![c] = x], e'.futex = e.futex, SameClock(e, e'),
         Passes(e, e', e.chan[c].ev, x.ev), x.phase \in {"open", "closed"} <=> x.ev # None,
         \/ Told(e, e', e.chan[c].ev) /\ e.chan[c].ev # None
         \/ /\ Hushed(e, e')
            /\ \/ e.chan[c].phase # "open" \/ e.chan[c].queue # <<>>
               \/ x.phase = "open" /\ x.queue = <<>> /\ x.ev = e.chan[c].ev
  PROVE  IInv'
<1>1. Hist(parked') /\ Recalled(e, e', parked, parked')
  BY ForgetRecalls DEF IInv
<1>2. Good(e', parked')
  BY <1>1, ChanMoves DEF IInv
<1> QED BY <1>1, <1>2 DEF IInv

\* A channel changes, and nobody need be told.
LEMMA ChanSilent ==
  ASSUME IInv, Forget, NEW c \in Chan, NEW x \in ChanRec,
         e' = [e EXCEPT !.chan = [e.chan EXCEPT ![c] = x]], HasChan(e, c),
         x.ev = e.chan[c].ev, x.phase \in {"open", "closed"},
         \/ e.chan[c].phase # "open" \/ e.chan[c].queue # <<>>
         \/ x.phase = "open" /\ x.queue = <<>>
  PROVE  IInv'
<1>1. /\ Shape(e') /\ e'.chan = [e.chan EXCEPT ![c] = x]
      /\ e'.st = e.st /\ e'.wait = e.wait /\ e'.done = e.done /\ e'.waiters = e.waiters
      /\ e'.heap = e.heap /\ e'.tick = e.tick /\ e'.next = e.next
      /\ e'.refs = e.refs /\ e'.futex = e.futex
  BY ChanPut DEF IInv, Good
<1>2. e.chan[c].ev # None
  BY DEF IInv, Good, Living
<1>3. Hushed(e, e') /\ SameClock(e, e') /\ Passes(e, e', e.chan[c].ev, x.ev)
  BY <1>1 DEF Hushed, Fewer, SameClock, Passes
<1> QED BY <1>1, <1>2, <1>3, ChanStep

\* A channel changes and its event is completed.
LEMMA ChanRings ==
  ASSUME IInv, Forget, NEW c \in Chan, NEW x \in ChanRec,
         e' = ChanEvent([e EXCEPT !.chan = [e.chan EXCEPT ![c] = x]], c), HasChan(e, c),
         x.ev = e.chan[c].ev, x.phase \in {"open", "closed"}, Fits
  PROVE  IInv'
<1> DEFINE y == [x EXCEPT !.ev = e.next]
<1>1. /\ Shape(e') /\ e'.chan = [e.chan EXCEPT ![c] = y]
      /\ e'.futex = e.futex /\ SameClock(e, e')
      /\ Passes(e, e', e.chan[c].ev, e.next)
      /\ Told(e, e', e.chan[c].ev) /\ e.chan[c].ev # None /\ e.next # None
  BY ChanEventMoves DEF IInv, Fits
<1>2. y.ev = e.next /\ y.phase = x.phase
  BY DEF ChanRec
<1> HIDE DEF y
<1> QED BY <1>1, <1>2, ChanStep

LEMMA OpenKeeps ==
  ASSUME IInv, NEW c \in Chan, NEW p \in Proc, Open(c, p, Holder)
  PROVE  IInv'
<1> DEFINE x == [phase |-> "open", owner |-> p, ev |-> e.next, queue |-> <<>>,
                 ref |-> Cardinality(Holder),
                 held |-> [h \in Holder |-> IF h \in Holder THEN 1 ELSE 0]]
           R == [e.refs EXCEPT ![e.next] = @ + 1]
           C == [e.chan EXCEPT ![c] = x]
<1>0. Shape(e) /\ e.next \in Nat /\ e.chan \in [Chan -> ChanRec]
  BY DEF IInv, Good, Shape, ChanRec
<1>1. e.next \in 1..MaxEvent /\ e.next \in Event /\ e.next # None
  BY <1>0, Events DEF IInv, Good, Owned, None, Open, Fits
<1>2. e.chan[c].phase = "new" /\ e.chan[c].ev = None
  BY DEF Open, IInv, Good, Living, HasChan
<1>3. x \in ChanRec
  <2>1. Cardinality(Holder) \in Int
    BY EventAssumption, FS_CardinalityType
  <2> HIDE <1>2
  <2> QED BY <1>1, <2>1 DEF ChanRec
<1>4. R \in [Event -> Nat] /\ C \in [Chan -> ChanRec]
  BY <1>0, <1>1, <1>3 DEF Shape
<1>a. e' = ChanCreate(e, c, p, Holder)
  BY DEF Open
<1>b. e' = [e EXCEPT !.chan[c] = x, !.refs[e.next] = @ + 1, !.next = @ + 1]
  BY <1>a, Zenon DEF ChanCreate
<1>6. x.ev = e.next /\ x.phase = "open"
  OBVIOUS
<1> HIDE DEF x
<1>5. e' = [e EXCEPT !.chan = C, !.refs = R, !.next = e.next + 1]
  BY <1>0, <1>b DEF Shape
<1> HIDE DEF x, R, C
<1> DEFINE put == [e EXCEPT !.chan = C]
<1>c. /\ Shape(put) /\ put.chan = C
      /\ put.st = e.st /\ put.wait = e.wait /\ put.done = e.done /\ put.waiters = e.waiters
      /\ put.heap = e.heap /\ put.tick = e.tick /\ put.futex = e.futex
  BY <1>0, <1>3, ChanPut DEF C
<1> HIDE DEF put
<1>d. e' = [put EXCEPT !.refs = R, !.next = e.next + 1] /\ e.next + 1 \in Nat
  BY <1>0, <1>5 DEF put
<1>7. /\ e'.chan = C /\ e'.refs = R /\ e'.next = e.next + 1
      /\ e'.st = e.st /\ e'.wait = e.wait /\ e'.done = e.done /\ e'.waiters = e.waiters
      /\ e'.heap = e.heap /\ e'.tick = e.tick /\ e'.futex = e.futex
      /\ Shape(e')
  BY <1>4, <1>c, <1>d DEF Shape
<1>9. Hushed(e, e') /\ SameClock(e, e') /\ Passes(e, e', e.chan[c].ev, x.ev)
  BY <1>1, <1>2, <1>6, <1>7 DEF Hushed, Fewer, SameClock, Passes, R, Open, Fits
<1> QED BY <1>1, <1>2, <1>6, <1>7, <1>9, ChanStep DEF C, Open

LEMMA SendKeeps ==
  ASSUME IInv, NEW c \in Chan, NEW who \in Who, NEW m \in Msg, Send(c, who, m)
  PROVE  IInv'
<1> DEFINE x == [e.chan[c] EXCEPT !.queue = Append(e.chan[c].queue, m)]
           put == [e EXCEPT !.chan = [e.chan EXCEPT ![c] = x]]
<1>0. Shape(e) /\ e.chan \in [Chan -> ChanRec]
  BY DEF IInv, Good, Shape, ChanRec
<1>1. CanSend(e, c, who) /\ e.chan[c].phase = "open" /\ HasChan(e, c)
  BY DEF Send, CanSend, HasChan
<1>2. x \in ChanRec /\ x.ev = e.chan[c].ev /\ x.phase = "open"
  <2>1. Append(e.chan[c].queue, m) \in Seq(Msg)
    BY <1>0 DEF ChanRec
  <2> HIDE DEF Send
  <2> QED BY <1>0, <1>1, <2>1 DEF ChanRec
<1>3. put = [e EXCEPT !.chan[c].queue = Append(@, m)]
  BY <1>0 DEF ChanRec, Shape
<1>4. CASE e.chan[c].queue = <<>>
  <2>1. e' = ChanEvent(put, c)
    BY <1>1, <1>3, <1>4 DEF Send, ChanSend
  <2> HIDE DEF x
  <2> QED BY <1>1, <1>2, <2>1, ChanRings DEF Send
<1>5. CASE e.chan[c].queue # <<>>
  <2>1. e' = put
    BY <1>1, <1>3, <1>5 DEF Send, ChanSend
  <2> HIDE DEF x
  <2> QED BY <1>1, <1>2, <1>5, <2>1, ChanSilent DEF Send
<1> QED BY <1>4, <1>5

LEMMA ReceiveKeeps ==
  ASSUME IInv, NEW c \in Chan, NEW who \in Who, Receive(c, who)
  PROVE  IInv'
<1>0. Shape(e) /\ e.chan \in [Chan -> ChanRec] /\ HasChan(e, c) /\ e.chan[c].queue # <<>>
  BY DEF IInv, Good, Shape, ChanRec, Receive
<1>1. PICK Q \in Seq(Msg) : e' = [e EXCEPT !.chan[c].queue = Q]
  <2>1. Tail(e.chan[c].queue) \in Seq(Msg) /\ <<>> \in Seq(Msg)
    BY <1>0 DEF ChanRec
  <2>2. e' = ChanRecv(e, c) \/ e' = ChanRecvAll(e, c)
    BY DEF Receive
  <2>3. ChanRecv(e, c) = [e EXCEPT !.chan[c].queue = Tail(e.chan[c].queue)]
    BY <1>0 DEF ChanRecv, ChanRec, Shape
  <2>4. ChanRecvAll(e, c) = [e EXCEPT !.chan[c].queue = <<>>]
    BY DEF ChanRecvAll
  <2> QED BY <2>1, <2>2, <2>3, <2>4
<1> DEFINE x == [e.chan[c] EXCEPT !.queue = Q]
<1>2. x \in ChanRec /\ x.ev = e.chan[c].ev /\ x.phase = e.chan[c].phase
  BY <1>0 DEF ChanRec
<1>3. e' = [e EXCEPT !.chan = [e.chan EXCEPT ![c] = x]]
  BY <1>0, <1>1 DEF ChanRec, Shape
<1> HIDE DEF x
<1> QED BY <1>0, <1>2, <1>3, ChanSilent DEF Receive, HasChan

LEMMA RetainReleaseKeep ==
  ASSUME IInv, NEW c \in Chan, NEW h \in Holder, Retain(c, h) \/ Release(c, h)
  PROVE  IInv'
<1>0. Shape(e) /\ e.chan \in [Chan -> ChanRec] /\ HasChan(e, c)
  BY DEF IInv, Good, Shape, ChanRec, Retain, Release
<1> DEFINE k == e.chan[c]
<1>a. k \in ChanRec /\ k.ref \in Int /\ k.held \in [Holder -> Int]
  BY <1>0 DEF ChanRec
<1>1. PICK x \in ChanRec : /\ e' = [e EXCEPT !.chan[c] = x]
                           /\ x.ev = k.ev /\ x.phase = k.phase /\ x.queue = k.queue
  <2>1. CASE Retain(c, h)
    <3> DEFINE y == [k EXCEPT !.ref = @ + 1, !.held[h] = @ + 1]
    <3>1. e' = [e EXCEPT !.chan[c] = y]
      BY <2>1, Zenon DEF Retain, ChanRetain
    <3> HIDE DEF k
    <3>2. y = [k EXCEPT !.ref = k.ref + 1, !.held = [k.held EXCEPT ![h] = @ + 1]]
      BY <1>a DEF ChanRec
    <3>3. k.ref + 1 \in Int /\ [k.held EXCEPT ![h] = @ + 1] \in [Holder -> Int]
      BY <1>a
    <3>4. y \in ChanRec /\ y.ev = k.ev /\ y.phase = k.phase /\ y.queue = k.queue
      BY <1>a, <3>2, <3>3 DEF ChanRec
    <3> HIDE DEF y
    <3> QED BY <3>1, <3>4
  <2>2. CASE Release(c, h)
    <3> DEFINE y == [k EXCEPT !.ref = @ - 1, !.held[h] = @ - 1]
    <3>0. HasChan(e, c) /\ ~(k.held[h] = 0)
      BY <1>a, <2>2 DEF Release
    <3>1. e' = [e EXCEPT !.chan[c] = y]
      BY <2>2, <3>0, Zenon DEF Release, ChanRelease
    <3> HIDE DEF k
    <3>2. y = [k EXCEPT !.ref = k.ref - 1, !.held = [k.held EXCEPT ![h] = @ - 1]]
      BY <1>a DEF ChanRec
    <3>3. k.ref - 1 \in Int /\ [k.held EXCEPT ![h] = @ - 1] \in [Holder -> Int]
      BY <1>a
    <3>4. y \in ChanRec /\ y.ev = k.ev /\ y.phase = k.phase /\ y.queue = k.queue
      BY <1>a, <3>2, <3>3 DEF ChanRec
    <3> HIDE DEF y
    <3> QED BY <3>1, <3>4
  <2> HIDE DEF k
  <2> QED BY <2>1, <2>2
<1>2. e' = [e EXCEPT !.chan = [e.chan EXCEPT ![c] = x]]
  BY <1>0, <1>1 DEF Shape
<1>3. /\ x.ev = e.chan[c].ev /\ x.phase = e.chan[c].phase
      /\ x.queue = e.chan[c].queue
  BY <1>1
<1>4. Forget
  BY DEF Retain, Release
<1> QED BY <1>0, <1>2, <1>3, <1>4, ChanSilent DEF HasChan

LEMMA CloseKeeps ==
  ASSUME IInv, NEW c \in Chan, NEW who \in Who, Close(c, who)
  PROVE  IInv'
<1> DEFINE x == [e.chan[c] EXCEPT !.phase = "closed"]
           put == [e EXCEPT !.chan = [e.chan EXCEPT ![c] = x]]
<1>0. Shape(e) /\ e.chan \in [Chan -> ChanRec] /\ HasChan(e, c)
  BY DEF IInv, Good, Shape, ChanRec, Close
<1>1. x \in ChanRec /\ x.ev = e.chan[c].ev /\ x.phase = "closed"
  BY <1>0 DEF ChanRec
<1>2. put = [e EXCEPT !.chan[c].phase = "closed"]
  BY <1>0 DEF ChanRec, Shape
<1>3. CASE e.chan[c].phase = "open" /\ e.chan[c].queue = <<>>
  <2>1. e' = ChanEvent(put, c)
    BY <1>2, <1>3 DEF Close, ChanClose
  <2> HIDE DEF x
  <2> QED BY <1>0, <1>1, <2>1, ChanRings DEF Close
<1>4. CASE ~(e.chan[c].phase = "open" /\ e.chan[c].queue = <<>>)
  <2>1. e' = put
    BY <1>2, <1>4 DEF Close, ChanClose
  <2> HIDE DEF x
  <2> QED BY <1>0, <1>1, <1>4, <2>1, ChanSilent DEF Close
<1> QED BY <1>3, <1>4

LEMMA DestroyKeeps ==
  ASSUME IInv, NEW c \in Chan, NEW who \in Who, Destroy(c, who)
  PROVE  IInv'
<1> DEFINE a == e.chan[c].ev
           u == Unref(e, a)
           x == [e.chan[c] EXCEPT !.phase = "gone", !.ev = None]
<1>0. /\ Shape(e) /\ e.chan \in [Chan -> ChanRec] /\ HasChan(e, c)
      /\ e.chan[c].phase = "closed"
  BY DEF IInv, Good, Shape, ChanRec, Destroy, GcEligible, HasChan
<1>1. a # None /\ a \in Event
  <2>1. a # None
    BY <1>0 DEF IInv, Good, Living
  <2> QED BY <1>0, <2>1 DEF ChanRec
<1>2. /\ Shape(u) /\ u.refs = [e.refs EXCEPT ![a] = Less(@)]
      /\ u.st = e.st /\ u.wait = e.wait /\ u.done = e.done /\ u.waiters = e.waiters
      /\ u.heap = e.heap /\ u.tick = e.tick /\ u.next = e.next
      /\ u.chan = e.chan /\ u.futex = e.futex
  BY <1>0, <1>1, UnrefFields
<1>3. e' = [u EXCEPT !.chan[c].phase = "gone", !.chan[c].ev = None]
  BY DEF Destroy, ChanDestroy, ChanRemove
<1> HIDE DEF u, a
<1>4. x \in ChanRec /\ x.ev = None /\ x.phase = "gone"
  BY <1>0 DEF ChanRec
<1>5. e' = [u EXCEPT !.chan = [u.chan EXCEPT ![c] = x]]
  BY <1>0, <1>2, <1>3 DEF Shape, ChanRec
<1> HIDE DEF x
<1>6. /\ Shape(e') /\ e'.chan = [u.chan EXCEPT ![c] = x]
      /\ e'.st = u.st /\ e'.wait = u.wait /\ e'.done = u.done /\ e'.waiters = u.waiters
      /\ e'.heap = u.heap /\ e'.tick = u.tick /\ e'.next = u.next
      /\ e'.refs = u.refs /\ e'.futex = u.futex
  BY <1>2, <1>4, <1>5, ChanPut
<1>7. Hushed(e, e') /\ SameClock(e, e') /\ Passes(e, e', a, x.ev)
  BY <1>1, <1>2, <1>4, <1>6 DEF Hushed, Fewer, SameClock, Passes
<1> QED BY <1>0, <1>2, <1>4, <1>6, <1>7, ChanStep DEF Destroy, a

LEMMA FutexStep ==
  ASSUME IInv, Forget, Shape(e'), NEW f \in Futex, NEW x,
         e'.futex = [e.futex EXCEPT ![f] = x], e'.chan = e.chan, SameClock(e, e'),
         Passes(e, e', e.futex[f].ev, x.ev), x.phase = "live" <=> x.ev # None,
         \/ Told(e, e', e.futex[f].ev) /\ e.futex[f].ev # None
         \/ Hushed(e, e') /\ e.futex[f].phase # "live"
  PROVE  IInv'
<1>1. Hist(parked') /\ Recalled(e, e', parked, parked')
  BY ForgetRecalls DEF IInv
<1>2. Good(e', parked')
  BY <1>1, FutexMoves DEF IInv
<1> QED BY <1>1, <1>2 DEF IInv

LEMMA MakeKeeps ==
  ASSUME IInv, NEW f \in Futex, Make(f)
  PROVE  IInv'
<1> DEFINE x == [phase |-> "live", ev |-> e.next, val |-> 0]
           R == [e.refs EXCEPT ![e.next] = @ + 1]
           F == [e.futex EXCEPT ![f] = x]
           put == [e EXCEPT !.futex = F]
<1>0. Shape(e) /\ e.next \in Nat
  BY DEF IInv, Good, Shape
<1>1. e.next \in 1..MaxEvent /\ e.next \in Event /\ e.next # None
  BY <1>0, Events DEF IInv, Good, Owned, None, Make, Fits
<1>2. e.futex[f].phase = "new" /\ e.futex[f].ev = None
  BY DEF Make, IInv, Good, Living, HasFutex
<1>3. x \in FutexRec /\ x.ev = e.next /\ x.phase = "live"
  BY <1>1 DEF FutexRec
<1>4. R \in [Event -> Nat]
  BY <1>0, <1>1 DEF Shape
<1>5. e' = [e EXCEPT !.futex[f] = x, !.refs[e.next] = @ + 1, !.next = @ + 1]
  BY Zenon DEF Make, FutexCreate
<1> HIDE DEF x
<1>6. /\ Shape(put) /\ put.futex = F
      /\ put.st = e.st /\ put.wait = e.wait /\ put.done = e.done /\ put.waiters = e.waiters
      /\ put.heap = e.heap /\ put.tick = e.tick /\ put.chan = e.chan
  BY <1>0, <1>3, FutexPut
<1> HIDE DEF R, F
<1>7. e' = [put EXCEPT !.refs = R, !.next = e.next + 1] /\ e.next + 1 \in Nat
  BY <1>0, <1>5 DEF Shape, R, F
<1> HIDE DEF put
<1>8. /\ e'.futex = F /\ e'.refs = R /\ e'.next = e.next + 1
      /\ e'.st = e.st /\ e'.wait = e.wait /\ e'.done = e.done /\ e'.waiters = e.waiters
      /\ e'.heap = e.heap /\ e'.tick = e.tick /\ e'.chan = e.chan
      /\ Shape(e')
  BY <1>4, <1>6, <1>7 DEF Shape
<1>9. Hushed(e, e') /\ SameClock(e, e') /\ Passes(e, e', e.futex[f].ev, x.ev)
  BY <1>1, <1>2, <1>3, <1>8 DEF Hushed, Fewer, SameClock, Passes, R, Make, Fits
<1> QED BY <1>1, <1>2, <1>3, <1>8, <1>9, FutexStep DEF F, Make

\* Two fields of one futex.
LEMMA FutexTwice ==
  ASSUME NEW s, Shape(s), NEW f \in Futex, NEW x \in FutexRec, NEW y \in FutexRec,
         NEW t, t = [s EXCEPT !.futex = [s.futex EXCEPT ![f] = x]]
  PROVE  [t EXCEPT !.futex[f] = y] = [s EXCEPT !.futex = [s.futex EXCEPT ![f] = y]]
<1> DEFINE F == [s.futex EXCEPT ![f] = x]
           G == [s.futex EXCEPT ![f] = y]
<1>1. t.futex = F /\ F \in [Futex -> FutexRec] /\ [F EXCEPT ![f] = y] = G
  BY DEF Shape, FutexRec
<1>a. t = [s EXCEPT !.futex = F]
  OBVIOUS
<1> HIDE DEF F, G
<1>2. [t EXCEPT !.futex = G] = [s EXCEPT !.futex = G]
  BY <1>a DEF Shape
<1>3. [t EXCEPT !.futex[f] = y] = [t EXCEPT !.futex = [t.futex EXCEPT ![f] = y]]
  OBVIOUS
<1>4. [t EXCEPT !.futex[f] = y] = [s EXCEPT !.futex = G]
  BY <1>1, <1>2, <1>3
<1> QED BY <1>4 DEF G

LEMMA StoreKeeps ==
  ASSUME IInv, NEW f \in Futex, NEW v \in {0, 1}, Store(f, v)
  PROVE  IInv'
<1> DEFINE a == e.futex[f].ev
           r == Rotated(e, a)
           x == [e.futex[f] EXCEPT !.val = v, !.ev = e.next]
<1>0. /\ Shape(e) /\ e.next \in Nat /\ e.futex \in [Futex -> FutexRec]
      /\ HasFutex(e, f) /\ Forget /\ Fits
  BY DEF IInv, Good, Shape, FutexRec, Store
<1>1. CASE e.futex[f].val = v
  <2>1. e' = e
    BY <1>1 DEF Store, FutexStore
  <2>2. Hushed(e, e') /\ SameObjects(e, e') /\ SameClock(e, e')
    BY <2>1 DEF Hushed, SameObjects, SameClock, Fewer
  <2>3. Shape(e')
    BY <1>0, <2>1
  <2> QED BY <1>0, <2>2, <2>3, QuietStep
<1>2. CASE e.futex[f].val # v
  <2>1. a # None /\ a \in 1..MaxEvent /\ a \in Event /\ a < e.next
    <3>1. <<"futex", f>> \in Obj /\ EvOf(e, <<"futex", f>>) = a
      BY DEF Obj, EvOf
    <3>2. a # None
      BY <1>0 DEF IInv, Good, Living
    <3> QED BY <3>1, <3>2, Events DEF IInv, Good, Owned
  <2>2. e.next \in 1..MaxEvent /\ e.next \in Event /\ e.next # None
    BY <1>0, Events DEF IInv, Good, Owned, None, Fits
  <2>3. e' = [r EXCEPT !.futex[f].val = v, !.futex[f].ev = e.next]
    BY <1>0, <1>2, Zenon DEF Store, FutexStore
  <2> HIDE DEF a
  <2>4. /\ Shape(r) /\ Told(e, r, a) /\ SameClock(e, r)
        /\ r.chan = e.chan /\ r.futex = e.futex /\ r.next = e.next + 1
        /\ r.refs = [e.refs EXCEPT ![a] = Less(@), ![e.next] = @ + 1]
    <3>1. a # e.next
      BY <1>0, <2>1, <2>2
    <3> QED BY <1>0, <2>1, <2>2, <3>1, RotatedTells
  <2> HIDE DEF r
  <2> DEFINE k == e.futex[f]
             w == [k EXCEPT !.val = v]
  <2>5. /\ x \in FutexRec /\ x.ev = e.next /\ x.phase = "live"
        /\ w \in FutexRec /\ x = [w EXCEPT !.ev = e.next]
    <3>1. k \in FutexRec /\ k.phase = "live" /\ v \in Nat /\ e.next \in Event
      BY <1>0, <2>2 DEF HasFutex
    <3>2. x = [k EXCEPT !.val = v, !.ev = e.next]
      OBVIOUS
    <3> HIDE DEF k, x
    <3> QED BY <3>1, <3>2 DEF FutexRec
  <2>6. e' = [r EXCEPT !.futex = [r.futex EXCEPT ![f] = x]]
    <3> DEFINE t == [r EXCEPT !.futex = [r.futex EXCEPT ![f] = w]]
    <3>0. t = [r EXCEPT !.futex = [r.futex EXCEPT ![f] = w]]
      OBVIOUS
    <3>1. t = [r EXCEPT !.futex[f].val = v]
      BY <2>4
    <3>2. t.futex[f] = w
      BY <1>0, <2>4 DEF Shape
    <3>3. e' = [t EXCEPT !.futex[f].ev = e.next]
      BY <2>3, <3>1
    <3> HIDE DEF t, x, w
    <3>4. e' = [t EXCEPT !.futex[f] = x]
      BY <2>5, <3>2, <3>3
    <3>5. Shape(r) /\ x \in FutexRec /\ w \in FutexRec
      BY <2>4, <2>5
    <3> QED BY <3>0, <3>4, <3>5, FutexTwice
  <2> HIDE DEF x
  <2>7. /\ Shape(e') /\ e'.futex = [r.futex EXCEPT ![f] = x]
        /\ e'.st = r.st /\ e'.wait = r.wait /\ e'.done = r.done /\ e'.waiters = r.waiters
        /\ e'.heap = r.heap /\ e'.tick = r.tick /\ e'.next = r.next
        /\ e'.refs = r.refs /\ e'.chan = r.chan
    BY <2>4, <2>5, <2>6, FutexPut
  <2>8. Told(e, e', a) /\ SameClock(e, e')
    BY <2>4, <2>7 DEF Told, Satisfied, SameClock
  <2>9. Passes(e, e', a, x.ev)
    BY <1>0, <2>1, <2>2, <2>4, <2>5, <2>7, <2>8 DEF Passes, Told
  <2> HIDE DEF k, w
  <2>10. e'.futex = [e.futex EXCEPT ![f] = x] /\ e'.chan = e.chan /\ Shape(e')
    BY <2>4, <2>7
  <2> QED BY <1>0, <2>1, <2>2, <2>5, <2>8, <2>9, <2>10, FutexStep DEF a
<1> QED BY <1>1, <1>2

LEMMA UnmakeKeeps ==
  ASSUME IInv, NEW f \in Futex, Unmake(f)
  PROVE  IInv'
<1> DEFINE a == e.futex[f].ev
           u == Unref(e, a)
           m == Notify(u, a)
           x == [e.futex[f] EXCEPT !.phase = "gone", !.ev = None]
<1>0. /\ Shape(e) /\ e.futex \in [Futex -> FutexRec]
      /\ HasFutex(e, f) /\ Forget
  BY DEF IInv, Good, Shape, FutexRec, Unmake
<1>1. a # None /\ a \in Event
  <2>1. a # None
    BY <1>0 DEF IInv, Good, Living
  <2> QED BY <1>0, <2>1 DEF FutexRec
<1>2. e' = [m EXCEPT !.futex[f].phase = "gone", !.futex[f].ev = None]
  BY <1>0, Zenon DEF Unmake, FutexDestroy
<1>3. x \in FutexRec /\ x.ev = None /\ x.phase = "gone"
  BY <1>0 DEF FutexRec
<1> HIDE DEF a
<1>4. /\ Shape(u) /\ u.refs = [e.refs EXCEPT ![a] = Less(@)]
      /\ u.st = e.st /\ u.wait = e.wait /\ u.done = e.done /\ u.waiters = e.waiters
      /\ u.heap = e.heap /\ u.tick = e.tick /\ u.next = e.next
      /\ u.chan = e.chan /\ u.futex = e.futex
  BY <1>0, <1>1, UnrefFields
<1> HIDE DEF u
<1>5. Shape(m) /\ Told(u, m, a) /\ SameClock(u, m) /\ SameObjects(u, m)
  BY <1>1, <1>4, NotifyTells
<1> HIDE DEF m
<1> DEFINE w == [e.futex[f] EXCEPT !.phase = "gone"]
<1>a. w \in FutexRec /\ x = [w EXCEPT !.ev = None] /\ m.futex = e.futex
  BY <1>0, <1>4, <1>5 DEF FutexRec, SameObjects
<1>6. e' = [m EXCEPT !.futex = [m.futex EXCEPT ![f] = x]]
  <2> DEFINE t == [m EXCEPT !.futex = [m.futex EXCEPT ![f] = w]]
  <2>0. t = [m EXCEPT !.futex = [m.futex EXCEPT ![f] = w]]
    OBVIOUS
  <2>1. t = [m EXCEPT !.futex[f].phase = "gone"]
    BY <1>a
  <2>2. t.futex[f] = w
    BY <1>0, <1>5, <1>a DEF Shape
  <2>3. e' = [t EXCEPT !.futex[f].ev = None]
    BY <1>2, <2>1
  <2> HIDE DEF t, x, w
  <2>4. e' = [t EXCEPT !.futex[f] = x]
    BY <1>a, <2>2, <2>3
  <2> QED BY <1>3, <1>5, <1>a, <2>0, <2>4, FutexTwice
<1> HIDE DEF x
<1>7. /\ Shape(e') /\ e'.futex = [m.futex EXCEPT ![f] = x]
      /\ e'.st = m.st /\ e'.wait = m.wait /\ e'.done = m.done /\ e'.waiters = m.waiters
      /\ e'.heap = m.heap /\ e'.tick = m.tick /\ e'.next = m.next
      /\ e'.refs = m.refs /\ e'.chan = m.chan
  BY <1>3, <1>5, <1>6, FutexPut
<1>8. Told(e, e', a) /\ SameClock(e, e')
  BY <1>4, <1>5, <1>7 DEF Told, Satisfied, SameClock
<1>9. Passes(e, e', a, x.ev)
  BY <1>1, <1>3, <1>4, <1>5, <1>7, <1>8 DEF Passes, Told, SameObjects
<1> QED BY <1>0, <1>1, <1>3, <1>4, <1>5, <1>7, <1>8, <1>9, FutexStep DEF a, SameObjects

-----------------------------------------------------------------------------
(* Going to sleep.                                                         *)

Due(s, ticks) == IF ticks = None THEN None ELSE s.tick + ticks

\* p sleeps until policy holds of ids.
Slept(s, n, p, ids, policy, ticks) ==
  /\ Shape(n) /\ n.done = s.done /\ n.tick = s.tick /\ n.next = s.next
  /\ n.refs = s.refs /\ n.chan = s.chan /\ n.futex = s.futex
  /\ n.st = [s.st EXCEPT ![p] = "waiting"]
  /\ n.wait = [s.wait EXCEPT ![p] = [ids |-> ids, policy |-> policy, due |-> Due(s, ticks)]]
  /\ s.heap \subseteq n.heap
  /\ Due(s, ticks) # None => <<Due(s, ticks), p>> \in n.heap
  /\ n.waiters = [ev \in Event |-> IF ev \in ids THEN s.waiters[ev] \cup {p}
                                   ELSE s.waiters[ev]]

LEMMA WaitFields ==
  ASSUME NEW s, Shape(s), NEW p \in Proc, NEW ids \in SUBSET Event, NEW policy \in Policy,
         NEW ticks \in Nat, ~Satisfied(s, ids, policy)
  PROVE  Slept(s, WaitOnEvents(s, p, ids, policy, ticks), p, ids, policy, ticks)
<1> DEFINE due == Due(s, ticks)
           V == [s.wait EXCEPT ![p] = [ids |-> ids, policy |-> policy, due |-> due]]
           S == [s.st EXCEPT ![p] = "waiting"]
           H == IF due = None THEN s.heap ELSE s.heap \cup {<<due, p>>}
           X == [ev \in Event |-> IF ev \in ids THEN s.waiters[ev] \cup {p} ELSE s.waiters[ev]]
           n == WaitOnEvents(s, p, ids, policy, ticks)
<1>1. due \in Nat
  BY DEF Due, None, Shape
<1>2. n = [s EXCEPT !.st[p] = "waiting",
                    !.wait[p] = [ids |-> ids, policy |-> policy, due |-> due],
                    !.heap = H, !.waiters = X]
  BY Zenon DEF WaitOnEvents, Due
<1> HIDE DEF due
<1>3. /\ V \in [Proc -> [ids : SUBSET Event, policy : Policy, due : Nat]]
      /\ S \in [Proc -> PState] /\ X \in [Event -> SUBSET Proc]
  BY <1>1 DEF Shape, PState
<1>4. H \in SUBSET (Nat \X Proc)
  BY <1>1 DEF Shape
<1> HIDE DEF H, X, n
<1>5. n = [s EXCEPT !.st = S, !.wait = V, !.heap = H, !.waiters = X]
  BY <1>2 DEF Shape
<1> HIDE DEF V, S
<1>6. /\ n.done = s.done /\ n.tick = s.tick /\ n.next = s.next
      /\ n.refs = s.refs /\ n.chan = s.chan /\ n.futex = s.futex
      /\ n.st = S /\ n.wait = V /\ n.heap = H /\ n.waiters = X
  BY <1>5 DEF Shape
<1>7. Shape(n)
  BY <1>3, <1>4, <1>5 DEF Shape
<1>8. s.heap \subseteq H /\ (due # None => <<due, p>> \in H)
  BY DEF H
<1> QED BY <1>6, <1>7, <1>8 DEF S, V, X, n, due, Slept

\* What somebody saw who is about to wait for ids.
Seen(s, srcs, ids) ==
  /\ srcs \subseteq Source
  /\ \A c \in Chan : <<"chan", c, 0>> \in srcs =>
       s.chan[c].phase = "open" /\ s.chan[c].queue = <<>> /\ s.chan[c].ev \in ids
  /\ \A f \in Futex, x \in {0, 1} : <<"futex", f, x>> \in srcs =>
       s.futex[f].phase = "live" /\ s.futex[f].val = x /\ s.futex[f].ev \in ids
  /\ \A ev \in Event : <<"event", ev, 0>> \in srcs => ev \in ids

LEMMA SleepGood ==
  ASSUME NEW s, NEW h, NEW g, Good(s, h), NEW p \in Proc, NEW ids \in SUBSET Event,
         NEW policy \in Policy, NEW ticks \in Nat, NEW srcs, ~Satisfied(s, ids, policy),
         policy = "Any" => Seen(s, srcs, ids),
         g[p].policy = policy /\ g[p].srcs = srcs,
         \A q \in Proc \ {p} : s.st[q] = "waiting" =>
           g[q].policy = h[q].policy /\ g[q].srcs = h[q].srcs /\ g[q].lost = h[q].lost
  PROVE  LET n == WaitOnEvents(s, p, ids, policy, ticks) IN Shape(n) /\ Good(n, g)
<1> DEFINE n == WaitOnEvents(s, p, ids, policy, ticks)
           due == Due(s, ticks)
<1>0. Shape(s)
  BY DEF Good
<1>1. /\ Shape(n) /\ n.done = s.done /\ n.tick = s.tick /\ n.next = s.next
      /\ n.refs = s.refs /\ n.chan = s.chan /\ n.futex = s.futex
      /\ n.st = [s.st EXCEPT ![p] = "waiting"]
      /\ n.wait = [s.wait EXCEPT ![p] = [ids |-> ids, policy |-> policy, due |-> due]]
      /\ s.heap \subseteq n.heap /\ (due # None => <<due, p>> \in n.heap)
      /\ n.waiters = [ev \in Event |-> IF ev \in ids THEN s.waiters[ev] \cup {p}
                                       ELSE s.waiters[ev]]
  <2>1. Slept(s, n, p, ids, policy, ticks)
    BY <1>0, WaitFields
  <2> QED BY <2>1 DEF Slept
<1> HIDE DEF n
<1>2. /\ n.wait[p].ids = ids /\ n.wait[p].policy = policy /\ n.wait[p].due = due
      /\ \A q \in Proc \ {p} : n.st[q] = s.st[q] /\ n.wait[q] = s.wait[q]
      /\ \A ev \in Event : s.waiters[ev] \subseteq n.waiters[ev]
      /\ \A ev \in ids : p \in n.waiters[ev]
  BY <1>0, <1>1 DEF Shape
<1>3. Alert(n, g)
  <2> SUFFICES ASSUME NEW q \in Proc, n.st[q] = "waiting",
                      n.wait[q].policy = "Any" \/ ~g[q].lost
               PROVE  /\ ~Satisfied(n, n.wait[q].ids, n.wait[q].policy)
                      /\ \A ev \in n.wait[q].ids \ n.done : q \in n.waiters[ev]
    BY DEF Alert
  <2>1. CASE q = p
    BY <1>1, <1>2, <2>1 DEF Satisfied
  <2>2. CASE q # p
    <3>1. /\ ~Satisfied(s, s.wait[q].ids, s.wait[q].policy)
          /\ \A ev \in s.wait[q].ids \ s.done : q \in s.waiters[ev]
      BY <1>2, <2>2 DEF Good, Alert
    <3>2. s.wait[q].ids \subseteq Event /\ n.wait[q] = s.wait[q]
      BY <1>0, <1>2, <2>2 DEF Shape
    <3> QED BY <1>1, <1>2, <3>1, <3>2 DEF Satisfied
  <2> QED BY <2>1, <2>2
<1>4. Watches(n, g)
  <2> SUFFICES ASSUME NEW q \in Proc, n.st[q] = "waiting", g[q].policy = "Any"
               PROVE  n.wait[q].policy = "Any" /\ Seen(n, g[q].srcs, n.wait[q].ids)
    BY DEF Watches, Seen
  <2>1. CASE q = p
    BY <1>1, <1>2, <2>1 DEF Seen
  <2>2. CASE q # p
    <3>1. s.wait[q].policy = "Any" /\ Seen(s, h[q].srcs, s.wait[q].ids)
      BY <1>2, <2>2 DEF Good, Watches, Seen
    <3>2. g[q].srcs = h[q].srcs /\ n.wait[q] = s.wait[q]
      BY <1>2, <2>2
    <3> QED BY <1>1, <3>1, <3>2 DEF Seen
  <2> QED BY <2>1, <2>2
<1>5. Armed(n)
  <2> SUFFICES ASSUME NEW q \in Proc, n.st[q] = "waiting", n.wait[q].due # None
               PROVE  n.wait[q].due > n.tick /\ <<n.wait[q].due, q>> \in n.heap
    BY DEF Armed
  <2>1. CASE q = p
    <3>1. due > s.tick
      BY <1>0, <1>2, <2>1 DEF Due, None, Shape
    <3> QED BY <1>1, <1>2, <2>1, <3>1
  <2>2. CASE q # p
    BY <1>1, <1>2, <2>2 DEF Good, Armed
  <2> QED BY <2>1, <2>2
<1>6. Living(n)
  BY <1>1 DEF Good, Living, HasChan, HasFutex
<1>7. Owned(n)
  BY <1>1, OwnedKept DEF Good, EvOf
<1> QED BY <1>1, <1>3, <1>4, <1>5, <1>6, <1>7 DEF Good, n

\* The history of a process that asked for something, and of all others.
LEMMA ParksRecalls ==
  ASSUME Hist(parked), Shape(e'), NEW p \in Proc, NEW srcs \in SUBSET Source,
         NEW policy \in Policy, Parks(p, srcs, policy)
  PROVE  /\ Hist(parked')
         /\ e'.st[p] # "waiting" => Forget
         /\ e'.st[p] = "waiting" => parked'[p].policy = policy /\ parked'[p].srcs = srcs
         /\ \A q \in Proc \ {p} : e'.st[q] = "waiting" =>
              /\ parked'[q].policy = parked[q].policy /\ parked'[q].srcs = parked[q].srcs
              /\ parked'[q].lost = (parked[q].lost \/ e.wait[q].ids \cap (e.done \ e'.done) # {})
<1> DEFINE k == [Nothing EXCEPT !.srcs = srcs, !.policy = policy]
<1>1. /\ k \in [srcs : SUBSET Source, policy : Policy, seen : SUBSET Event, lost : BOOLEAN]
      /\ k.srcs = srcs /\ k.policy = policy
  BY DEF Nothing
<1>2. parked' = [q \in Proc |-> IF q = p /\ e'.st[p] = "waiting" THEN k ELSE Kept(q)]
  BY DEF Parks
<1> HIDE DEF k
<1>3. e'.st[p] # "waiting" => Forget
  BY <1>2 DEF Forget
<1>4. \A q \in Proc :
        /\ Kept(q) \in [srcs : SUBSET Source, policy : Policy, seen : SUBSET Event, lost : BOOLEAN]
        /\ e'.st[q] = "waiting" =>
             /\ Kept(q).policy = parked[q].policy /\ Kept(q).srcs = parked[q].srcs
             /\ Kept(q).lost = (parked[q].lost \/ e.wait[q].ids \cap (e.done \ e'.done) # {})
  BY KeptTyped
<1>5. Hist(parked')
  BY <1>1, <1>2, <1>4 DEF Hist
<1>6. e'.st[p] = "waiting" => parked'[p] = k
  BY <1>2
<1>7. \A q \in Proc \ {p} : parked'[q] = Kept(q)
  BY <1>2
<1> QED BY <1>1, <1>3, <1>4, <1>5, <1>6, <1>7

LEMMA SleepKeeps ==
  ASSUME IInv, NEW p \in Proc, e.st[p] = "running", NEW srcs \in SUBSET Source,
         NEW policy \in Policy, NEW ids \in SUBSET Event, NEW ticks \in Nat,
         Parks(p, srcs, policy),
         \/ e' = e
         \/ /\ e' = WaitOnEvents(e, p, ids, policy, ticks)
            /\ policy = "Any" => Seen(e, srcs, ids)
  PROVE  IInv'
<1>0. Shape(e) /\ Hist(parked) /\ Good(e, parked)
  BY DEF IInv, Good
<1>1. CASE e' = e
  <2>1. Shape(e') /\ Forget
    BY <1>0, <1>1, ParksRecalls
  <2>2. Hushed(e, e') /\ SameObjects(e, e') /\ SameClock(e, e')
    BY <1>1 DEF Hushed, SameObjects, SameClock, Fewer
  <2> QED BY <2>1, <2>2, QuietStep
<1>2. CASE /\ e' = WaitOnEvents(e, p, ids, policy, ticks) /\ e' # e
           /\ policy = "Any" => Seen(e, srcs, ids)
  <2>1. ~Satisfied(e, ids, policy)
    BY <1>2 DEF WaitOnEvents
  <2>2. /\ Shape(e') /\ e'.done = e.done /\ e'.st = [e.st EXCEPT ![p] = "waiting"]
    <3>1. Slept(e, e', p, ids, policy, ticks)
      BY <1>0, <1>2, <2>1, WaitFields
    <3> QED BY <3>1 DEF Slept
  <2>3. /\ e'.st[p] = "waiting" /\ \A q \in Proc \ {p} : e'.st[q] = e.st[q]
        /\ \A q \in Proc : e.wait[q].ids \cap (e.done \ e'.done) = {}
    BY <1>0, <2>2 DEF Shape
  <2>4. Hist(parked') /\ parked'[p].policy = policy /\ parked'[p].srcs = srcs
    BY <1>0, <2>2, <2>3, ParksRecalls
  <2>5. \A q \in Proc \ {p} : e.st[q] = "waiting" =>
          /\ parked'[q].policy = parked[q].policy /\ parked'[q].srcs = parked[q].srcs
          /\ parked'[q].lost = parked[q].lost
    <3>1. \A q \in Proc : parked[q].lost \in BOOLEAN
      BY <1>0 DEF Hist
    <3> QED BY <1>0, <2>2, <2>3, <3>1, ParksRecalls
  <2>6. Good(WaitOnEvents(e, p, ids, policy, ticks), parked')
    BY <1>0, <1>2, <2>1, <2>4, <2>5, SleepGood
  <2> QED BY <1>2, <2>4, <2>6 DEF IInv
<1> QED BY <1>1, <1>2

\* epoll_wait_many
LEMMA ParkKeeps ==
  ASSUME IInv, NEW p \in Proc, NEW srcs \in SUBSET Source, NEW policy \in Policies,
         NEW ticks \in Naps, Park(p, srcs, policy, ticks)
  PROVE  IInv'
<1> DEFINE ids == {EventOf(e, s) : s \in Pending(e, srcs)}
<1>0. /\ policy \in Policy /\ ticks \in Nat /\ e.st[p] = "running"
      /\ Parks(p, srcs, policy)
  BY WaitAssumption DEF Park, Running
<1>1. Shape(e) /\ Living(e) /\ e.chan \in [Chan -> ChanRec] /\ e.futex \in [Futex -> FutexRec]
  BY DEF IInv, Good, Shape, ChanRec, FutexRec
<1>2. ASSUME NEW s \in srcs, ~SourceReady(e, s)
      PROVE  EventOf(e, s) \in Event
  <2>1. CASE s[1] = "chan"
    <3>1. s[2] \in Chan /\ e.chan[s[2]].phase = "open"
      BY <1>2, <2>1 DEF Source, SourceReady
    <3>2. e.chan[s[2]].ev \in Event
      BY <1>1, <3>1 DEF Living, HasChan, ChanRec
    <3> QED BY <2>1, <3>2 DEF EventOf
  <2>2. CASE s[1] = "futex"
    <3>1. s[2] \in Futex /\ HasFutex(e, s[2])
      BY <1>2, <2>2 DEF Source, SourceReady
    <3>2. e.futex[s[2]].ev \in Event
      BY <1>1, <3>1 DEF Living, FutexRec
    <3> QED BY <2>2, <3>2 DEF EventOf
  <2>3. CASE s[1] \notin {"chan", "futex"}
    <3>1. s[2] \in Event
      BY <2>3 DEF Source
    <3> QED BY <2>3, <3>1 DEF EventOf
  <2> QED BY <2>1, <2>2, <2>3
<1>3. ids \in SUBSET Event
  BY <1>2 DEF Pending
<1>4. CASE IsReady(e, srcs, policy) \/ \E s \in srcs : ~Exists(e, s)
  <2>1. e' = e
    BY <1>4 DEF Park, WaitMany
  <2> HIDE DEF ids
  <2> QED BY <1>0, <1>3, <2>1, SleepKeeps
<1>5. CASE ~IsReady(e, srcs, policy) /\ ~\E s \in srcs : ~Exists(e, s)
  <2>1. e' = WaitOnEvents(e, p, ids, policy, ticks)
    BY <1>5, Zenon DEF Park, WaitMany
  <2>2. ASSUME policy = "Any" PROVE Seen(e, srcs, ids)
    <3>1. \A s \in srcs : ~SourceReady(e, s) /\ EventOf(e, s) \in ids
      BY <1>5, <2>2 DEF IsReady, Pending
    <3> HIDE DEF ids
    <3>2. ASSUME NEW c \in Chan, <<"chan", c, 0>> \in srcs
          PROVE  e.chan[c].phase = "open" /\ e.chan[c].queue = <<>> /\ e.chan[c].ev \in ids
      <4>1. /\ ~SourceReady(e, <<"chan", c, 0>>) /\ EventOf(e, <<"chan", c, 0>>) \in ids
        BY <3>1, <3>2
      <4> QED BY <4>1 DEF SourceReady, EventOf
    <3>3. ASSUME NEW f \in Futex, NEW x \in {0, 1}, <<"futex", f, x>> \in srcs
          PROVE  e.futex[f].phase = "live" /\ e.futex[f].val = x /\ e.futex[f].ev \in ids
      <4>1. /\ ~SourceReady(e, <<"futex", f, x>>) /\ EventOf(e, <<"futex", f, x>>) \in ids
        BY <3>1, <3>3
      <4> QED BY <4>1 DEF SourceReady, EventOf, HasFutex
    <3>4. ASSUME NEW ev \in Event, <<"event", ev, 0>> \in srcs
          PROVE  ev \in ids
      <4>1. EventOf(e, <<"event", ev, 0>>) \in ids
        BY <3>1, <3>4
      <4> QED BY <4>1 DEF EventOf
    <3> QED BY <3>2, <3>3, <3>4 DEF Seen
  <2> HIDE DEF ids
  <2> QED BY <1>0, <1>3, <2>1, <2>2, SleepKeeps
<1> QED BY <1>4, <1>5

\* wait_on_events
LEMMA RawWaitKeeps ==
  ASSUME IInv, NEW p \in Proc, NEW ids \in SUBSET Event, NEW policy \in RawPolicies,
         RawWait(p, ids, policy)
  PROVE  IInv'
<1> DEFINE srcs == {<<"event", ev, 0>> : ev \in ids}
<1>1. /\ policy \in Policy /\ None \in Nat /\ e.st[p] = "running"
      /\ e' = WaitOnEvents(e, p, ids, policy, None)
  BY WaitAssumption DEF RawWait, Running, None
<1>2. Parks(p, srcs, policy)
  BY Zenon DEF RawWait
<1>3. srcs \in SUBSET Source /\ Seen(e, srcs, ids)
  BY DEF Source, Seen
<1> HIDE DEF srcs
<1> QED BY <1>1, <1>2, <1>3, SleepKeeps

-----------------------------------------------------------------------------
(* The induction.                                                          *)

LEMMA InitGood ==
  ASSUME Init
  PROVE  IInv
<1>1. /\ e.st = [p \in Proc |-> "running"] /\ e.wait = [p \in Proc |-> NoWait]
      /\ e.done = {} /\ e.order = <<>>
      /\ e.waiters = [ev \in Event |-> {}] /\ e.refs = [ev \in Event |-> 0]
      /\ e.heap = {} /\ e.tick = 0 /\ e.next = 1
      /\ e.chan = [c \in Chan |-> [phase |-> "new", owner |-> None, ev |-> None,
                                   queue |-> <<>>, ref |-> 0,
                                   held |-> [h \in Holder |-> 0]]]
      /\ e.futex = [f \in Futex |-> [phase |-> "new", ev |-> None, val |-> 0]]
  BY DEF Init, EmptyTable
<1>2. Shape(e)
  <2>1. e.chan \in [Chan -> ChanRec] /\ e.futex \in [Futex -> FutexRec]
    BY <1>1 DEF ChanRec, FutexRec
  <2>2. e.wait \in [Proc -> [ids : SUBSET Event, policy : Policy, due : Nat]]
    BY <1>1, NoWaitTyped
  <2>3. e.st \in [Proc -> PState] /\ e.refs \in [Event -> Nat]
        /\ e.waiters \in [Event -> SUBSET Proc]
    BY <1>1 DEF PState
  <2>4. e = EmptyTable
    BY DEF Init
  <2>5. e = [st |-> e.st, wait |-> e.wait, done |-> e.done, order |-> e.order,
             waiters |-> e.waiters, refs |-> e.refs, heap |-> e.heap, tick |-> e.tick,
             next |-> e.next, chan |-> e.chan, futex |-> e.futex]
    BY <2>4 DEF EmptyTable
  <2>6. /\ e.done \in SUBSET Event /\ e.heap \in SUBSET (Nat \X Proc)
        /\ e.tick \in Nat /\ e.next \in Nat
    BY <1>1
  <2> QED BY <2>1, <2>2, <2>3, <2>5, <2>6 DEF Shape, ChanRec, FutexRec
<1>3. /\ \A c \in Chan : e.chan[c].ev = None /\ e.chan[c].phase = "new"
      /\ \A f \in Futex : e.futex[f].ev = None /\ e.futex[f].phase = "new"
  BY <1>1
<1>4. Living(e)
  BY <1>3 DEF Living, HasChan, HasFutex
<1>5. Owned(e)
  <2>1. \A o \in Obj : EvOf(e, o) = None
    BY <1>3 DEF Obj, EvOf
  <2> QED BY <1>1, <2>1 DEF Owned
<1>6. Alert(e, parked) /\ Watches(e, parked) /\ Armed(e)
  BY <1>1 DEF Alert, Watches, Armed
<1>7. Hist(parked)
  <2>1. Nothing \in [srcs : SUBSET Source, policy : Policy, seen : SUBSET Event, lost : BOOLEAN]
    BY DEF Nothing, Policy
  <2> QED BY <2>1 DEF Init, Hist
<1> QED BY <1>2, <1>4, <1>5, <1>6, <1>7 DEF IInv, Good

LEMMA NextGood ==
  ASSUME IInv, [Next]_vars
  PROVE  IInv'
<1>1. CASE UNCHANGED vars
  BY <1>1 DEF vars, IInv, Good, Hist, Shape, Alert, Watches, Armed, Living, Owned, EvOf,
              HasChan, HasFutex, Satisfied
<1>2. CASE Objects
  <2>1. CASE \E c \in Chan, p \in Proc : Open(c, p, Holder)
    BY <2>1, OpenKeeps
  <2>2. ASSUME NEW c \in Chan, NEW w \in Who,
               \/ \E m \in Msg : Send(c, w, m)
               \/ Receive(c, w)
               \/ Close(c, w)
               \/ Destroy(c, w)
        PROVE  IInv'
    BY <2>2, SendKeeps, ReceiveKeeps, CloseKeeps, DestroyKeeps
  <2>3. CASE \E c \in Chan, h \in Holder : Retain(c, h) \/ Release(c, h)
    BY <2>3, RetainReleaseKeep
  <2>4. CASE \E f \in Futex : Make(f) \/ Unmake(f) \/ \E v \in {0, 1} : Store(f, v)
    BY <2>4, MakeKeeps, UnmakeKeeps, StoreKeeps
  <2> QED BY <1>2, <2>1, <2>2, <2>3, <2>4 DEF Objects
<1>3. CASE Processes
  <2>1. CASE \E p \in Proc : Resume(p) \/ WallClock(p) \/ Stop(p) \/ Cont(p) \/ Kill(p)
    BY <2>1, SignalsKeep
  <2>2. ASSUME NEW p \in Proc, NEW s \in Interesting, NEW t \in Interesting,
               NEW pol \in Policies, NEW n \in Naps, Park(p, {s, t}, pol, n)
        PROVE  IInv'
    <3>1. {s, t} \in SUBSET Source
      BY DEF Interesting
    <3> QED BY <2>2, <3>1, ParkKeeps
  <2>3. ASSUME NEW p \in Proc, NEW ev \in Known, NEW ew \in Known,
               NEW pol \in RawPolicies, RawWait(p, {ev, ew}, pol)
        PROVE  IInv'
    <3>1. {ev, ew} \in SUBSET Event
      BY DEF Known
    <3> QED BY <2>3, <3>1, RawWaitKeeps
  <2>4. CASE \E ev \in Outside : Complete(ev)
    BY <2>4, CompleteKeeps
  <2>5. CASE Tick
    BY <2>5, TickKeeps
  <2> QED BY <1>3, <2>1, <2>2, <2>3, <2>4, <2>5 DEF Processes
<1> QED BY <1>1, <1>2, <1>3 DEF Next

LEMMA Inductive == Spec => []IInv
BY InitGood, NextGood, PTL DEF Spec

-----------------------------------------------------------------------------
(* The theorems.                                                           *)

\* No wake-up is lost, whatever the number of processes, channels, futexes, events
\* and ticks (wait_on_events, notify_events_completed, channel_send, channel_close,
\* complete_futex_event, futex_destroy): who sleeps until any of several sources is
\* ready sleeps only while none is.
THEOREM SleepersMissNothing == Spec => []NoMissedSource
<1>1. IInv => NoMissedSource
  <2> SUFFICES ASSUME IInv, NEW p \in Proc, e.st[p] = "waiting", parked[p].policy = "Any"
               PROVE  ~IsReady(e, parked[p].srcs, "Any")
    BY DEF NoMissedSource
  <2>1. /\ e.wait[p].policy = "Any" /\ Seen(e, parked[p].srcs, e.wait[p].ids)
        /\ e.wait[p].ids \cap e.done = {}
    <3>1. e.wait[p].policy = "Any" /\ Seen(e, parked[p].srcs, e.wait[p].ids)
      BY DEF IInv, Good, Watches, Seen
    <3> QED BY <3>1 DEF IInv, Good, Alert, Satisfied
  <2>2. ASSUME NEW s \in parked[p].srcs PROVE ~SourceReady(e, s)
    <3>1. CASE \E c \in Chan : s = <<"chan", c, 0>>
      BY <2>1, <2>2, <3>1 DEF Seen, SourceReady
    <3>2. CASE \E f \in Futex, x \in {0, 1} : s = <<"futex", f, x>>
      <4>1. PICK f \in Futex, x \in {0, 1} : s = <<"futex", f, x>>
        BY <3>2
      <4>2. e.futex[f].phase = "live" /\ e.futex[f].val = x
        BY <2>1, <2>2, <4>1 DEF Seen
      <4>3. s[1] = "futex" /\ s[2] = f /\ s[3] = x
        BY <4>1
      <4> QED BY <4>2, <4>3 DEF SourceReady, HasFutex
    <3>3. CASE \E ev \in Event : s = <<"event", ev, 0>>
      BY <2>1, <2>2, <3>3 DEF Seen, SourceReady
    <3>4. s \in Source
      BY <2>1, <2>2 DEF Seen
    <3> QED BY <3>1, <3>2, <3>3, <3>4 DEF Source
  <2> QED BY <2>2 DEF IsReady, Pending
<1> QED BY <1>1, Inductive, PTL

\* A wait for any or for all of several events ends when its condition holds, in
\* whatever order they complete (notify_events_completed takes the waiters of an
\* event out of the index for good), unless one of them was pruned meanwhile.
THEOREM WaitsEndWhenTheyHold == Spec => []RememberedWaitsEnd
<1>1. IInv => RememberedWaitsEnd
  BY DEF IInv, Good, Alert, RememberedWaitsEnd
<1> QED BY <1>1, Inductive, PTL

\* A wait with a timeout has its own entry in wakeup_heap from wait_on_events until it
\* ends, and advance_ticks leaves none overdue.
THEOREM TimeoutsStayArmed == Spec => []TimeoutsArmed
<1>1. IInv => TimeoutsArmed
  BY DEF IInv, Good, Armed, TimeoutsArmed
<1> QED BY <1>1, Inductive, PTL

\* event_source_refs is exact: each live channel or futex owns one event of its own
\* that was not completed, and no other event is referenced.
THEOREM EventsHaveOneOwner == Spec => []SourcesOwnEvents
<1>1. IInv => SourcesOwnEvents
  <2> SUFFICES ASSUME IInv PROVE SourcesOwnEvents
    OBVIOUS
  <2>1. Owned(e) /\ Living(e)
    BY DEF IInv, Good
  <2>2. ASSUME NEW ev \in Event
        PROVE  Owners(ev) = {o \in Obj : EvOf(e, o) = ev}
    BY DEF Owners, Obj, EvOf
  <2>3. ASSUME NEW ev \in Event
        PROVE  /\ e.refs[ev] = Cardinality(Owners(ev))
               /\ e.refs[ev] > 0 => ev \notin e.done /\ e.refs[ev] = 1
    <3>1. CASE \E o \in Obj : EvOf(e, o) = ev
      <4>1. PICK o \in Obj : EvOf(e, o) = ev
        BY <3>1
      <4>2. ev # None
        BY Events
      <4>3. e.refs[ev] = 1 /\ ev \notin e.done
        BY <2>1, <4>1, <4>2 DEF Owned
      <4>4. Owners(ev) = {o}
        BY <2>1, <2>2, <4>1, <4>2 DEF Owned
      <4> QED BY <4>3, <4>4, FS_Singleton
    <3>2. CASE ~\E o \in Obj : EvOf(e, o) = ev
      <4>1. e.refs[ev] = 0
        BY <2>1, <3>2 DEF Owned
      <4>2. Owners(ev) = {}
        BY <2>2, <3>2
      <4> QED BY <4>1, <4>2, FS_EmptySet
    <3> QED BY <3>1, <3>2
  <2> QED BY <2>1, <2>3 DEF SourcesOwnEvents, Living
<1> QED BY <1>1, Inductive, PTL
-----------------------------------------------------------------------------
(* The log of completed events.                                            *)

Smaller == {x \in Nat \X Nat : x[1] < x[2]}

\* Induction, as the least number principle.
LEMMA Least ==
  ASSUME NEW T \in SUBSET Nat, T # {}
  PROVE  \E m \in T : \A n \in T : m <= n
<1>0. IsWellFoundedOn(Smaller, Nat)
  <2>1. Smaller = OpToRel(<, Nat)
    BY DEF OpToRel, Smaller
  <2> QED BY <2>1, NatLessThanWellFounded
<1>1. PICK m \in T : \A n \in T : ~(<<n, m>> \in Smaller)
  BY <1>0, WFMin, Zenon
<1>2. ASSUME NEW n \in T PROVE m <= n
  <2>1. n \in Nat /\ m \in Nat
    OBVIOUS
  <2>2. ~(n < m)
    BY <1>1, <2>1 DEF Smaller
  <2> QED BY <2>1, <2>2
<1> QED BY <1>2

\* What Survivors computes for the first i entries, from what it did before.
Sift(s, f, i) == IF i = 0 THEN <<>>
                 ELSE IF Live(s, s.order[i]) THEN Append(f[i - 1], s.order[i])
                 ELSE f[i - 1]
Sifted(s, f, n) == f = [i \in 0..n |-> Sift(s, f, i)]

LEMMA SiftExists ==
  ASSUME NEW s, NEW n \in Nat
  PROVE  \E f : Sifted(s, f, n)
<1> DEFINE T == {k \in Nat : ~\E f : Sifted(s, f, k)}
<1>1. SUFFICES ASSUME T # {} PROVE FALSE
  OBVIOUS
<1>2. PICK k \in T : \A j \in T : k <= j
  <2>1. T \in SUBSET Nat
    OBVIOUS
  <2> HIDE DEF T
  <2> QED BY <1>1, <2>1, Least
<1>3. k \in Nat /\ ~\E f : Sifted(s, f, k)
  OBVIOUS
<1>4. k # 0
  <2> DEFINE f == [i \in 0..0 |-> <<>>]
  <2>1. \A i \in 0..0 : Sift(s, f, i) = <<>>
    BY DEF Sift
  <2>2. Sifted(s, f, 0)
    BY <2>1, Zenon DEF Sifted
  <2> HIDE DEF f
  <2> QED BY <1>3, <2>2
<1>5. PICK g : Sifted(s, g, k - 1)
  <2>1. k - 1 \in Nat /\ ~(k <= k - 1)
    BY <1>3, <1>4
  <2>2. k - 1 \notin T
    BY <1>2, <2>1
  <2> QED BY <2>1, <2>2
<1> DEFINE f == [i \in 0..k |-> IF i = k THEN Sift(s, g, k) ELSE g[i]]
<1>6. \A i \in 0..(k - 1) : f[i] = g[i] /\ g[i] = Sift(s, g, i)
  BY <1>3, <1>5 DEF Sifted
<1>7. f[k] = Sift(s, g, k)
  BY <1>3
<1>8. ASSUME NEW i \in 0..k PROVE Sift(s, f, i) = Sift(s, g, i)
  <2>1. i # 0 => i - 1 \in 0..(k - 1)
    BY <1>3
  <2>2. i # 0 => f[i - 1] = g[i - 1]
    BY <1>6, <2>1
  <2> HIDE DEF f
  <2> QED BY <2>2 DEF Sift
<1>9. \A i \in 0..k : f[i] = Sift(s, f, i)
  <2>1. \A i \in 0..k : i = k \/ i \in 0..(k - 1)
    BY <1>3
  <2> HIDE DEF f
  <2> QED BY <1>6, <1>7, <1>8, <2>1
<1>10. Sifted(s, f, k)
  <2>1. f = [i \in 0..k |-> f[i]]
    OBVIOUS
  <2> HIDE DEF f
  <2> QED BY <1>9, <2>1 DEF Sifted
<1> HIDE DEF f
<1> QED BY <1>3, <1>10

\* Survivors returns entries of the log, live ones only.
LEMMA SurvivorsLive ==
  ASSUME NEW s, s.order \in Seq(Event), NEW n \in 0..Len(s.order)
  PROVE  LET k == Survivors(s, n)
         IN  k \in Seq(Event) /\ \A i \in 1..Len(k) : Live(s, k[i])
<1> DEFINE f == CHOOSE f : Sifted(s, f, n)
           Fine(k) == k \in Seq(Event) /\ \A i \in 1..Len(k) : Live(s, k[i])
           T == {i \in 0..n : ~Fine(f[i])}
<1>1. Sifted(s, f, n)
  <2>1. n \in Nat
    OBVIOUS
  <2>2. \E g : Sifted(s, g, n)
    BY <2>1, SiftExists
  <2> QED BY <2>2, Zenon
<1>2. Survivors(s, n) = f[n]
  BY DEF Survivors, Sifted, Sift
<1> HIDE DEF f
<1>3. SUFFICES ASSUME T # {} PROVE FALSE
  <2>1. n \in 0..n
    OBVIOUS
  <2> QED BY <1>2, <1>3, <2>1
<1>4. PICK k \in T : \A j \in T : k <= j
  <2>1. T \in SUBSET Nat
    OBVIOUS
  <2> HIDE DEF T
  <2> QED BY <1>3, <2>1, Least
<1>5. k \in 0..n /\ ~Fine(f[k]) /\ f[k] = Sift(s, f, k)
  BY <1>1 DEF Sifted
<1>6. k # 0
  <2>1. Fine(<<>>)
    OBVIOUS
  <2> HIDE DEF Fine
  <2> QED BY <1>5, <2>1 DEF Sift
<1>7. k - 1 \in 0..n /\ Fine(f[k - 1])
  <2>1. k - 1 \in 0..n /\ ~(k <= k - 1)
    BY <1>5, <1>6
  <2>2. k - 1 \notin T
    BY <1>4, <2>1
  <2> HIDE DEF Fine
  <2> QED BY <2>1, <2>2
<1>8. s.order[k] \in Event
  BY <1>5, <1>6
<1>9. Live(s, s.order[k]) => Fine(Append(f[k - 1], s.order[k]))
  <2> DEFINE q == f[k - 1]
             x == s.order[k]
  <2>1. q \in Seq(Event) /\ (\A i \in 1..Len(q) : Live(s, q[i])) /\ x \in Event
    BY <1>7, <1>8
  <2> HIDE DEF q, x
  <2>2. /\ Append(q, x) \in Seq(Event) /\ Len(Append(q, x)) = Len(q) + 1
        /\ \A i \in 1..(Len(q) + 1) : Append(q, x)[i] = IF i = Len(q) + 1 THEN x ELSE q[i]
    BY <2>1
  <2>3. \A i \in 1..(Len(q) + 1) : i = Len(q) + 1 \/ i \in 1..Len(q)
    BY <2>1
  <2>4. Live(s, x) => \A i \in 1..Len(Append(q, x)) : Live(s, Append(q, x)[i])
    BY <2>1, <2>2, <2>3
  <2> QED BY <2>2, <2>4 DEF q, x
<1> HIDE DEF Fine
<1> QED BY <1>5, <1>6, <1>7, <1>9 DEF Sift

\* What may become of the log: it stays, or what is in excess is live.
Logged(s, n) ==
  /\ n.order \in Seq(Event)
  /\ n.order # s.order => \A i \in 1..(Len(n.order) - Retention) : Live(s, n.order[i])

LEMMA PruneLogs ==
  ASSUME NEW s, Shape(s), s.order \in Seq(Event)
  PROVE  /\ Prune(s).order \in Seq(Event)
         /\ \A i \in 1..(Len(Prune(s).order) - Retention) : Live(s, Prune(s).order[i])
<1> DEFINE excess == Len(s.order) - Retention
           X == {ev \in Event : ~Live(s, ev) /\ \E i \in 1..excess : s.order[i] = ev}
           K == Survivors(s, excess)
           R == SubSeq(s.order, excess + 1, Len(s.order))
<1>0. Retention \in Nat \ {0} /\ Len(s.order) \in Nat
  BY EventAssumption
<1>1. CASE excess <= 0
  <2>1. Prune(s) = s
    BY <1>1 DEF Prune
  <2>2. 1..(Len(s.order) - Retention) = {}
    BY <1>0, <1>1
  <2> QED BY <2>1, <2>2
<1>2. CASE ~(excess <= 0)
  <2>1. Prune(s) = [s EXCEPT !.done = s.done \ X, !.order = K \o R]
    BY <1>2, Zenon DEF Prune
  <2>2. Prune(s).order = K \o R
    <3> HIDE DEF X, K, R, excess
    <3> QED BY <2>1 DEF Shape
  <2>3. excess \in 0..Len(s.order)
    BY <1>0, <1>2
  <2>4. K \in Seq(Event) /\ \A i \in 1..Len(K) : Live(s, K[i])
    BY <2>3, SurvivorsLive
  <2>5. R \in Seq(Event) /\ Len(R) = Retention
    BY <1>0, <1>2
  <2> HIDE DEF K, R, X, excess
  <2>6. /\ K \o R \in Seq(Event) /\ Len(K \o R) = Len(K) + Retention
        /\ \A i \in 1..Len(K) : (K \o R)[i] = K[i]
    BY <1>0, <2>4, <2>5
  <2>7. Len(K \o R) - Retention = Len(K)
    BY <1>0, <2>4, <2>6
  <2> QED BY <2>2, <2>4, <2>6, <2>7
<1> QED BY <1>1, <1>2

LEMMA RememberLogs ==
  ASSUME NEW s, Shape(s), s.order \in Seq(Event), NEW ev \in Event
  PROVE  Logged(s, Remember(s, ev))
<1>1. CASE ev \in s.done
  BY <1>1, PruneLogs DEF Remember, Logged
<1>2. CASE ev \notin s.done
  <2> DEFINE m == [s EXCEPT !.done = s.done \cup {ev}, !.order = Append(s.order, ev)]
  <2>1. /\ m.waiters = s.waiters /\ m.refs = s.refs /\ m.order = Append(s.order, ev)
    BY DEF Shape
  <2>2. Shape(m)
    <3>1. m.done \in SUBSET Event
      BY DEF Shape
    <3> QED BY <2>1, <3>1 DEF Shape
  <2>3. Remember(s, ev) = Prune(m)
    BY <1>2 DEF Remember, Shape
  <2>4. m.order \in Seq(Event)
    BY <2>1
  <2> HIDE DEF m
  <2>5. \A x : Live(m, x) <=> Live(s, x)
    BY <2>1 DEF Live
  <2> QED BY <2>2, <2>3, <2>4, <2>5, PruneLogs DEF Logged
<1> QED BY <1>1, <1>2

LEMMA NotifyLogs ==
  ASSUME NEW s, Shape(s), s.order \in Seq(Event), NEW ev \in Event
  PROVE  Logged(s, Notify(s, ev))
<1> DEFINE r == Remember(s, ev)
           woken == {p \in s.waiters[ev] : /\ s.st[p] = "waiting"
                                           /\ Satisfied(r, s.wait[p].ids, s.wait[p].policy)}
           q == [r EXCEPT !.waiters[ev] = {}]
<1>1. PICK D, O : /\ r = [s EXCEPT !.done = D, !.order = O]
                  /\ D \subseteq s.done \cup {ev}
                  /\ s.waiters[ev] # {} => ev \in D
  BY RememberFields
<1>2. Logged(s, r)
  BY RememberLogs
<1>3. Notify(s, ev) = Awake(q, woken)
  BY DEF Notify
<1> HIDE DEF r, woken
<1>4. q.order = r.order /\ DOMAIN q = DOMAIN r /\ "order" \in DOMAIN q
  BY <1>1 DEF Shape
<1> HIDE DEF q
<1>5. Awake(q, woken).order = q.order
  BY <1>4 DEF Awake
<1> QED BY <1>2, <1>3, <1>4, <1>5 DEF Logged

LEMMA RotatedLogs ==
  ASSUME NEW s, Shape(s), s.order \in Seq(Event), NEW ev \in Event
  PROVE  Logged(s, Rotated(s, ev))
<1> DEFINE m == Notify(s, ev)
<1>1. Logged(s, m) /\ Shape(m)
  BY NotifyLogs, NotifyTells
<1>2. Rotated(s, ev).order = m.order
  <2> HIDE DEF m
  <2>1. "order" \in DOMAIN m
    BY <1>1 DEF Shape
  <2>2. \A R, X : [m EXCEPT !.refs = R, !.next = X].order = m.order
    BY <2>1
  <2> QED BY <2>2 DEF Rotated, m
<1> QED BY <1>1, <1>2 DEF Logged

-----------------------------------------------------------------------------
(* The references to a channel.                                            *)

LEMMA ReferenceOf ==
  \A held, x : x \in References(held) <=>
                 \E h \in Holder : \E i \in 1..held[h] : x = <<h, i>>
BY DEF References

\* One holder references the channel once more.
LEMMA OneMore ==
  ASSUME NEW held \in [Holder -> Nat], NEW h \in Holder,
         NEW more \in [Holder -> Nat], more[h] = held[h] + 1,
         \A g \in Holder \ {h} : more[g] = held[g]
  PROVE  /\ References(more) = References(held) \cup {<<h, held[h] + 1>>}
         /\ <<h, held[h] + 1>> \notin References(held)
<1> DEFINE n == held[h] + 1
<1>1. n \in Nat /\ n \notin 1..held[h] /\ 1..n = 1..held[h] \cup {n}
  BY DEF n
<1>2. more[h] = n /\ \A g \in Holder \ {h} : more[g] = held[g]
  OBVIOUS
<1> HIDE DEF n
<1>3. ASSUME NEW x PROVE x \in References(more) <=> x \in References(held) \/ x = <<h, n>>
  <2>1. (\E g \in Holder : \E i \in 1..more[g] : x = <<g, i>>)
          <=> (\E g \in Holder : \E i \in 1..held[g] : x = <<g, i>>) \/ x = <<h, n>>
    <3>1. ASSUME NEW g \in Holder, NEW i \in 1..more[g], x = <<g, i>>
          PROVE  (\E f \in Holder : \E j \in 1..held[f] : x = <<f, j>>) \/ x = <<h, n>>
      BY <1>1, <1>2, <3>1
    <3>2. ASSUME NEW g \in Holder, NEW i \in 1..held[g], x = <<g, i>>
          PROVE  \E f \in Holder : \E j \in 1..more[f] : x = <<f, j>>
      <4>1. i \in 1..more[g]
        BY <1>1, <1>2
      <4> QED BY <3>2, <4>1
    <3>3. ASSUME x = <<h, n>>
          PROVE  \E f \in Holder : \E j \in 1..more[f] : x = <<f, j>>
      BY <1>1, <1>2, <3>3
    <3> QED BY <3>1, <3>2, <3>3
  <2>2. x \in References(more) <=> \E g \in Holder : \E i \in 1..more[g] : x = <<g, i>>
    BY ReferenceOf
  <2>3. x \in References(held) <=> \E g \in Holder : \E i \in 1..held[g] : x = <<g, i>>
    BY ReferenceOf
  <2> QED BY <2>1, <2>2, <2>3
<1>4. <<h, n>> \notin References(held)
  BY <1>1, ReferenceOf
<1> QED BY <1>3, <1>4 DEF n

\* A channel that is no fuller than its capacity, whose ref_count is exact, and that
\* was destroyed only when nobody held it.
Counted(k) ==
  /\ Len(k.queue) <= Capacity
  /\ k.held \in [Holder -> Nat]
  /\ IsFiniteSet(References(k.held))
  /\ k.ref = Cardinality(References(k.held))
  /\ k.phase = "gone" => k.ref = 0

LEMMA RetainCounts ==
  ASSUME NEW k \in ChanRec, Counted(k), NEW h \in Holder, k.phase # "gone",
         NEW y, y = [k EXCEPT !.ref = k.ref + 1, !.held = [k.held EXCEPT ![h] = k.held[h] + 1]]
  PROVE  Counted(y)
<1> DEFINE more == [k.held EXCEPT ![h] = @ + 1]
           r == <<h, k.held[h] + 1>>
<1>1. y.ref = k.ref + 1 /\ y.held = more /\ y.queue = k.queue /\ y.phase = k.phase
  BY DEF ChanRec
<1>2. /\ more \in [Holder -> Nat] /\ k.held \in [Holder -> Nat] /\ more[h] = k.held[h] + 1
      /\ \A g \in Holder \ {h} : more[g] = k.held[g]
  BY DEF Counted
<1> HIDE DEF more
<1>3. References(more) = References(k.held) \cup {r} /\ r \notin References(k.held)
  BY <1>2, OneMore
<1> HIDE DEF r
<1>4. /\ IsFiniteSet(References(more))
      /\ Cardinality(References(more)) = Cardinality(References(k.held)) + 1
  BY <1>3, FS_AddElement DEF Counted
<1> QED BY <1>1, <1>2, <1>4 DEF Counted

LEMMA ReleaseCounts ==
  ASSUME NEW k \in ChanRec, Counted(k), NEW h \in Holder, k.held[h] # 0, k.phase # "gone",
         NEW y, y = [k EXCEPT !.ref = k.ref - 1, !.held = [k.held EXCEPT ![h] = k.held[h] - 1]]
  PROVE  Counted(y)
<1> DEFINE less == [k.held EXCEPT ![h] = @ - 1]
           r == <<h, less[h] + 1>>
<1>1. y.ref = k.ref - 1 /\ y.held = less /\ y.queue = k.queue /\ y.phase = k.phase
  BY DEF ChanRec
<1>2. /\ less \in [Holder -> Nat] /\ k.held \in [Holder -> Nat] /\ k.held[h] = less[h] + 1
      /\ \A g \in Holder \ {h} : k.held[g] = less[g]
  BY DEF Counted
<1> HIDE DEF less
<1>3. References(k.held) = References(less) \cup {r} /\ r \notin References(less)
  BY <1>2, OneMore
<1> HIDE DEF r
<1>4. IsFiniteSet(References(less))
  BY <1>3, FS_Subset DEF Counted
<1>5. Cardinality(References(k.held)) = Cardinality(References(less)) + 1
  BY <1>3, <1>4, FS_AddElement
<1>6. Cardinality(References(less)) \in Nat
  BY <1>4, FS_CardinalityType
<1> QED BY <1>1, <1>2, <1>4, <1>5, <1>6 DEF Counted

\* Every holder references a channel once when it is created, none before.
LEMMA NewCounts ==
  /\ \A h \in [Holder -> {0}] : IsFiniteSet(References(h)) /\ Cardinality(References(h)) = 0
  /\ \A h \in [Holder -> {1}] : /\ IsFiniteSet(References(h))
                                /\ Cardinality(References(h)) = Cardinality(Holder)
<1>1. ASSUME NEW held \in [Holder -> {0}]
      PROVE  IsFiniteSet(References(held)) /\ Cardinality(References(held)) = 0
  <2>1. References(held) = {}
    BY ReferenceOf
  <2> QED BY <2>1, FS_EmptySet
<1>2. ASSUME NEW held \in [Holder -> {1}]
      PROVE  /\ IsFiniteSet(References(held))
             /\ Cardinality(References(held)) = Cardinality(Holder)
  <2>1. ASSUME NEW x PROVE x \in References(held) <=> x \in Holder \X {1}
    <3>1. \A h \in Holder : 1..held[h] = {1}
      OBVIOUS
    <3> QED BY <3>1, ReferenceOf
  <2>2. References(held) = Holder \X {1}
    BY <2>1
  <2>3. /\ IsFiniteSet(Holder \X {1})
        /\ Cardinality(Holder \X {1}) = Cardinality(Holder) * 1
    <3>1. IsFiniteSet(Holder) /\ IsFiniteSet({1}) /\ Cardinality({1}) = 1
      BY EventAssumption, FS_Singleton
    <3> QED BY <3>1, FS_Product
  <2>4. Cardinality(Holder) \in Nat
    BY EventAssumption, FS_CardinalityType
  <2> QED BY <2>2, <2>3, <2>4
<1> QED BY <1>1, <1>2

-----------------------------------------------------------------------------
(* The log and the references, action by action.                           *)

Tidy(s) == s.order \in Seq(Event) /\ \A c \in Chan : Counted(s.chan[c])

\* What a step does to a tidy table.
Tidies(s, n) == Logged(s, n) /\ Tidy(n)

LEMMA UntouchedTidies ==
  ASSUME NEW s, NEW n, Tidy(s), n.order = s.order, n.chan = s.chan
  PROVE  Tidies(s, n)
BY DEF Tidy, Tidies, Logged

\* One channel becomes x.
LEMMA ChanTidies ==
  ASSUME NEW s, NEW n, Shape(s), Tidy(s), NEW c \in Chan, NEW x, Counted(x),
         n.chan = [s.chan EXCEPT ![c] = x], Logged(s, n)
  PROVE  Tidies(s, n)
<1>1. s.chan \in [Chan -> ChanRec]
  BY DEF Shape, ChanRec
<1>2. ASSUME NEW d \in Chan PROVE Counted(n.chan[d])
  <2>1. d = c => n.chan[d] = x
    BY <1>1
  <2>2. d # c => n.chan[d] = s.chan[d]
    BY <1>1
  <2> QED BY <2>1, <2>2 DEF Tidy
<1> QED BY <1>2 DEF Tidies, Tidy, Logged

\* A queue that fits, and a phase in which the channel still exists.
LEMMA QueueCounts ==
  ASSUME NEW k \in ChanRec, Counted(k), NEW x, x.held = k.held, x.ref = k.ref,
         Len(x.queue) <= Capacity, x.phase = "gone" => k.ref = 0
  PROVE  Counted(x)
BY DEF Counted

\* A channel is put back changed, and its event may be completed.
LEMMA PutTidies ==
  ASSUME NEW s, Shape(s), Tidy(s), NEW c \in Chan, NEW x \in ChanRec, Counted(x)
  PROVE  Tidies(s, [s EXCEPT !.chan = [s.chan EXCEPT ![c] = x]])
<1> DEFINE C == [s.chan EXCEPT ![c] = x]
           n == [s EXCEPT !.chan = C]
<1> HIDE DEF C
<1>1. n.chan = C /\ n.order = s.order
  BY DEF Shape
<1> HIDE DEF n
<1>2. Logged(s, n)
  BY <1>1 DEF Logged, Tidy
<1>3. Tidies(s, n)
  BY <1>1, <1>2, ChanTidies DEF C
<1> QED BY <1>3 DEF n, C

LEMMA RingTidies ==
  ASSUME NEW s, NEW h, Good(s, h), Tidy(s), NEW c \in Chan, NEW x \in ChanRec, Counted(x),
         HasChan(s, c), x.ev = s.chan[c].ev, x.phase \in {"open", "closed"},
         s.next <= MaxEvent
  PROVE  Tidies(s, ChanEvent([s EXCEPT !.chan = [s.chan EXCEPT ![c] = x]], c))
<1> DEFINE C   == [s.chan EXCEPT ![c] = x]
           put == [s EXCEPT !.chan = C]
           r   == Rotated(put, s.chan[c].ev)
           n   == ChanEvent(put, c)
           y   == [x EXCEPT !.ev = s.next]
<1>0. Shape(s) /\ s.chan \in [Chan -> ChanRec]
  BY DEF Good, Shape, ChanRec
<1>1. n.chan = [s.chan EXCEPT ![c] = y] /\ s.chan[c].ev # None
  BY ChanEventMoves
<1>2. Counted(y)
  BY DEF Counted, ChanRec
<1>3. /\ Shape(put) /\ put.order = s.order /\ put.waiters = s.waiters /\ put.refs = s.refs
      /\ put.chan[c].ev = s.chan[c].ev
  <2>1. Shape(put) /\ put.chan = C /\ put.waiters = s.waiters /\ put.refs = s.refs
    BY <1>0, ChanPut
  <2>2. C[c] = x
    BY <1>0
  <2> HIDE DEF C
  <2>3. put.order = s.order
    BY <1>0 DEF Shape
  <2> QED BY <2>1, <2>2, <2>3
<1>4. s.chan[c].ev \in Event
  BY <1>0, <1>1 DEF ChanRec
<1>5. n = [r EXCEPT !.chan[c].ev = put.next]
  BY <1>3 DEF ChanEvent
<1> HIDE DEF put, y
<1>6. Logged(put, r)
  BY <1>3, <1>4, RotatedLogs DEF Tidy
<1>7. Logged(s, r)
  BY <1>3, <1>6 DEF Logged, Live
<1>8. n.order = r.order
  <2>1. Shape(r)
    <3>1. put.next \in 1..MaxEvent /\ s.chan[c].ev # put.next
      <4>1. put.next = s.next
        BY <1>0, ChanPut DEF put
      <4>2. s.next \in 1..MaxEvent
        BY <1>0 DEF Good, Owned, Shape
      <4>3. <<"chan", c>> \in Obj /\ EvOf(s, <<"chan", c>>) = s.chan[c].ev
        BY DEF Obj, EvOf
      <4>4. s.chan[c].ev < s.next /\ s.chan[c].ev \in 1..MaxEvent
        BY <1>1, <4>3 DEF Good, Owned
      <4> QED BY <4>1, <4>2, <4>4
    <3> QED BY <1>3, <1>4, <3>1, RotatedTells
  <2> HIDE DEF r, n
  <2> QED BY <1>5, <2>1 DEF Shape
<1> HIDE DEF n, r
<1>9. Logged(s, n)
  BY <1>7, <1>8 DEF Logged
<1>10. Tidies(s, n)
  BY <1>0, <1>1, <1>2, <1>9, ChanTidies
<1> QED BY <1>10 DEF n, put

LEMMA AwakeStays ==
  ASSUME NEW s, Shape(s), NEW W
  PROVE  LET n == Awake(s, W)
         IN  n.order = s.order /\ n.chan = s.chan /\ DOMAIN n = DOMAIN s
BY DEF Awake, Shape

LEMMA SleepTidies ==
  ASSUME NEW s, Shape(s), Tidy(s), NEW p, NEW ids, NEW policy, NEW ticks
  PROVE  Tidies(s, WaitOnEvents(s, p, ids, policy, ticks))
<1> DEFINE n == WaitOnEvents(s, p, ids, policy, ticks)
<1>1. n.order = s.order /\ n.chan = s.chan
  <2>1. \A S, V, H, X : LET m == [s EXCEPT !.st = S, !.wait = V, !.heap = H, !.waiters = X]
                        IN  m.order = s.order /\ m.chan = s.chan
    BY DEF Shape
  <2> QED BY <2>1 DEF WaitOnEvents
<1> HIDE DEF n
<1>2. Tidies(s, n)
  BY <1>1, UntouchedTidies
<1> QED BY <1>2 DEF n

LEMMA ProcessesTidy ==
  ASSUME IInv, Tidy(e), Processes
  PROVE  Tidies(e, e')
<1>0. Shape(e)
  BY DEF IInv, Good
<1>1. ASSUME NEW p \in Proc, Resume(p) \/ WallClock(p) \/ Stop(p) \/ Cont(p) \/ Kill(p)
      PROVE  Tidies(e, e')
  <2>1. \A x : LET n == [e EXCEPT !.st[p] = x] IN n.order = e.order /\ n.chan = e.chan
    BY <1>0 DEF Shape
  <2>2. ASSUME NEW x PROVE LET n == Leave(e, p, x) IN n.order = e.order /\ n.chan = e.chan
    <3> DEFINE a == Awake(e, {p})
    <3>1. a.order = e.order /\ a.chan = e.chan /\ DOMAIN a = DOMAIN e
      BY <1>0, AwakeStays
    <3>2. {"order", "chan"} \subseteq DOMAIN a
      BY <1>0, <3>1 DEF Shape
    <3>3. Leave(e, p, x) = [a EXCEPT !.st[p] = x]
      BY DEF Leave
    <3> HIDE DEF a
    <3> QED BY <3>1, <3>2, <3>3
  <2>3. e'.order = e.order /\ e'.chan = e.chan
    <3>1. CASE Resume(p)
      BY <2>1, <3>1 DEF Resume
    <3>2. CASE WallClock(p)
      <4>1. e' = Awake(e, {p})
        BY <3>2 DEF WallClock, WakeProcess
      <4> QED BY <1>0, <4>1, AwakeStays
    <3>3. CASE Stop(p) \/ Cont(p) \/ Kill(p)
      <4>1. \E x : e' = Leave(e, p, x)
        BY <3>3, Zenon DEF Stop, Cont, Kill
      <4> QED BY <2>2, <4>1
    <3> QED BY <1>1, <3>1, <3>2, <3>3
  <2> QED BY <2>3, UntouchedTidies
<1>2. ASSUME NEW p \in Proc, NEW srcs, NEW policy, NEW ticks, Park(p, srcs, policy, ticks)
      PROVE  Tidies(e, e')
  <2>1. e' = e \/ \E ids : e' = WaitOnEvents(e, p, ids, policy, ticks)
    BY <1>2, Zenon DEF Park, WaitMany
  <2> QED BY <1>0, <2>1, SleepTidies, UntouchedTidies
<1>3. ASSUME NEW p \in Proc, NEW ids, NEW policy, RawWait(p, ids, policy)
      PROVE  Tidies(e, e')
  <2>1. e' = WaitOnEvents(e, p, ids, policy, None)
    BY <1>3, Zenon DEF RawWait
  <2> QED BY <1>0, <2>1, SleepTidies
<1>4. ASSUME NEW ev \in Outside, Complete(ev)
      PROVE  Tidies(e, e')
  <2>1. ev \in Event /\ e' = Notify(e, ev)
    BY <1>4, Events DEF Complete
  <2>2. e'.chan = e.chan
    BY <1>0, <2>1, NotifyTells DEF SameObjects
  <2>3. Logged(e, e')
    BY <1>0, <2>1, NotifyLogs DEF Tidy
  <2> QED BY <2>2, <2>3 DEF Tidies, Tidy, Logged
<1>5. ASSUME Tick
      PROVE  Tidies(e, e')
  <2> DEFINE due == {x \in e.heap : x[1] <= e.tick + 1}
             W == {p \in Proc : e.st[p] = "waiting" /\ <<e.wait[p].due, p>> \in due}
             a == Awake(e, W)
  <2>1. e' = [a EXCEPT !.tick = e.tick + 1, !.heap = @ \ due]
    BY <1>5 DEF Tick, AdvanceTicks
  <2>2. a.order = e.order /\ a.chan = e.chan /\ DOMAIN a = DOMAIN e
    BY <1>0, AwakeStays
  <2>3. {"order", "chan"} \subseteq DOMAIN a
    BY <1>0, <2>2 DEF Shape
  <2> HIDE DEF a, due
  <2>4. e'.order = e.order /\ e'.chan = e.chan
    BY <2>1, <2>2, <2>3
  <2> QED BY <2>4, UntouchedTidies
<1> QED BY <1>1, <1>2, <1>3, <1>4, <1>5, Zenon DEF Processes

LEMMA FutexesTidy ==
  ASSUME IInv, Tidy(e), NEW f \in Futex, Make(f) \/ Unmake(f) \/ \E v \in {0, 1} : Store(f, v)
  PROVE  Tidies(e, e')
<1>0. Shape(e) /\ e.futex \in [Futex -> FutexRec]
  BY DEF IInv, Good, Shape, FutexRec
<1>1. CASE Make(f)
  <2>1. \A F, R, X : LET n == [e EXCEPT !.futex = F, !.refs = R, !.next = X]
                     IN  n.order = e.order /\ n.chan = e.chan
    BY <1>0 DEF Shape
  <2>2. e'.order = e.order /\ e'.chan = e.chan
    BY <1>1, <2>1 DEF Make, FutexCreate
  <2> QED BY <2>2, UntouchedTidies
<1> DEFINE a == e.futex[f].ev
<1>2. HasFutex(e, f) => a \in Event
  BY <1>0 DEF IInv, Good, Living, FutexRec
<1>3. CASE Unmake(f)
  <2> DEFINE u == Unref(e, a)
             m == Notify(u, a)
  <2>1. a \in Event /\ e' = [m EXCEPT !.futex[f].phase = "gone", !.futex[f].ev = None]
    BY <1>2, <1>3, Zenon DEF Unmake, FutexDestroy
  <2>2. /\ Shape(u) /\ u.refs = [e.refs EXCEPT ![a] = Less(@)]
        /\ u.waiters = e.waiters /\ u.chan = e.chan
    BY <1>0, <2>1, UnrefFields
  <2> HIDE DEF a
  <2>3. u.order = e.order
    BY <1>0 DEF Unref, Shape
  <2> HIDE DEF u
  <2>4. Shape(m) /\ m.chan = e.chan /\ Logged(u, m)
    BY <2>1, <2>2, <2>3, NotifyTells, NotifyLogs DEF SameObjects, Tidy
  <2> HIDE DEF m
  <2>5. \A ev \in Event : Live(u, ev) => Live(e, ev)
    <3>1. \A ev \in Event : u.refs[ev] > 0 => e.refs[ev] > 0
      BY <1>0, <2>1, <2>2 DEF Less, Shape
    <3> QED BY <2>2, <3>1 DEF Live
  <2>6. e'.order = m.order /\ e'.chan = m.chan
    <3>1. \A F : LET n == [m EXCEPT !.futex = F] IN n.order = m.order /\ n.chan = m.chan
      BY <2>4 DEF Shape
    <3>2. \E F : e' = [m EXCEPT !.futex = F]
      BY <2>1, <2>4 DEF Shape
    <3> QED BY <3>1, <3>2
  <2>7. Logged(e, e')
    <3>1. \A i \in 1..(Len(m.order) - Retention) : m.order[i] \in Event
      <4>1. m.order \in Seq(Event) /\ Len(m.order) \in Nat /\ Retention \in Nat
        BY <2>4, EventAssumption DEF Logged
      <4> QED BY <4>1
    <3> QED BY <2>3, <2>4, <2>5, <2>6, <3>1 DEF Logged
  <2> QED BY <2>4, <2>6, <2>7 DEF Tidies, Tidy, Logged
<1>4. ASSUME NEW v \in {0, 1}, Store(f, v)
      PROVE  Tidies(e, e')
  <2>1. CASE e.futex[f].val = v
    <3>1. e' = e
      BY <1>4, <2>1 DEF Store, FutexStore
    <3> QED BY <3>1, UntouchedTidies
  <2>2. CASE e.futex[f].val # v
    <3> DEFINE r == Rotated(e, a)
    <3>1. /\ a \in Event
          /\ e' = [r EXCEPT !.futex[f].val = v, !.futex[f].ev = e.next]
      BY <1>2, <1>4, <2>2, Zenon DEF Store, FutexStore
    <3>2. e.next \in 1..MaxEvent /\ a # e.next
      <4>1. <<"futex", f>> \in Obj /\ EvOf(e, <<"futex", f>>) = a
        BY DEF Obj, EvOf
      <4>2. a # None
        BY <3>1, Events
      <4>3. a \in 1..MaxEvent /\ a < e.next /\ e.next \in Nat
        BY <1>0, <4>1, <4>2 DEF IInv, Good, Owned, Shape
      <4> HIDE DEF a
      <4>4. e.next >= 1 /\ e.next <= MaxEvent
        BY <1>4 DEF IInv, Good, Owned, Store, Fits
      <4> QED BY <4>3, <4>4, EventAssumption
    <3> HIDE DEF a
    <3>3. Shape(r) /\ r.chan = e.chan /\ Logged(e, r)
      BY <1>0, <3>1, <3>2, RotatedTells, RotatedLogs DEF Tidy
    <3> HIDE DEF r
    <3>4. e'.order = r.order /\ e'.chan = r.chan
      <4>1. \A F : LET n == [r EXCEPT !.futex = F] IN n.order = r.order /\ n.chan = r.chan
        BY <3>3 DEF Shape
      <4>2. \E F : e' = [r EXCEPT !.futex = F]
        BY <3>1, <3>3 DEF Shape
      <4> QED BY <4>1, <4>2
    <3> QED BY <3>3, <3>4 DEF Tidies, Tidy, Logged
  <2> QED BY <2>1, <2>2
<1> QED BY <1>1, <1>3, <1>4

LEMMA OpenTidies ==
  ASSUME IInv, Tidy(e), NEW c \in Chan, NEW p \in Proc, Open(c, p, Holder)
  PROVE  Tidies(e, e')
<1> DEFINE held == [h \in Holder |-> IF h \in Holder THEN 1 ELSE 0]
           x == [phase |-> "open", owner |-> p, ev |-> e.next, queue |-> <<>>,
                 ref |-> Cardinality(Holder), held |-> held]
<1>0. Shape(e)
  BY DEF IInv, Good
<1>1. e' = [e EXCEPT !.chan[c] = x, !.refs[e.next] = @ + 1, !.next = @ + 1]
  BY Zenon DEF Open, ChanCreate
<1>2. Counted(x)
  <2>1. held \in [Holder -> Nat] /\ held \in [Holder -> {1}]
    OBVIOUS
  <2>2. IsFiniteSet(References(held)) /\ Cardinality(References(held)) = Cardinality(Holder)
    BY <2>1, NewCounts
  <2>3. Len(<<>>) <= Capacity
    BY EventAssumption
  <2> HIDE DEF held
  <2>4. x.held = held /\ x.ref = Cardinality(Holder) /\ x.queue = <<>> /\ x.phase = "open"
    OBVIOUS
  <2> HIDE DEF x
  <2> QED BY <2>1, <2>2, <2>3, <2>4 DEF Counted
<1> HIDE DEF x
<1>3. e'.chan = [e.chan EXCEPT ![c] = x] /\ e'.order = e.order
  <2>1. \A R, X : LET n == [e EXCEPT !.chan = [e.chan EXCEPT ![c] = x], !.refs = R, !.next = X]
                  IN  n.chan = [e.chan EXCEPT ![c] = x] /\ n.order = e.order
    BY <1>0 DEF Shape
  <2> QED BY <1>1, <2>1
<1>4. Logged(e, e')
  BY <1>3 DEF Logged, Tidy
<1> QED BY <1>0, <1>2, <1>3, <1>4, ChanTidies

LEMMA ChannelsTidy ==
  ASSUME IInv, Tidy(e), NEW c \in Chan,
         \/ \E who \in Who, m \in Msg : Send(c, who, m)
         \/ \E who \in Who : Receive(c, who) \/ Close(c, who) \/ Destroy(c, who)
         \/ \E h \in Holder : Retain(c, h) \/ Release(c, h)
  PROVE  Tidies(e, e')
<1> DEFINE k == e.chan[c]
<1>0. /\ Shape(e) /\ e.chan \in [Chan -> ChanRec] /\ k \in ChanRec /\ Counted(k)
      /\ k.queue \in Seq(Msg) /\ k.held \in [Holder -> Int] /\ k.ref \in Int
  BY DEF IInv, Good, Shape, ChanRec, Tidy
<1>1. ASSUME NEW who \in Who, NEW m \in Msg, Send(c, who, m)
      PROVE  Tidies(e, e')
  <2> DEFINE x == [k EXCEPT !.queue = Append(k.queue, m)]
             put == [e EXCEPT !.chan = [e.chan EXCEPT ![c] = x]]
  <2>1. CanSend(e, c, who) /\ k.phase = "open" /\ HasChan(e, c) /\ Len(k.queue) < Capacity
        /\ e.next <= MaxEvent
    BY <1>1 DEF Send, CanSend, HasChan, Fits
  <2>2. Append(k.queue, m) \in Seq(Msg) /\ Len(Append(k.queue, m)) = Len(k.queue) + 1
    BY <1>0
  <2>3. /\ x \in ChanRec /\ x.ev = k.ev /\ x.phase = "open" /\ x.held = k.held
        /\ x.ref = k.ref /\ x.queue = Append(k.queue, m)
    BY <1>0, <2>1, <2>2 DEF ChanRec
  <2>4. Len(x.queue) <= Capacity
    BY <1>0, <2>1, <2>2, <2>3, EventAssumption
  <2>5. put = [e EXCEPT !.chan[c].queue = Append(@, m)]
    BY <1>0 DEF ChanRec, Shape
  <2>6. e' = put \/ e' = ChanEvent(put, c)
    BY <1>1, <2>1, <2>5 DEF Send, ChanSend
  <2> HIDE DEF k
  <2>7. Counted(x)
    BY <1>0, <2>3, <2>4, QueueCounts
  <2> HIDE DEF x
  <2>8. e.chan[c].ev = x.ev
    BY <2>3 DEF k
  <2> QED BY <1>0, <2>1, <2>3, <2>6, <2>7, <2>8, PutTidies, RingTidies DEF IInv
<1>2. ASSUME NEW who \in Who, Receive(c, who)
      PROVE  Tidies(e, e')
  <2>1. PICK Q \in Seq(Msg) : e' = [e EXCEPT !.chan[c].queue = Q] /\ Len(Q) <= Len(k.queue)
    <3>1. k.queue # <<>> /\ (e' = ChanRecv(e, c) \/ e' = ChanRecvAll(e, c))
      BY <1>2 DEF Receive
    <3>2. /\ Tail(k.queue) \in Seq(Msg) /\ Len(Tail(k.queue)) <= Len(k.queue)
          /\ <<>> \in Seq(Msg) /\ Len(<<>>) <= Len(k.queue)
      BY <1>0, <3>1
    <3>3. ChanRecv(e, c) = [e EXCEPT !.chan[c].queue = Tail(k.queue)]
      BY <1>0 DEF ChanRecv, ChanRec, Shape
    <3>4. ChanRecvAll(e, c) = [e EXCEPT !.chan[c].queue = <<>>]
      BY DEF ChanRecvAll
    <3> QED BY <3>1, <3>2, <3>3, <3>4
  <2> DEFINE x == [k EXCEPT !.queue = Q]
  <2>2. x \in ChanRec /\ x.held = k.held /\ x.ref = k.ref /\ x.queue = Q /\ x.phase = k.phase
    BY <1>0 DEF ChanRec
  <2>3. e' = [e EXCEPT !.chan = [e.chan EXCEPT ![c] = x]]
    BY <1>0, <2>1 DEF ChanRec, Shape
  <2>4. Len(x.queue) <= Capacity
    <3>1. Len(Q) \in Nat /\ Len(k.queue) \in Nat /\ Len(k.queue) <= Capacity
      BY <1>0 DEF Counted
    <3> QED BY <2>1, <2>2, <3>1, EventAssumption
  <2>5. k.phase # "gone"
    BY <1>2 DEF Receive, HasChan
  <2> HIDE DEF k, x
  <2>6. Counted(x)
    BY <1>0, <2>2, <2>4, <2>5, QueueCounts
  <2> QED BY <1>0, <2>2, <2>3, <2>6, PutTidies
<1>3. ASSUME NEW who \in Who, Close(c, who)
      PROVE  Tidies(e, e')
  <2> DEFINE x == [k EXCEPT !.phase = "closed"]
             put == [e EXCEPT !.chan = [e.chan EXCEPT ![c] = x]]
  <2>1. HasChan(e, c) /\ e.next <= MaxEvent
    BY <1>3 DEF Close, Fits
  <2>2. /\ x \in ChanRec /\ x.ev = k.ev /\ x.phase = "closed" /\ x.held = k.held
        /\ x.ref = k.ref /\ x.queue = k.queue
    BY <1>0 DEF ChanRec
  <2>3. put = [e EXCEPT !.chan[c].phase = "closed"]
    BY <1>0 DEF ChanRec, Shape
  <2>4. e' = put \/ e' = ChanEvent(put, c)
    BY <1>3, <2>3 DEF Close, ChanClose
  <2> HIDE DEF k
  <2>5. Counted(x)
    BY <1>0, <2>2, QueueCounts DEF Counted
  <2> HIDE DEF x
  <2>6. e.chan[c].ev = x.ev
    BY <2>2 DEF k
  <2> QED BY <1>0, <2>1, <2>2, <2>4, <2>5, <2>6, PutTidies, RingTidies DEF IInv
<1>4. ASSUME NEW who \in Who, Destroy(c, who)
      PROVE  Tidies(e, e')
  <2> DEFINE u == Unref(e, k.ev)
             x == [k EXCEPT !.phase = "gone", !.ev = None]
  <2>1. k.phase = "closed" /\ k.ref = 0
    BY <1>4 DEF Destroy, GcEligible
  <2>2. k.ev \in Event
    BY <1>0, <2>1 DEF IInv, Good, Living, HasChan, ChanRec
  <2>3. Shape(u) /\ u.chan = e.chan
    BY <1>0, <2>2, UnrefFields
  <2>4. u.order = e.order
    BY <1>0 DEF Unref, Shape
  <2>5. e' = [u EXCEPT !.chan[c].phase = "gone", !.chan[c].ev = None]
    BY <1>4 DEF Destroy, ChanDestroy, ChanRemove
  <2> HIDE DEF u
  <2>6. /\ x \in ChanRec /\ x.held = k.held /\ x.ref = k.ref /\ x.queue = k.queue
    BY <1>0 DEF ChanRec
  <2>7. e' = [u EXCEPT !.chan = [e.chan EXCEPT ![c] = x]]
    BY <1>0, <2>3, <2>5 DEF Shape, ChanRec
  <2> HIDE DEF k
  <2>8. Counted(x)
    BY <1>0, <2>1, <2>6, QueueCounts DEF Counted
  <2> HIDE DEF x
  <2>9. e'.chan = [e.chan EXCEPT ![c] = x] /\ e'.order = e.order
    <3>1. \A C : LET n == [u EXCEPT !.chan = C] IN n.chan = C /\ n.order = u.order
      BY <2>3 DEF Shape
    <3> QED BY <2>4, <2>7, <3>1
  <2>10. Logged(e, e')
    BY <2>9 DEF Logged, Tidy
  <2> QED BY <1>0, <2>8, <2>9, <2>10, ChanTidies
<1>5. ASSUME NEW h \in Holder, Retain(c, h)
      PROVE  Tidies(e, e')
  <2> DEFINE H == [k.held EXCEPT ![h] = k.held[h] + 1]
             y == [k EXCEPT !.ref = k.ref + 1, !.held = H]
  <2>1. k.phase # "gone"
    BY <1>5 DEF Retain, HasChan
  <2>2. e' = [e EXCEPT !.chan = [e.chan EXCEPT ![c] = y]]
    BY <1>0, <1>5 DEF Retain, ChanRetain, ChanRec
  <2>3. H \in [Holder -> Int] /\ k.ref + 1 \in Int
    BY <1>0
  <2> HIDE DEF k
  <2>4. Counted(y)
    BY <1>0, <2>1, RetainCounts
  <2> HIDE DEF H
  <2>5. y \in ChanRec
    BY <1>0, <2>3 DEF ChanRec
  <2> HIDE DEF y
  <2> QED BY <1>0, <2>2, <2>4, <2>5, PutTidies
<1>6. ASSUME NEW h \in Holder, Release(c, h)
      PROVE  Tidies(e, e')
  <2> DEFINE H == [k.held EXCEPT ![h] = k.held[h] - 1]
             y == [k EXCEPT !.ref = k.ref - 1, !.held = H]
  <2>1. k.phase # "gone" /\ HasChan(e, c) /\ k.held[h] # 0
    BY <1>0, <1>6 DEF Release, HasChan
  <2>2. e' = [e EXCEPT !.chan = [e.chan EXCEPT ![c] = y]]
    BY <1>0, <1>6, <2>1 DEF Release, ChanRelease, ChanRec
  <2>3. H \in [Holder -> Int] /\ k.ref - 1 \in Int
    BY <1>0
  <2> HIDE DEF k
  <2>4. Counted(y)
    BY <1>0, <2>1, ReleaseCounts
  <2> HIDE DEF H
  <2>5. y \in ChanRec
    BY <1>0, <2>3 DEF ChanRec
  <2> HIDE DEF y
  <2> QED BY <1>0, <2>2, <2>4, <2>5, PutTidies
<1> QED BY <1>1, <1>2, <1>3, <1>4, <1>5, <1>6

LEMMA InitTidy ==
  ASSUME Init
  PROVE  Tidy(e)
<1>1. /\ e.order = <<>>
      /\ e.chan = [c \in Chan |-> [phase |-> "new", owner |-> None, ev |-> None,
                                   queue |-> <<>>, ref |-> 0,
                                   held |-> [h \in Holder |-> 0]]]
  BY DEF Init, EmptyTable
<1>2. ASSUME NEW c \in Chan PROVE Counted(e.chan[c])
  <2> DEFINE held == [h \in Holder |-> 0]
  <2>1. held \in [Holder -> Nat] /\ held \in [Holder -> {0}]
    OBVIOUS
  <2>2. IsFiniteSet(References(held)) /\ Cardinality(References(held)) = 0
    BY <2>1, NewCounts
  <2>3. Len(<<>>) <= Capacity
    BY EventAssumption
  <2>4. /\ e.chan[c].held = held /\ e.chan[c].ref = 0 /\ e.chan[c].queue = <<>>
        /\ e.chan[c].phase = "new"
    BY <1>1
  <2> HIDE DEF held
  <2> QED BY <2>1, <2>2, <2>3, <2>4 DEF Counted
<1> QED BY <1>1, <1>2 DEF Tidy

LEMMA NextTidies ==
  ASSUME IInv, Tidy(e), [Next]_vars
  PROVE  Tidies(e, e')
<1>1. CASE UNCHANGED vars
  BY <1>1, UntouchedTidies DEF vars
<1>2. CASE Objects
  BY <1>2, OpenTidies, ChannelsTidy, FutexesTidy, Zenon DEF Objects
<1>3. CASE Processes
  BY <1>3, ProcessesTidy
<1> QED BY <1>1, <1>2, <1>3 DEF Next

LEMMA TidyInductive == Spec => []Tidy(e)
<1>1. IInv /\ Tidy(e) /\ [Next]_vars => Tidy(e)'
  BY NextTidies DEF Tidies, Tidy
<1> QED BY <1>1, InitTidy, Inductive, PTL DEF Spec

LEMMA SeqBounded ==
  ASSUME NEW q \in Seq(Msg), Len(q) <= Capacity
  PROVE  q \in BoundedSeq(Msg, Capacity)
<1>1. Len(q) \in 0..Capacity /\ q \in [1..Len(q) -> Msg]
  BY EventAssumption
<1> QED BY <1>1 DEF BoundedSeq, SeqOf

-----------------------------------------------------------------------------
(* The theorems about the log and the references.                          *)

\* Every method of the kernel leaves its tables well formed: ids, queues within the
\* capacity of their channel (channel_send), counts that are never negative
\* (channel_release_named, dec_event_source_ref), a log of events that exist.
THEOREM TypeCorrect == Spec => []TypeOK
<1>1. IInv /\ Tidy(e) => TypeOK
  <2> SUFFICES ASSUME IInv, Tidy(e) PROVE TypeOK
    OBVIOUS
  <2>1. Shape(e) /\ Hist(parked)
    BY DEF IInv, Good
  <2> DEFINE CR == [phase : {"new", "open", "closed", "gone"},
                    owner : Proc \cup {None}, ev : Event \cup {None},
                    queue : BoundedSeq(Msg, Capacity), ref : Nat, held : [Holder -> Nat]]
  <2>2. ASSUME NEW c \in Chan PROVE e.chan[c] \in CR
    <3> DEFINE k == e.chan[c]
    <3>1. k \in ChanRec /\ Counted(k)
      BY <2>1 DEF Shape, ChanRec, Tidy
    <3> HIDE DEF k
    <3>2. k.ref \in Nat /\ k.held \in [Holder -> Nat]
      BY <3>1, FS_CardinalityType DEF Counted
    <3>3. k.queue \in BoundedSeq(Msg, Capacity)
      BY <3>1, SeqBounded DEF Counted, ChanRec
    <3>4. k \in CR
      BY <3>1, <3>2, <3>3 DEF ChanRec
    <3> QED BY <3>4 DEF k
  <2>3. e.chan \in [Chan -> CR]
    BY <2>1, <2>2 DEF Shape
  <2> HIDE DEF CR
  <2>4. e.order \in Seq(Event)
    BY DEF Tidy
  <2>5. e \in Table
    BY <2>1, <2>3, <2>4 DEF Shape, Table, PState, CR
  <2> QED BY <2>1, <2>5 DEF TypeOK, Hist
<1> QED BY <1>1, Inductive, TidyInductive, PTL

\* The ref_count of a channel is exact, whatever the order of channel_retain_named and
\* channel_release_named by any number of holders, and a channel is destroyed
\* (channel_destroy, channel_gc_closed_empty) only when nobody holds it.
THEOREM HoldersAreCounted == Spec => []HoldersCounted
<1>1. Tidy(e) => HoldersCounted
  BY DEF Tidy, Counted, HoldersCounted, HeldCount
<1> QED BY <1>1, TidyInductive, PTL

\* Whenever the log of completed events changes, what prune_completed_events leaves in it
\* beyond the newest Retention entries was live: somebody waited for it, or an object owned
\* it.
THEOREM RetentionHolds == Spec => RetentionBounded
<1>1. IInv /\ Tidy(e) /\ [Next]_vars =>
        [e'.order # e.order =>
           \A i \in 1..(Len(e'.order) - Retention) : Live(e, e'.order[i])]_e
  BY NextTidies DEF Tidies, Logged
<1> QED BY <1>1, Inductive, TidyInductive, PTL DEF Spec, RetentionBounded
=============================================================================
