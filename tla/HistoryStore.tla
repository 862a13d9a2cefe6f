---------------------------- MODULE HistoryStore ----------------------------
(***************************************************************************)
(* The history of one session (src/bin/ai/history): an SQLite file that    *)
(* several processes open.  Its messages are the one true record; beside   *)
(* them are a snapshot that stands for the older ones in a request, the    *)
(* counters that fence stale snapshots and caches, and the numbers of the  *)
(* turns.  A compaction reads the history, waits for a model to summarise  *)
(* it and writes the snapshot; meanwhile messages are added, the history   *)
(* is rewound, cleared, deleted, or replaced by a checkpoint in a          *)
(* transaction of several files that may be interrupted anywhere.          *)
(***************************************************************************)
EXTENDS Naturals, FiniteSets, FiniteSetsExt

CONSTANTS App,          \* the processes that use the session
          Usual,        \* those with the usual configuration
          MaxMessages,  \* bound on the messages ever written
          MaxRevision,  \* bound on the revision of the file
          MaxTurns,     \* bound on the turn numbers handed out
          CacheLimit,   \* CONTEXT_HISTORY_CACHE_LIMIT
          Commands,     \* what is done to the session besides adding to it: compact, read
                        \* (for a request), rewind, clear, delete, checkpoint, switch
          Faults        \* what may happen: crash, fail (of a step with several files), and
                        \* old (the file was written by a version without turn numbers)

ASSUME StoreAssumption ==
  /\ Usual \subseteq App
  /\ MaxMessages \in Nat /\ MaxRevision \in Nat /\ MaxTurns \in Nat
  /\ CacheLimit \in Nat \ {0}
  /\ Commands \subseteq {"compact", "read", "rewind", "clear", "delete", "checkpoint", "switch"}
  /\ Faults \subseteq {"crash", "fail", "old"}

\* context_projection_fingerprint: what a snapshot depends on besides the messages.
Fingerprint(a) == IF a \in Usual THEN "usual" ELSE "other"

VARIABLES
  live,     \* the session's file
  ckpt,     \* its checkpoint, if there is one: a set of at most one file
  pending,  \* the rollback transaction with a manifest, if there is one
  at,       \* per process: in (the session is its current one), or out
  cp,       \* per process: the checkpoint operation it holds the lock for
  comp,     \* per process: the compaction of this session that is under way
  read,     \* per process: build_context_history between its key and its read
  cache,    \* per process: CONTEXT_HISTORY_CACHE
  fresh,    \* messages written so far, which names the next one
  handed, reserved, \* history: the turn numbers handed out, and how often
  stray     \* history: the file was deleted under a compaction

files == <<live, ckpt, pending>>
views == <<read, cache>>
ghost == <<fresh, handed, reserved, stray>>
vars  == <<files, at, cp, comp, views, ghost>>

\* A turn's messages stand for one, which has a row id, that SQLite counts up in the file,
\* and an identity.
Row == [id : Nat \ {0}, m : Nat]
Snapshot == [of : SUBSET Nat, upto : Nat, gen : Nat, mark : {"none", "usual", "other"}]
File == [rows : SUBSET Row, seq : Nat, gen : Nat, rev : Nat, born : Nat,
         numbered : BOOLEAN, turn : Nat, snap : Snapshot]

NoSnapshot == [of |-> {}, upto |-> 0, gen |-> 0, mark |-> "none"]
NewFile(born) == [rows |-> {}, seq |-> 0, gen |-> 0, rev |-> 0, born |-> born,
                  numbered |-> FALSE, turn |-> 0, snap |-> NoSnapshot]
OldFile == [NewFile(0) EXCEPT !.rows = {[id |-> 1, m |-> 1]}, !.seq = 1]

NoCp   == [step |-> "idle", want |-> "none"]
NoComp == [busy |-> FALSE, of |-> {}, upto |-> 0, gen |-> 0]
NoRead == [busy |-> FALSE, born |-> 0, rev |-> 0]

Init == /\ live \in {NewFile(0)} \cup (IF "old" \in Faults THEN {OldFile} ELSE {})
        /\ ckpt = {} /\ pending = {}
        /\ at = [a \in App |-> "out"] /\ cp = [a \in App |-> NoCp]
        /\ comp = [a \in App |-> NoComp]
        /\ read = [a \in App |-> NoRead] /\ cache = [a \in App |-> {}]
        /\ fresh = Cardinality(live.rows)
        /\ handed = {} /\ reserved = 0 /\ stray = FALSE

Locked == \E a \in App : cp[a].step # "idle"

\* The process is at work on the session, and nothing keeps its main thread.
Foreground(a) == at[a] = "in" /\ cp[a].step = "idle" /\ ~read[a].busy

Room == live.rev < MaxRevision

-----------------------------------------------------------------------------
(* The file.                                                               *)

Messages(rows) == {r.m : r \in rows}
UpTo(rows, id) == {r \in rows : r.id <= id}

\* read_context_history_sqlite: the snapshot, unless it is of another generation or
\* another policy, and the messages after it.
Current(f, mark) == f.snap.mark = mark /\ f.snap.gen = f.gen
Summary(f, mark) == IF Current(f, mark) THEN f.snap.of ELSE {}
Tail(f, mark) ==
  Messages(f.rows \ UpTo(f.rows, IF Current(f, mark) THEN f.snap.upto ELSE 0))
Shown(f, mark) == Summary(f, mark) \cup Tail(f, mark)

Latest(f) == Max({0} \cup {r.id : r \in f.rows})

\* invalidate_context_snapshot, whose caller raises the revision as well.
Invalidated(f) == [f EXCEPT !.snap = NoSnapshot, !.gen = @ + 1]
Bumped(f) == [f EXCEPT !.rev = @ + 1]

\* Mutant: the fence is not raised when messages are removed.
KeptUnfenced(f, keep) == Bumped([f EXCEPT !.rows = keep])

\* Mutant: neither is the revision.
KeptSilently(f, keep) == Invalidated([f EXCEPT !.rows = keep])

Kept(f, keep) == Bumped(Invalidated([f EXCEPT !.rows = keep]))

\* append_history_sqlite_for_model
Append(a) ==
  /\ Foreground(a) /\ Room /\ fresh < MaxMessages
  /\ live' = Bumped([live EXCEPT !.rows = @ \cup {[id |-> live.seq + 1, m |-> fresh + 1]},
                                 !.seq = @ + 1])
  /\ fresh' = fresh + 1
  /\ UNCHANGED <<ckpt, pending, at, cp, comp, views, handed, reserved, stray>>

\* truncate_messages_sqlite, for a rewind: the rows after the first few go.  If there are
\* no more than those, only the revision is raised.
Truncate(a) ==
  /\ "rewind" \in Commands /\ Foreground(a) /\ Room
  /\ \/ \E cut \in {0} \cup {r.id : r \in live.rows} :
          live' = Kept(live, UpTo(live.rows, cut))
     \/ live' = Bumped(live)
  /\ cache' = [cache EXCEPT ![a] = {}]
  /\ UNCHANGED <<ckpt, pending, at, cp, comp, read, ghost>>

\* reserve_turn_index_sqlite; a file without numbers counts the user's messages.
NextTurn(f) == IF f.numbered THEN f.turn ELSE Cardinality(f.rows)

Reserve(a) ==
  /\ Foreground(a) /\ reserved < MaxTurns
  /\ live' = [live EXCEPT !.numbered = TRUE, !.turn = NextTurn(live) + 1]
  /\ handed' = handed \cup {NextTurn(live)} /\ reserved' = reserved + 1
  /\ UNCHANGED <<ckpt, pending, at, cp, comp, views, fresh, stray>>

\* Mutant: all of the meta table is cleared.
ClearedAll(f) == NewFile(f.born)

\* clear_session_history_sqlite keeps the three counters.
Cleared(f) == Kept(f, {})

\* clear_session_history: the file first, the directory of the checkpoints last.
ClearHistory(a) ==
  /\ "clear" \in Commands /\ Foreground(a) /\ ~Locked /\ Room
  /\ live' = Cleared(live)
  /\ \/ ckpt' = {} /\ pending' = {}
     \/ "fail" \in Faults /\ UNCHANGED <<ckpt, pending>>
  /\ cache' = [cache EXCEPT ![a] = {}]
  /\ UNCHANGED <<at, cp, comp, read, ghost>>

\* delete_session, of its own session or of one that is open elsewhere.
Delete(a) ==
  /\ "delete" \in Commands /\ ~Locked /\ cp[a].step = "idle" /\ ~read[a].busy
  /\ live.rows # {}
  /\ live' = NewFile(live.born + 1)
  /\ ckpt' = {} /\ pending' = {}
  /\ at' = [at EXCEPT ![a] = "out"] /\ cache' = [cache EXCEPT ![a] = {}]
  /\ handed' = {} /\ reserved' = 0
  /\ stray' = (stray \/ \E b \in App : comp[b].busy)
  /\ UNCHANGED <<cp, comp, read, fresh>>

-----------------------------------------------------------------------------
(* Compaction.                                                             *)

\* compact_session_history_with_app reads the context; then it waits.
StartCompaction(a) ==
  /\ "compact" \in Commands /\ at[a] = "in" /\ ~comp[a].busy
  /\ live.rows # {}
  /\ ~(Current(live, Fingerprint(a)) /\ live.snap.upto = Latest(live))
  /\ comp' = [comp EXCEPT ![a] = [busy |-> TRUE, of |-> Shown(live, Fingerprint(a)),
                                  upto |-> Latest(live), gen |-> live.gen]]
  /\ UNCHANGED <<files, at, cp, views, ghost>>

\* write_context_snapshot_sqlite
Written(a) == Bumped([live EXCEPT !.snap = [of |-> comp[a].of, upto |-> comp[a].upto,
                                            gen |-> comp[a].gen, mark |-> Fingerprint(a)]])

FinishCompaction(a) ==
  /\ comp[a].busy
  /\ live.gen = comp[a].gen => Room
  /\ live' = IF live.gen = comp[a].gen THEN Written(a) ELSE live
  /\ comp' = [comp EXCEPT ![a] = NoComp]
  /\ UNCHANGED <<ckpt, pending, at, cp, views, ghost>>

\* The lock is not had in time, or SQLite stays busy; or the history is short enough.
GiveUpCompaction(a) ==
  /\ comp[a].busy
  /\ comp' = [comp EXCEPT ![a] = NoComp]
  /\ UNCHANGED <<files, at, cp, views, ghost>>

-----------------------------------------------------------------------------
(* build_context_history: the key is computed before the file is read.     *)

Entry(f, key) == [born |-> key.born, rev |-> key.rev, shown |-> f]

\* store_cached_context_history; which entries a full cache drops is left open.
Stores(a, entry) == \E kept \in SUBSET cache[a] :
                      /\ Cardinality(kept) < CacheLimit
                      /\ cache' = [cache EXCEPT ![a] = kept \cup {entry}]

LookUp(a) ==
  /\ "read" \in Commands /\ Foreground(a)
  /\ ~\E e \in cache[a] : e.born = live.born /\ e.rev = live.rev
  /\ read' = [read EXCEPT ![a] = [busy |-> TRUE, born |-> live.born, rev |-> live.rev]]
  /\ UNCHANGED <<files, at, cp, comp, cache, ghost>>

ReadContext(a) ==
  /\ read[a].busy
  /\ Stores(a, Entry(Shown(live, Fingerprint(a)), read[a]))
  /\ read' = [read EXCEPT ![a] = NoRead]
  /\ UNCHANGED <<files, at, cp, comp, ghost>>

-----------------------------------------------------------------------------
(* Checkpoints.  Every operation holds the lock and first completes the    *)
(* rollback that an earlier one left.                                      *)

Step(a, step) == cp' = [cp EXCEPT ![a].step = step]
Unlocks(a) == cp' = [cp EXCEPT ![a] = NoCp]

\* Mutant: the operation does not wait for the lock.
BeginUnlocked(a, want) ==
  /\ "checkpoint" \in Commands
  /\ IF want = "startup" THEN at[a] = "out" /\ ~read[a].busy ELSE Foreground(a)
  /\ cp' = [cp EXCEPT ![a] = [step |-> IF pending = {} THEN "act" ELSE "restore",
                              want |-> want]]
  /\ UNCHANGED <<files, at, comp, views, ghost>>

Begin(a, want) ==
  /\ "checkpoint" \in Commands /\ ~Locked
  /\ IF want = "startup" THEN at[a] = "out" /\ ~read[a].busy ELSE Foreground(a)
  /\ cp' = [cp EXCEPT ![a] = [step |-> IF pending = {} THEN "act" ELSE "restore",
                              want |-> want]]
  /\ UNCHANGED <<files, at, comp, views, ghost>>

Act(a) ==
  /\ cp[a].step = "act"
  /\ CASE cp[a].want = "save" ->
            /\ ckpt' = IF live.seq > 0 THEN {live} ELSE ckpt
            /\ Unlocks(a) /\ UNCHANGED <<pending, at>>
       [] cp[a].want = "delete" ->
            /\ ckpt' = {} /\ Unlocks(a) /\ UNCHANGED <<pending, at>>
       [] cp[a].want = "rollback" ->
            /\ pending' = ckpt
            /\ IF ckpt = {} THEN Unlocks(a)
               ELSE cp' = [cp EXCEPT ![a] = [step |-> "restore", want |-> "done"]]
            /\ UNCHANGED <<ckpt, at>>
       [] OTHER ->
            /\ at' = [at EXCEPT ![a] = "in"] /\ Unlocks(a)
            /\ UNCHANGED <<ckpt, pending>>
  /\ UNCHANGED <<live, comp, views, ghost>>

Larger(m, n) == IF m < n THEN n ELSE m

\* Mutant: the turn number of the checkpoint is taken over.
RebasedTurn(f, l) == [f EXCEPT !.snap = NoSnapshot, !.numbered = TRUE,
                               !.gen = Larger(@, l.gen + 1), !.rev = Larger(@, l.rev + 1)]

\* rebase_metadata_after_rollback
Rebased(f, l) == [f EXCEPT !.snap = NoSnapshot,
                           !.gen = Larger(@, l.gen + 1), !.rev = Larger(@, l.rev + 1),
                           !.numbered = TRUE, !.turn = Larger(@, l.turn)]

\* restore_sqlite_after_rollback, whose last step is the rename of one file.
Restore(a) ==
  /\ cp[a].step = "restore" /\ Room
  /\ \E f \in pending : live' = [Rebased(f, live) EXCEPT !.born = live.born]
  /\ Step(a, "remove")
  /\ UNCHANGED <<ckpt, pending, at, comp, views, ghost>>

\* restore_checkpoint_assets, and the end of the transaction.
Remove(a) ==
  /\ cp[a].step = "remove"
  /\ pending' = {}
  /\ IF cp[a].want = "done" THEN Unlocks(a) ELSE Step(a, "act")
  /\ UNCHANGED <<live, ckpt, at, comp, views, ghost>>

\* An error ends the operation; of a rollback, it leaves the transaction.
Fail(a) ==
  /\ "fail" \in Faults /\ cp[a].step \in {"restore", "remove"}
  /\ Unlocks(a)
  /\ UNCHANGED <<files, at, comp, views, ghost>>

-----------------------------------------------------------------------------
(* Processes.                                                              *)

\* /sessions use, and away again: compactions go on.
Switch(a) ==
  /\ "switch" \in Commands /\ cp[a].step = "idle" /\ ~read[a].busy
  /\ at' = [at EXCEPT ![a] = IF @ = "in" THEN "out" ELSE "in"]
  /\ cache' = [cache EXCEPT ![a] = IF at[a] = "in" THEN {} ELSE @]
  /\ UNCHANGED <<files, cp, comp, read, ghost>>

Crash(a) ==
  /\ "crash" \in Faults
  /\ at' = [at EXCEPT ![a] = "out"] /\ Unlocks(a)
  /\ comp' = [comp EXCEPT ![a] = NoComp]
  /\ read' = [read EXCEPT ![a] = NoRead] /\ cache' = [cache EXCEPT ![a] = {}]
  /\ UNCHANGED <<files, ghost>>

Wants == {"save", "rollback", "delete", "startup"}

Next == \E a \in App :
          \/ Append(a) \/ Truncate(a) \/ Reserve(a) \/ ClearHistory(a) \/ Delete(a)
          \/ StartCompaction(a) \/ FinishCompaction(a) \/ GiveUpCompaction(a)
          \/ LookUp(a) \/ ReadContext(a)
          \/ \E want \in Wants : Begin(a, want)
          \/ Act(a) \/ Restore(a) \/ Remove(a) \/ Fail(a)
          \/ Switch(a) \/ Crash(a)

Spec == Init /\ [][Next]_vars

-----------------------------------------------------------------------------
\* Types, and that at most one operation holds the lock of the checkpoints.
TypeOK ==
  /\ live \in File /\ ckpt \subseteq File /\ pending \subseteq File
  /\ Cardinality(ckpt) <= 1 /\ Cardinality(pending) <= 1
  /\ at \in [App -> {"in", "out"}]
  /\ cp \in [App -> [step : {"idle", "act", "restore", "remove"},
                     want : Wants \cup {"none", "done"}]]
  /\ \A a, b \in App : cp[a].step # "idle" /\ cp[b].step # "idle" => a = b
  /\ comp \in [App -> [busy : BOOLEAN, of : SUBSET Nat, upto : Nat, gen : Nat]]
  /\ read \in [App -> [busy : BOOLEAN, born : Nat, rev : Nat]]
  /\ cache \in [App -> SUBSET [born : Nat, rev : Nat, shown : SUBSET Nat]]
  /\ fresh \in Nat /\ handed \subseteq Nat /\ reserved \in Nat /\ stray \in BOOLEAN

\* What a request is built from stands for every message exactly once, whichever
\* compactions were overtaken by whichever changes, except by the deletion of the file.
ContextIsCanonical ==
  ~stray => \A mark \in {"usual", "other"} :
              /\ Summary(live, mark) \cap Tail(live, mark) = {}
              /\ Shown(live, mark) = Messages(live.rows)

\* An entry of the cache whose key is the file's is what a read would give.
CacheIsFresh ==
  \A a \in App : \A e \in cache[a] :
    e.born = live.born /\ e.rev = live.rev => e.shown = Shown(live, Fingerprint(a))

\* No turn number is handed out twice in the life of a session.
TurnIndexUnique == Cardinality(handed) = reserved

\* The counters never go back, not even when an older file is put in place; what is
\* read changes with the revision, and messages are taken away with the generation.
CountersGoUp ==
  [][live'.born = live.born =>
       /\ live.gen <= live'.gen /\ live.rev <= live'.rev /\ live.turn <= live'.turn
       /\ live.rows # live'.rows => live.rev < live'.rev
       /\ ~(live.rows \subseteq live'.rows) => live.gen < live'.gen]_vars

-----------------------------------------------------------------------------
(* What the documentation says and the code does not do.                   *)

\* session.rs: a session's running work is ended before its file is deleted, so that
\* nothing writes it again.
DeletedStaysDeleted == live.snap.of \subseteq Messages(live.rows)

=============================================================================
