------------------------- MODULE HistoryStore_proofs -------------------------
(***************************************************************************)
(* Proofs about HistoryStore, for any number of processes, messages,       *)
(* revisions and turns, whatever the user does to the session and          *)
(* wherever a process crashes.                                             *)
(*                                                                         *)
(* The fences are counters, and the argument is the same for each of them: *)
(* what a compaction, a cache or a turn holds carries a number that is at  *)
(* most the file's, and whatever would make it stale raises the file's.    *)
(***************************************************************************)
EXTENDS HistoryStore, FiniteSetTheorems, WellFoundedInduction, TLAPS

-----------------------------------------------------------------------------
(* The operations on a file, field by field.                               *)

\* Names for what three of the actions do to the file.
Restored(f, l) == [Rebased(f, l) EXCEPT !.born = l.born]
Appended(f, row) == Bumped([f EXCEPT !.rows = @ \cup {row}, !.seq = @ + 1])
Reserved(f, n) == [f EXCEPT !.numbered = TRUE, !.turn = n]
Summarised(f, snap) == Bumped([f EXCEPT !.snap = snap])

LEMMA NewFileType ==
  ASSUME NEW born \in Nat
  PROVE  NewFile(born) \in File /\ NoSnapshot \in Snapshot
<1>1. NoSnapshot \in Snapshot  BY DEF NoSnapshot, Snapshot
<1>2. {} \subseteq Row  OBVIOUS
<1> QED  BY <1>1, <1>2 DEF NewFile, File

LEMMA BumpedFields ==
  ASSUME NEW f \in File
  PROVE  /\ Bumped(f) \in File /\ Bumped(f).rev = f.rev + 1
         /\ Bumped(f).rows = f.rows /\ Bumped(f).seq = f.seq /\ Bumped(f).gen = f.gen
         /\ Bumped(f).born = f.born /\ Bumped(f).snap = f.snap
         /\ Bumped(f).numbered = f.numbered /\ Bumped(f).turn = f.turn
BY DEF Bumped, File

LEMMA InvalidatedFields ==
  ASSUME NEW f \in File
  PROVE  /\ Invalidated(f) \in File /\ Invalidated(f).gen = f.gen + 1
         /\ Invalidated(f).snap = NoSnapshot
         /\ Invalidated(f).rows = f.rows /\ Invalidated(f).seq = f.seq
         /\ Invalidated(f).rev = f.rev /\ Invalidated(f).born = f.born
         /\ Invalidated(f).numbered = f.numbered /\ Invalidated(f).turn = f.turn
<1> DEFINE g == [f EXCEPT !.snap = NoSnapshot]
           h == [g EXCEPT !.gen = f.gen + 1]
<1>1. /\ g \in File /\ g.snap = NoSnapshot /\ g.rows = f.rows /\ g.seq = f.seq
      /\ g.gen = f.gen /\ g.rev = f.rev /\ g.born = f.born
      /\ g.numbered = f.numbered /\ g.turn = f.turn
  BY NewFileType DEF File
<1>2. Invalidated(f) = h  BY DEF Invalidated, File
<1> HIDE DEF g
<1>3. /\ h \in File /\ h.gen = f.gen + 1 /\ h.snap = g.snap /\ h.rows = g.rows
      /\ h.seq = g.seq /\ h.rev = g.rev /\ h.born = g.born
      /\ h.numbered = g.numbered /\ h.turn = g.turn
  BY <1>1 DEF File
<1> QED  BY <1>1, <1>2, <1>3

LEMMA KeptFields ==
  ASSUME NEW f \in File, NEW keep \in SUBSET Row
  PROVE  /\ Kept(f, keep) \in File
         /\ Kept(f, keep).rows = keep /\ Kept(f, keep).seq = f.seq
         /\ Kept(f, keep).gen = f.gen + 1 /\ Kept(f, keep).rev = f.rev + 1
         /\ Kept(f, keep).born = f.born /\ Kept(f, keep).snap = NoSnapshot
         /\ Kept(f, keep).numbered = f.numbered /\ Kept(f, keep).turn = f.turn
<1> DEFINE g == [f EXCEPT !.rows = keep]
<1>1. /\ g \in File /\ g.rows = keep /\ g.seq = f.seq /\ g.gen = f.gen /\ g.rev = f.rev
      /\ g.born = f.born /\ g.numbered = f.numbered /\ g.turn = f.turn
  BY DEF File
<1>2. Kept(f, keep) = Bumped(Invalidated(g))  BY DEF Kept
<1> HIDE DEF g
<1> QED  BY <1>1, <1>2, InvalidatedFields, BumpedFields

LEMMA RebasedFields ==
  ASSUME NEW f \in File, NEW l \in File, NEW g,
         g = Restored(f, l)
  PROVE  /\ g \in File /\ g.rows = f.rows /\ g.seq = f.seq /\ g.snap = NoSnapshot
         /\ g.gen > l.gen /\ g.rev > l.rev /\ g.born = l.born
         /\ g.numbered = TRUE /\ g.turn >= l.turn
<1> DEFINE gen == Larger(f.gen, l.gen + 1)
           rev == Larger(f.rev, l.rev + 1)
           turn == Larger(f.turn, l.turn)
           g1 == [f EXCEPT !.snap = NoSnapshot]
           g2 == [g1 EXCEPT !.gen = gen]
           g3 == [g2 EXCEPT !.rev = rev]
           g4 == [g3 EXCEPT !.numbered = TRUE]
           g5 == [g4 EXCEPT !.turn = turn]
           g6 == [g5 EXCEPT !.born = l.born]
<1>1. /\ gen \in Nat /\ gen > l.gen /\ rev \in Nat /\ rev > l.rev
      /\ turn \in Nat /\ turn >= l.turn /\ l.born \in Nat /\ NoSnapshot \in Snapshot
  <2>1. NoSnapshot \in Snapshot  BY DEF NoSnapshot, Snapshot
  <2>2. /\ f.gen \in Nat /\ f.rev \in Nat /\ f.turn \in Nat
        /\ l.gen \in Nat /\ l.rev \in Nat /\ l.turn \in Nat /\ l.born \in Nat
    BY DEF File
  <2> QED  BY <2>1, <2>2 DEF Larger
<1>2. g = g6  BY DEF Restored, Rebased
<1> HIDE DEF gen, rev, turn, g6
<1>3. /\ g1 \in File /\ g1.rows = f.rows /\ g1.seq = f.seq /\ g1.snap = NoSnapshot
  BY <1>1 DEF File
<1> HIDE DEF g1
<1>4. /\ g2 \in File /\ g2.rows = g1.rows /\ g2.seq = g1.seq /\ g2.snap = g1.snap
      /\ g2.gen = gen
  BY <1>1, <1>3 DEF File
<1> HIDE DEF g2
<1>5. /\ g3 \in File /\ g3.rows = g2.rows /\ g3.seq = g2.seq /\ g3.snap = g2.snap
      /\ g3.gen = g2.gen /\ g3.rev = rev
  BY <1>1, <1>4 DEF File
<1> HIDE DEF g3
<1>6. /\ g4 \in File /\ g4.rows = g3.rows /\ g4.seq = g3.seq /\ g4.snap = g3.snap
      /\ g4.gen = g3.gen /\ g4.rev = g3.rev /\ g4.numbered = TRUE
  BY <1>5 DEF File
<1> HIDE DEF g4
<1>7. /\ g5 \in File /\ g5.rows = g4.rows /\ g5.seq = g4.seq /\ g5.snap = g4.snap
      /\ g5.gen = g4.gen /\ g5.rev = g4.rev /\ g5.numbered = g4.numbered /\ g5.turn = turn
  BY <1>1, <1>6 DEF File
<1> HIDE DEF g5
<1>8. /\ g6 \in File /\ g6.rows = g5.rows /\ g6.seq = g5.seq /\ g6.snap = g5.snap
      /\ g6.gen = g5.gen /\ g6.rev = g5.rev /\ g6.numbered = g5.numbered
      /\ g6.turn = g5.turn /\ g6.born = l.born
  BY <1>1, <1>7 DEF File, g6
<1> QED  BY <1>1, <1>2, <1>3, <1>4, <1>5, <1>6, <1>7, <1>8

LEMMA AppendedFields ==
  ASSUME NEW f \in File, NEW row \in Row, NEW g,
         g = Appended(f, row)
  PROVE  /\ g \in File /\ g.rows = f.rows \cup {row} /\ g.seq = f.seq + 1
         /\ g.gen = f.gen /\ g.rev = f.rev + 1 /\ g.born = f.born /\ g.snap = f.snap
         /\ g.numbered = f.numbered /\ g.turn = f.turn
<1> DEFINE g1 == [f EXCEPT !.rows = f.rows \cup {row}]
           g2 == [g1 EXCEPT !.seq = f.seq + 1]
<1>1. g = Bumped(g2)  BY DEF Appended
<1> HIDE DEF g2
<1>2. /\ g1 \in File /\ g1.rows = f.rows \cup {row}
      /\ g1.gen = f.gen /\ g1.rev = f.rev /\ g1.born = f.born /\ g1.snap = f.snap
      /\ g1.numbered = f.numbered /\ g1.turn = f.turn
  BY DEF File
<1> HIDE DEF g1
<1>3. /\ g2 \in File /\ g2.rows = g1.rows /\ g2.seq = f.seq + 1
      /\ g2.gen = g1.gen /\ g2.rev = g1.rev /\ g2.born = g1.born /\ g2.snap = g1.snap
      /\ g2.numbered = g1.numbered /\ g2.turn = g1.turn
  BY <1>2 DEF File, g2
<1> QED  BY <1>1, <1>2, <1>3, BumpedFields

LEMMA ReservedFields ==
  ASSUME NEW f \in File, NEW n \in Nat
  PROVE  LET g == Reserved(f, n)
         IN  /\ g \in File /\ g.rows = f.rows /\ g.seq = f.seq /\ g.gen = f.gen
             /\ g.rev = f.rev /\ g.born = f.born /\ g.snap = f.snap
             /\ g.numbered = TRUE /\ g.turn = n
BY DEF File, Reserved

LEMMA SummarisedFields ==
  ASSUME NEW f \in File, NEW snap \in Snapshot, NEW g,
         g = Summarised(f, snap)
  PROVE  /\ g \in File /\ g.rows = f.rows /\ g.seq = f.seq /\ g.gen = f.gen
         /\ g.rev = f.rev + 1 /\ g.born = f.born /\ g.snap = snap
         /\ g.numbered = f.numbered /\ g.turn = f.turn
<1> DEFINE g1 == [f EXCEPT !.snap = snap]
<1>1. g = Bumped(g1)  BY DEF Summarised
<1>2. /\ g1 \in File /\ g1.rows = f.rows /\ g1.seq = f.seq
      /\ g1.gen = f.gen /\ g1.rev = f.rev /\ g1.born = f.born /\ g1.snap = snap
      /\ g1.numbered = f.numbered /\ g1.turn = f.turn
  BY DEF File
<1> HIDE DEF g1
<1> QED  BY <1>1, <1>2, BumpedFields

-----------------------------------------------------------------------------
(* The largest row id.                                                     *)

LEMMA LatestBounds ==
  ASSUME NEW f \in File, \A r \in f.rows : r.id <= f.seq
  PROVE  /\ Latest(f) \in Nat /\ Latest(f) <= f.seq
         /\ UpTo(f.rows, Latest(f)) = f.rows
<1> DEFINE S == {0} \cup {r.id : r \in f.rows}
           Above == {n \in Nat : \A s \in S : s <= n}
<1>1. f.seq \in Nat /\ f.rows \subseteq Row  BY DEF File
<1>2. S \subseteq Nat /\ 0 \in S  BY <1>1 DEF Row
<1>3. \A s \in S : s <= f.seq  BY <1>1
<1>4. PICK n \in Above : \A k \in Above : ~(<<k, n>> \in OpToRel(<, Nat))
  <2>1. Above \subseteq Nat /\ f.seq \in Above  BY <1>1, <1>3
  <2> HIDE DEF Above
  <2> QED  BY <2>1, WFMin, NatLessThanWellFounded
<1>5. \A k \in Above : ~(k < n)  BY <1>4 DEF OpToRel
<1>6. n \in S
  <2>1. CASE n = 0  BY <2>1, <1>2
  <2>2. CASE n # 0
    <3>1. n \in Nat /\ n - 1 \in Nat /\ n - 1 < n  BY <2>2
    <3>2. n - 1 \notin Above  BY <3>1, <1>5
    <3>3. PICK s \in S : ~(s <= n - 1)  BY <3>1, <3>2
    <3>4. s <= n /\ s \in Nat  BY <1>2, <3>3
    <3> QED  BY <3>1, <3>3, <3>4
  <2> QED  BY <2>1, <2>2
<1> HIDE DEF S
<1>7. \A s \in S : n >= s  BY <1>2
<1>8. Max(S) \in S /\ \A s \in S : Max(S) >= s  BY <1>6, <1>7 DEF Max
<1>9. Latest(f) = Max(S)  BY DEF Latest, S
<1>10. \A r \in f.rows : r.id <= Max(S)
  <2> SUFFICES ASSUME NEW r \in f.rows PROVE r.id <= Max(S)  OBVIOUS
  <2>1. r.id \in S  BY DEF S
  <2> QED  BY <1>2, <1>8, <2>1
<1>11. UpTo(f.rows, Latest(f)) = f.rows  BY <1>9, <1>10 DEF UpTo
<1> QED  BY <1>2, <1>3, <1>8, <1>9, <1>11

-----------------------------------------------------------------------------
(* What each step does to the file.                                        *)

\* The rows are fit to be the session's: those of the file and of its copies.
RowsFine(f) ==
  /\ IsFiniteSet(f.rows)
  /\ \A r \in f.rows : r.id <= f.seq /\ r.m <= fresh
  /\ \A r, s \in f.rows : r.m = s.m => r = s

AllRowsFine == \A f \in {live} \cup ckpt \cup pending : RowsFine(f)

\* The effects: f is the file before the step, g the file after it.
Adds(f, g) ==
  /\ g.rows = f.rows \cup {[id |-> f.seq + 1, m |-> fresh + 1]} /\ g.seq = f.seq + 1
  /\ g.gen = f.gen /\ g.rev = f.rev + 1 /\ g.born = f.born /\ g.snap = f.snap
  /\ g.numbered = f.numbered /\ g.turn = f.turn

Removes(f, g) ==
  /\ g.rows \subseteq f.rows /\ g.seq = f.seq
  /\ g.gen = f.gen + 1 /\ g.rev = f.rev + 1 /\ g.born = f.born /\ g.snap = NoSnapshot
  /\ g.numbered = f.numbered /\ g.turn = f.turn

Touches(f, g) ==
  /\ g.rows = f.rows /\ g.seq = f.seq
  /\ g.gen = f.gen /\ g.rev = f.rev + 1 /\ g.born = f.born /\ g.snap = f.snap
  /\ g.numbered = f.numbered /\ g.turn = f.turn

Numbers(f, g) ==
  /\ g.rows = f.rows /\ g.seq = f.seq
  /\ g.gen = f.gen /\ g.rev = f.rev /\ g.born = f.born /\ g.snap = f.snap
  /\ g.numbered = TRUE /\ g.turn = NextTurn(f) + 1

Summarises(f, g, a) ==
  /\ comp[a].busy /\ comp[a].gen = f.gen
  /\ g.rows = f.rows /\ g.seq = f.seq
  /\ g.gen = f.gen /\ g.rev = f.rev + 1 /\ g.born = f.born
  /\ g.snap = [of |-> comp[a].of, upto |-> comp[a].upto, gen |-> comp[a].gen,
               mark |-> Fingerprint(a)]
  /\ g.numbered = f.numbered /\ g.turn = f.turn

Replaces(f, g) ==
  /\ \E h \in pending : g.rows = h.rows /\ g.seq = h.seq
  /\ g.gen > f.gen /\ g.rev > f.rev /\ g.born = f.born /\ g.snap = NoSnapshot
  /\ g.numbered = TRUE /\ g.turn >= f.turn

LEMMA FingerprintType == \A a \in App : Fingerprint(a) \in {"usual", "other"}
BY DEF Fingerprint

LEMMA NextTurnType ==
  ASSUME NEW f \in File, IsFiniteSet(f.rows) PROVE NextTurn(f) \in Nat
BY FS_CardinalityType DEF NextTurn, File

LEMMA AppendEffect ==
  ASSUME TypeOK, NEW a \in App, Append(a)
  PROVE  live' \in File /\ Adds(live, live') /\ fresh' = fresh + 1
<1> DEFINE row == [id |-> live.seq + 1, m |-> fresh + 1]
<1>1. live \in File /\ fresh \in Nat  BY DEF TypeOK
<1>2. row \in Row  BY <1>1 DEF File, Row
<1>3. live' = Appended(live, row) /\ fresh' = fresh + 1  BY DEF Append, Appended
<1> HIDE DEF row
<1>4. /\ live' \in File /\ live'.rows = live.rows \cup {row} /\ live'.seq = live.seq + 1
      /\ live'.gen = live.gen /\ live'.rev = live.rev + 1 /\ live'.born = live.born
      /\ live'.snap = live.snap /\ live'.numbered = live.numbered /\ live'.turn = live.turn
  BY <1>1, <1>2, <1>3, AppendedFields
<1> QED  BY <1>3, <1>4 DEF Adds, row

LEMMA KeptEffect ==
  ASSUME TypeOK, NEW keep, keep \subseteq live.rows, live' = Kept(live, keep)
  PROVE  live' \in File /\ Removes(live, live')
<1>1. live \in File /\ keep \in SUBSET Row  BY DEF TypeOK, File
<1> QED  BY <1>1, KeptFields DEF Removes

LEMMA TruncateEffect ==
  ASSUME TypeOK, NEW a \in App, Truncate(a)
  PROVE  live' \in File /\ (Removes(live, live') \/ Touches(live, live'))
<1>1. CASE live' = Bumped(live)
  <2>1. live \in File  BY DEF TypeOK
  <2> QED  BY <1>1, <2>1, BumpedFields DEF Touches
<1>2. CASE \E cut \in {0} \cup {r.id : r \in live.rows} :
             live' = Kept(live, UpTo(live.rows, cut))
  <2>1. PICK cut : live' = Kept(live, UpTo(live.rows, cut))  BY <1>2
  <2>2. UpTo(live.rows, cut) \subseteq live.rows  BY DEF UpTo
  <2> HIDE DEF UpTo
  <2> QED  BY <2>1, <2>2, KeptEffect
<1> QED  BY <1>1, <1>2 DEF Truncate

LEMMA ClearHistoryEffect ==
  ASSUME TypeOK, NEW a \in App, ClearHistory(a)
  PROVE  live' \in File /\ Removes(live, live')
<1>1. live' = Kept(live, {})  BY DEF ClearHistory, Cleared
<1> QED  BY <1>1, KeptEffect

LEMMA ReserveEffect ==
  ASSUME TypeOK, AllRowsFine, NEW a \in App, Reserve(a)
  PROVE  live' \in File /\ Numbers(live, live') /\ NextTurn(live) \in Nat
<1>1. live \in File /\ IsFiniteSet(live.rows)  BY DEF TypeOK, AllRowsFine, RowsFine
<1>2. NextTurn(live) \in Nat /\ NextTurn(live) + 1 \in Nat  BY <1>1, NextTurnType
<1>3. live' = Reserved(live, NextTurn(live) + 1)  BY DEF Reserve, Reserved
<1> DEFINE n == NextTurn(live) + 1
<1> HIDE DEF n
<1>4. /\ live' \in File /\ live'.rows = live.rows /\ live'.seq = live.seq
      /\ live'.gen = live.gen /\ live'.rev = live.rev /\ live'.born = live.born
      /\ live'.snap = live.snap /\ live'.numbered = TRUE /\ live'.turn = n
  <2>1. n \in Nat /\ live' = Reserved(live, n)  BY <1>2, <1>3 DEF n
  <2> QED  BY <1>1, <2>1, ReservedFields
<1> QED  BY <1>2, <1>4 DEF Numbers, n

LEMMA FinishEffect ==
  ASSUME TypeOK, NEW a \in App, FinishCompaction(a)
  PROVE  live' \in File /\ (live' = live \/ Summarises(live, live', a))
<1>1. live \in File /\ comp[a] \in [busy : BOOLEAN, of : SUBSET Nat, upto : Nat, gen : Nat]
  BY DEF TypeOK
<1>2. CASE live.gen # comp[a].gen  BY <1>1, <1>2 DEF FinishCompaction
<1>3. CASE live.gen = comp[a].gen
  <2> DEFINE snap == [of |-> comp[a].of, upto |-> comp[a].upto, gen |-> comp[a].gen,
                      mark |-> Fingerprint(a)]
  <2>1. live' = Summarised(live, snap) /\ comp[a].busy
    BY <1>3 DEF FinishCompaction, Written, Summarised
  <2>2. snap \in Snapshot  BY <1>1, FingerprintType DEF Snapshot
  <2> HIDE DEF snap
  <2>3. /\ live' \in File /\ live'.rows = live.rows /\ live'.seq = live.seq
        /\ live'.gen = live.gen /\ live'.rev = live.rev + 1 /\ live'.born = live.born
        /\ live'.snap = snap /\ live'.numbered = live.numbered /\ live'.turn = live.turn
    BY <1>1, <2>1, <2>2, SummarisedFields
  <2> QED  BY <1>3, <2>1, <2>3 DEF Summarises, snap
<1> QED  BY <1>2, <1>3

LEMMA RestoreEffect ==
  ASSUME TypeOK, NEW a \in App, Restore(a)
  PROVE  live' \in File /\ Replaces(live, live')
<1>1. live \in File /\ pending \subseteq File  BY DEF TypeOK
<1>2. PICK f \in pending : live' = Restored(f, live)  BY DEF Restore, Restored
<1>3. f \in File  BY <1>1
<1>4. /\ live' \in File /\ live'.rows = f.rows /\ live'.seq = f.seq
      /\ live'.snap = NoSnapshot /\ live'.gen > live.gen /\ live'.rev > live.rev
      /\ live'.born = live.born /\ live'.numbered = TRUE /\ live'.turn >= live.turn
  BY <1>1, <1>2, <1>3, RebasedFields
<1> QED  BY <1>4 DEF Replaces

LEMMA DeleteEffect ==
  ASSUME TypeOK, NEW a \in App, Delete(a)
  PROVE  live' \in File /\ live' = NewFile(live.born + 1) /\ live'.born = live.born + 1
<1>1. live.born + 1 \in Nat  BY DEF TypeOK, File
<1>2. live' = NewFile(live.born + 1)  BY DEF Delete
<1>3. live'.born = live.born + 1  BY <1>2 DEF NewFile
<1> QED  BY <1>1, <1>2, <1>3, NewFileType

-----------------------------------------------------------------------------
(* Types.                                                                  *)

\* TypeOK in parts, by the variables that the actions change together.
FileTypes ==
  /\ live \in File /\ ckpt \subseteq File /\ pending \subseteq File
  /\ Cardinality(ckpt) <= 1 /\ Cardinality(pending) <= 1

LockTypes ==
  /\ cp \in [App -> [step : {"idle", "act", "restore", "remove"},
                     want : Wants \cup {"none", "done"}]]
  /\ \A a, b \in App : cp[a].step # "idle" /\ cp[b].step # "idle" => a = b

ViewTypes ==
  /\ at \in [App -> {"in", "out"}]
  /\ comp \in [App -> [busy : BOOLEAN, of : SUBSET Nat, upto : Nat, gen : Nat]]
  /\ read \in [App -> [busy : BOOLEAN, born : Nat, rev : Nat]]
  /\ cache \in [App -> SUBSET [born : Nat, rev : Nat, shown : SUBSET Nat]]

GhostTypes == fresh \in Nat /\ handed \subseteq Nat /\ reserved \in Nat /\ stray \in BOOLEAN

LEMMA TypeParts == TypeOK <=> FileTypes /\ LockTypes /\ ViewTypes /\ GhostTypes
BY DEF TypeOK, FileTypes, LockTypes, ViewTypes, GhostTypes

LEMMA ShownType ==
  ASSUME NEW f \in File, NEW mark PROVE Shown(f, mark) \in SUBSET Nat
<1>1. f.snap.of \subseteq Nat  BY DEF File, Snapshot
<1>2. \A rows \in SUBSET f.rows : Messages(rows) \subseteq Nat  BY DEF File, Row, Messages
<1>3. Summary(f, mark) \subseteq Nat  BY <1>1 DEF Summary
<1>4. Tail(f, mark) \subseteq Nat  BY <1>2 DEF Tail
<1> QED  BY <1>3, <1>4 DEF Shown

LEMMA SmallSets ==
  /\ Cardinality({}) <= 1
  /\ \A x : Cardinality({x}) <= 1
<1>1. Cardinality({}) = 0  BY FS_EmptySet
<1>2. \A x : Cardinality({x}) = 1  BY FS_Singleton
<1> QED  BY <1>1, <1>2

LEMMA FileTypesStep ==
  ASSUME TypeOK, AllRowsFine, Next PROVE FileTypes'
<1> USE DEF FileTypes
<1>0. FileTypes  BY TypeParts
<1>1. PICK a \in App :
        \/ Append(a) \/ Truncate(a) \/ Reserve(a) \/ ClearHistory(a) \/ Delete(a)
        \/ StartCompaction(a) \/ FinishCompaction(a) \/ GiveUpCompaction(a)
        \/ LookUp(a) \/ ReadContext(a)
        \/ (\E want \in Wants : Begin(a, want))
        \/ Act(a) \/ Restore(a) \/ Remove(a) \/ Fail(a)
        \/ Switch(a) \/ Crash(a)
  BY DEF Next
<1>2. CASE Append(a)  BY <1>0, <1>2, AppendEffect DEF Append
<1>3. CASE Truncate(a)  BY <1>0, <1>3, TruncateEffect DEF Truncate
<1>4. CASE Reserve(a)  BY <1>0, <1>4, ReserveEffect DEF Reserve
<1>5. CASE ClearHistory(a)
  <2>1. live' \in File  BY <1>5, ClearHistoryEffect
  <2>2. \/ ckpt' = {} /\ pending' = {}
        \/ UNCHANGED <<ckpt, pending>>
    BY <1>5 DEF ClearHistory
  <2> QED  BY <1>0, <2>1, <2>2, SmallSets
<1>6. CASE Delete(a)
  <2>1. live' \in File  BY <1>6, DeleteEffect
  <2>2. ckpt' = {} /\ pending' = {}  BY <1>6 DEF Delete
  <2> QED  BY <2>1, <2>2, SmallSets
<1>7. CASE FinishCompaction(a)  BY <1>0, <1>7, FinishEffect DEF FinishCompaction
<1>8. CASE Restore(a)  BY <1>0, <1>8, RestoreEffect DEF Restore
<1>9. CASE Remove(a)  BY <1>0, <1>9, SmallSets DEF Remove
<1>10. CASE Act(a)
  <2>1. live' = live  BY <1>10 DEF Act
  <2>2. ckpt' \in {ckpt, {live}, {}} /\ pending' \in {pending, ckpt}
    BY <1>10 DEF Act
  <2> QED  BY <1>0, <2>1, <2>2, SmallSets
<1>11. CASE UNCHANGED files  BY <1>0, <1>11 DEF files
<1>12. CASE \/ StartCompaction(a) \/ GiveUpCompaction(a) \/ LookUp(a) \/ ReadContext(a)
            \/ (\E want \in Wants : Begin(a, want)) \/ Fail(a) \/ Switch(a) \/ Crash(a)
  BY <1>11, <1>12 DEF StartCompaction, GiveUpCompaction, LookUp, ReadContext, Begin, Fail,
     Switch, Crash
<1> QED
  BY <1>1, <1>2, <1>3, <1>4, <1>5, <1>6, <1>7, <1>8, <1>9, <1>10, <1>12

LEMMA LockTypesStep ==
  ASSUME TypeOK, Next PROVE LockTypes'
<1>0. LockTypes  BY TypeParts
<1>1. PICK a \in App :
        \/ Append(a) \/ Truncate(a) \/ Reserve(a) \/ ClearHistory(a) \/ Delete(a)
        \/ StartCompaction(a) \/ FinishCompaction(a) \/ GiveUpCompaction(a)
        \/ LookUp(a) \/ ReadContext(a)
        \/ (\E want \in Wants : Begin(a, want))
        \/ Act(a) \/ Restore(a) \/ Remove(a) \/ Fail(a)
        \/ Switch(a) \/ Crash(a)
  BY DEF Next
<1> DEFINE Cp == [step : {"idle", "act", "restore", "remove"}, want : Wants \cup {"none", "done"}]
<1>2. cp \in [App -> Cp] /\ NoCp \in Cp  BY <1>0 DEF LockTypes, NoCp
<1>3. CASE UNCHANGED cp  BY <1>0, <1>3 DEF LockTypes
<1>4. CASE /\ cp' \in [App -> Cp]
           /\ \A b \in App \ {a} : cp'[b] = cp[b]
           /\ cp[a].step # "idle" \/ ~Locked \/ cp'[a].step = "idle"
  BY <1>0, <1>4 DEF LockTypes, Locked
<1>5. CASE Unlocks(a)
  <2>1. cp' = [cp EXCEPT ![a] = NoCp]  BY <1>5 DEF Unlocks
  <2>2. cp' \in [App -> Cp] /\ \A b \in App \ {a} : cp'[b] = cp[b]  BY <1>2, <2>1
  <2>3. cp'[a].step = "idle"  BY <1>2, <2>1 DEF NoCp
  <2> QED  BY <1>4, <2>2, <2>3
<1>6. CASE cp[a].step # "idle" /\ \E c \in Cp : cp' = [cp EXCEPT ![a] = c]
  <2>1. PICK c \in Cp : cp' = [cp EXCEPT ![a] = c]  BY <1>6
  <2>2. cp' \in [App -> Cp] /\ \A b \in App \ {a} : cp'[b] = cp[b]  BY <1>2, <2>1
  <2> QED  BY <1>4, <1>6, <2>2
<1>7. ASSUME NEW want \in Wants, Begin(a, want) PROVE LockTypes'
  <2> DEFINE c == [step |-> IF pending = {} THEN "act" ELSE "restore", want |-> want]
  <2>1. c \in Cp  OBVIOUS
  <2>2. ~Locked /\ cp' = [cp EXCEPT ![a] = c]  BY <1>7 DEF Begin
  <2> HIDE DEF c
  <2>3. cp' \in [App -> Cp] /\ \A b \in App \ {a} : cp'[b] = cp[b]  BY <1>2, <2>1, <2>2
  <2> QED  BY <1>4, <2>2, <2>3
<1>8. ASSUME NEW step \in {"act", "remove"}, cp[a].step # "idle", Step(a, step) PROVE LockTypes'
  <2> DEFINE c == [cp[a] EXCEPT !.step = step]
  <2>1. c \in Cp  BY <1>2
  <2>2. cp' = [cp EXCEPT ![a] = c]  BY <1>2, <1>8 DEF Step
  <2> QED  BY <1>6, <1>8, <2>1, <2>2
<1>9. CASE Act(a)
  <2>1. \/ Unlocks(a)
        \/ cp' = [cp EXCEPT ![a] = [step |-> "restore", want |-> "done"]]
    BY <1>9 DEF Act
  <2>2. cp[a].step # "idle"  BY <1>9 DEF Act
  <2>3. [step |-> "restore", want |-> "done"] \in Cp  OBVIOUS
  <2> QED  BY <1>5, <1>6, <2>1, <2>2, <2>3
<1>10. CASE Restore(a)  BY <1>8, <1>10 DEF Restore
<1>11. CASE Remove(a)
  <2>1. (Unlocks(a) \/ Step(a, "act")) /\ cp[a].step # "idle"  BY <1>11 DEF Remove
  <2> QED  BY <1>5, <1>8, <2>1
<1>12. CASE Fail(a) \/ Crash(a)  BY <1>5, <1>12 DEF Fail, Crash
<1>13. CASE \/ Append(a) \/ Truncate(a) \/ Reserve(a) \/ ClearHistory(a) \/ Delete(a)
            \/ StartCompaction(a) \/ FinishCompaction(a) \/ GiveUpCompaction(a)
            \/ LookUp(a) \/ ReadContext(a) \/ Switch(a)
  BY <1>3, <1>13 DEF Append, Truncate, Reserve, ClearHistory, Delete, StartCompaction,
     FinishCompaction, GiveUpCompaction, LookUp, ReadContext, Switch
<1> QED
  BY <1>1, <1>7, <1>9, <1>10, <1>11, <1>12, <1>13

LEMMA GhostTypesStep ==
  ASSUME TypeOK, AllRowsFine, Next PROVE GhostTypes'
<1> USE DEF GhostTypes
<1>0. GhostTypes  BY TypeParts
<1>1. PICK a \in App :
        \/ Append(a) \/ Truncate(a) \/ Reserve(a) \/ ClearHistory(a) \/ Delete(a)
        \/ StartCompaction(a) \/ FinishCompaction(a) \/ GiveUpCompaction(a)
        \/ LookUp(a) \/ ReadContext(a)
        \/ (\E want \in Wants : Begin(a, want))
        \/ Act(a) \/ Restore(a) \/ Remove(a) \/ Fail(a)
        \/ Switch(a) \/ Crash(a)
  BY DEF Next
<1>2. CASE Append(a)  BY <1>0, <1>2 DEF Append
<1>3. CASE Reserve(a)
  <2>1. NextTurn(live) \in Nat  BY <1>3, ReserveEffect
  <2>2. /\ handed' = handed \cup {NextTurn(live)} /\ reserved' = reserved + 1
        /\ fresh' = fresh
    BY <1>3 DEF Reserve
  <2>3. fresh' \in Nat /\ reserved' \in Nat  BY <1>0, <2>2
  <2>4. handed' \subseteq Nat  BY <1>0, <2>1, <2>2
  <2>5. stray' \in BOOLEAN  BY <1>0, <1>3 DEF Reserve
  <2> QED  BY <2>3, <2>4, <2>5
<1>4. CASE Delete(a)
  <2>1. stray' \in BOOLEAN  BY <1>4 DEF Delete
  <2>2. handed' = {} /\ reserved' = 0 /\ fresh' = fresh  BY <1>4 DEF Delete
  <2> QED  BY <1>0, <2>1, <2>2
<1>5. CASE UNCHANGED ghost  BY <1>0, <1>5 DEF ghost
<1>6. CASE \/ Truncate(a) \/ ClearHistory(a)
           \/ StartCompaction(a) \/ FinishCompaction(a) \/ GiveUpCompaction(a)
           \/ LookUp(a) \/ ReadContext(a) \/ (\E want \in Wants : Begin(a, want))
           \/ Act(a) \/ Restore(a) \/ Remove(a) \/ Fail(a) \/ Switch(a) \/ Crash(a)
  BY <1>5, <1>6 DEF Truncate, ClearHistory, StartCompaction, FinishCompaction,
     GiveUpCompaction, LookUp, ReadContext, Begin, Act, Restore, Remove, Fail, Switch, Crash
<1> QED  BY <1>1, <1>2, <1>3, <1>4, <1>6

LEMMA ViewTypesStep ==
  ASSUME TypeOK, AllRowsFine, Next PROVE ViewTypes'
<1> DEFINE Comp == [busy : BOOLEAN, of : SUBSET Nat, upto : Nat, gen : Nat]
           Read == [busy : BOOLEAN, born : Nat, rev : Nat]
           Cache == [born : Nat, rev : Nat, shown : SUBSET Nat]
<1>0. ViewTypes /\ live \in File  BY TypeParts DEF FileTypes
<1>1. PICK a \in App :
        \/ Append(a) \/ Truncate(a) \/ Reserve(a) \/ ClearHistory(a) \/ Delete(a)
        \/ StartCompaction(a) \/ FinishCompaction(a) \/ GiveUpCompaction(a)
        \/ LookUp(a) \/ ReadContext(a)
        \/ (\E want \in Wants : Begin(a, want))
        \/ Act(a) \/ Restore(a) \/ Remove(a) \/ Fail(a)
        \/ Switch(a) \/ Crash(a)
  BY DEF Next
<1>2. NoComp \in Comp /\ NoRead \in Read  BY DEF NoComp, NoRead
<1>3. /\ live.gen \in Nat /\ live.born \in Nat /\ live.rev \in Nat
      /\ Shown(live, Fingerprint(a)) \in SUBSET Nat /\ Latest(live) \in Nat
  <2>1. \A r \in live.rows : r.id <= live.seq  BY DEF AllRowsFine, RowsFine
  <2> QED  BY <1>0, <2>1, ShownType, LatestBounds DEF File
<1>4. at' \in [App -> {"in", "out"}]
  <2>1. at' = at \/ \E x \in {"in", "out"} : at' = [at EXCEPT ![a] = x]
    BY <1>1 DEF Append, Truncate, Reserve, ClearHistory, Delete, StartCompaction,
       FinishCompaction, GiveUpCompaction, LookUp, ReadContext, Begin, Act, Restore, Remove,
       Fail, Switch, Crash, files, views, ghost
  <2> QED  BY <1>0, <2>1 DEF ViewTypes
<1>5. comp' \in [App -> Comp]
  <2>1. CASE StartCompaction(a)
    <3> DEFINE c == [busy |-> TRUE, of |-> Shown(live, Fingerprint(a)),
                     upto |-> Latest(live), gen |-> live.gen]
    <3>1. c \in Comp  BY <1>3
    <3>2. comp' = [comp EXCEPT ![a] = c]  BY <2>1 DEF StartCompaction
    <3> HIDE DEF c
    <3> QED  BY <1>0, <3>1, <3>2 DEF ViewTypes
  <2>2. CASE ~StartCompaction(a)
    <3>1. comp' = comp \/ comp' = [comp EXCEPT ![a] = NoComp]
      BY <1>1, <2>2 DEF Append, Truncate, Reserve, ClearHistory, Delete,
         FinishCompaction, GiveUpCompaction, LookUp, ReadContext, Begin, Act, Restore, Remove,
         Fail, Switch, Crash, files, views, ghost
    <3> QED  BY <1>0, <1>2, <3>1 DEF ViewTypes
  <2> QED  BY <2>1, <2>2
<1>6. read' \in [App -> Read]
  <2>1. CASE LookUp(a)
    <3> DEFINE c == [busy |-> TRUE, born |-> live.born, rev |-> live.rev]
    <3>1. c \in Read  BY <1>3
    <3>2. read' = [read EXCEPT ![a] = c]  BY <2>1 DEF LookUp
    <3> HIDE DEF c
    <3> QED  BY <1>0, <3>1, <3>2 DEF ViewTypes
  <2>2. CASE ~LookUp(a)
    <3>1. read' = read \/ read' = [read EXCEPT ![a] = NoRead]
      BY <1>1, <2>2 DEF Append, Truncate, Reserve, ClearHistory, Delete, StartCompaction,
         FinishCompaction, GiveUpCompaction, ReadContext, Begin, Act, Restore, Remove,
         Fail, Switch, Crash, files, views, ghost
    <3> QED  BY <1>0, <1>2, <3>1 DEF ViewTypes
  <2> QED  BY <2>1, <2>2
<1>7. cache' \in [App -> SUBSET Cache]
  <2>1. CASE ReadContext(a)
    <3> DEFINE e == Entry(Shown(live, Fingerprint(a)), read[a])
    <3>1. e \in Cache  BY <1>0, <1>3 DEF ViewTypes, Entry
    <3>2. Stores(a, e)  BY <2>1 DEF ReadContext
    <3> HIDE DEF e
    <3>3. PICK kept \in SUBSET cache[a] : cache' = [cache EXCEPT ![a] = kept \cup {e}]
      BY <3>2 DEF Stores
    <3>4. kept \cup {e} \in SUBSET Cache  BY <1>0, <3>1 DEF ViewTypes
    <3> QED  BY <1>0, <3>3, <3>4 DEF ViewTypes
  <2>2. CASE ~ReadContext(a)
    <3>1. cache' = cache \/ \E c \in {{}, cache[a]} : cache' = [cache EXCEPT ![a] = c]
      BY <1>1, <2>2 DEF Append, Truncate, Reserve, ClearHistory, Delete, StartCompaction,
         FinishCompaction, GiveUpCompaction, LookUp, Begin, Act, Restore, Remove,
         Fail, Switch, Crash, files, views, ghost
    <3> QED  BY <1>0, <3>1 DEF ViewTypes
  <2> QED  BY <2>1, <2>2
<1> QED  BY <1>4, <1>5, <1>6, <1>7 DEF ViewTypes

LEMMA TypesStep ==
  ASSUME TypeOK, AllRowsFine, [Next]_vars PROVE TypeOK'
<1>1. CASE Next
  <2>1. FileTypes' /\ LockTypes' /\ ViewTypes' /\ GhostTypes'
    BY <1>1, FileTypesStep, LockTypesStep, ViewTypesStep, GhostTypesStep
  <2> QED
    BY <2>1 DEF TypeOK, FileTypes, LockTypes, ViewTypes, GhostTypes
<1>2. CASE UNCHANGED vars
  BY <1>2 DEF vars, files, views, ghost, TypeOK
<1> QED  BY <1>1, <1>2

-----------------------------------------------------------------------------
(* The rows of the file and of its copies.                                 *)

LEMMA RowsFineStep ==
  ASSUME TypeOK, AllRowsFine, [Next]_vars PROVE AllRowsFine'
<1>1. /\ live \in File /\ ckpt \subseteq File /\ pending \subseteq File /\ fresh \in Nat
      /\ \A f \in {live} \cup ckpt \cup pending : RowsFine(f)
  BY DEF TypeOK, AllRowsFine
\* Files stay fine when messages are added elsewhere.
<1>2. ASSUME fresh' \in {fresh, fresh + 1}, NEW f \in {live} \cup ckpt \cup pending,
             NEW g, g.rows \subseteq f.rows, g.seq = f.seq
      PROVE  /\ IsFiniteSet(g.rows)
             /\ \A r \in g.rows : r.id <= g.seq /\ r.m <= fresh'
             /\ \A r, s \in g.rows : r.m = s.m => r = s
  <2>1. IsFiniteSet(f.rows) /\ \A r, s \in f.rows : r.m = s.m => r = s
    BY <1>1 DEF RowsFine
  <2>2. IsFiniteSet(g.rows)  BY <1>2, <2>1, FS_Subset
  <2>3. \A r \in f.rows : r.id <= f.seq /\ r.m <= fresh /\ r.m \in Nat
    BY <1>1 DEF RowsFine, File, Row
  <2>4. \A r \in f.rows : r.m <= fresh'  BY <1>1, <1>2, <2>3
  <2> QED  BY <1>2, <2>1, <2>2, <2>3, <2>4
<1>3. CASE /\ fresh' = fresh
           /\ \E f \in {live} \cup ckpt \cup pending :
                 live'.rows \subseteq f.rows /\ live'.seq = f.seq
           /\ ckpt' \cup pending' \subseteq {live} \cup ckpt \cup pending
  <2>1. \A g \in {live'} \cup ckpt' \cup pending' :
          \E f \in {live} \cup ckpt \cup pending : g.rows \subseteq f.rows /\ g.seq = f.seq
    BY <1>3
  <2> SUFFICES ASSUME NEW g \in {live'} \cup ckpt' \cup pending'
               PROVE  /\ IsFiniteSet(g.rows)
                      /\ \A r \in g.rows : r.id <= g.seq /\ r.m <= fresh'
                      /\ \A r, s \in g.rows : r.m = s.m => r = s
    BY DEF AllRowsFine, RowsFine
  <2> QED  BY <1>2, <1>3, <2>1
<1>4. SUFFICES ASSUME Next PROVE AllRowsFine'
  <2>1. CASE UNCHANGED vars  BY <1>3, <2>1 DEF vars, files, ghost
  <2> QED  BY <1>4, <2>1
<1>5. PICK a \in App :
        \/ Append(a) \/ Truncate(a) \/ Reserve(a) \/ ClearHistory(a) \/ Delete(a)
        \/ StartCompaction(a) \/ FinishCompaction(a) \/ GiveUpCompaction(a)
        \/ LookUp(a) \/ ReadContext(a)
        \/ (\E want \in Wants : Begin(a, want))
        \/ Act(a) \/ Restore(a) \/ Remove(a) \/ Fail(a)
        \/ Switch(a) \/ Crash(a)
  BY <1>4 DEF Next
<1>6. CASE Append(a)
  <2> DEFINE row == [id |-> live.seq + 1, m |-> fresh + 1]
  <2>1. /\ live'.rows = live.rows \cup {row} /\ live'.seq = live.seq + 1
        /\ fresh' = fresh + 1
    BY <1>6, AppendEffect DEF Adds
  <2>2. ckpt' = ckpt /\ pending' = pending  BY <1>6 DEF Append
  <2>3. \A g \in ckpt \cup pending :
          /\ IsFiniteSet(g.rows)
          /\ \A r \in g.rows : r.id <= g.seq /\ r.m <= fresh'
          /\ \A r, s \in g.rows : r.m = s.m => r = s
    BY <1>2, <2>1
  <2>4. /\ IsFiniteSet(live.rows)
        /\ \A r \in live.rows : r.id <= live.seq /\ r.m <= fresh
        /\ \A r, s \in live.rows : r.m = s.m => r = s
    BY <1>1 DEF RowsFine
  <2>5. IsFiniteSet(live.rows \cup {row})  BY <2>4, FS_AddElement
  <2>6. \A r \in live.rows : r.id \in Nat /\ r.m \in Nat  BY <1>1 DEF File, Row
  <2>7. live.seq \in Nat  BY <1>1 DEF File
  <2>8. \A r \in live.rows \cup {row} : r.id <= live.seq + 1 /\ r.m <= fresh + 1
    BY <1>1, <2>4, <2>6, <2>7
  <2>9. \A r \in live.rows : r.m # row.m
    <3>1. row.m = fresh + 1  OBVIOUS
    <3> HIDE DEF row
    <3> QED  BY <1>1, <2>4, <2>6, <3>1
  <2> HIDE DEF row
  <2>10. \A r, s \in live.rows \cup {row} : r.m = s.m => r = s  BY <2>4, <2>9
  <2>11. /\ IsFiniteSet(live'.rows)
         /\ \A r \in live'.rows : r.id <= live'.seq /\ r.m <= fresh'
         /\ \A r, s \in live'.rows : r.m = s.m => r = s
    BY <2>1, <2>5, <2>8, <2>10
  <2> QED  BY <2>2, <2>3, <2>11 DEF AllRowsFine, RowsFine
<1>7. CASE Truncate(a)
  <2>1. live'.rows \subseteq live.rows /\ live'.seq = live.seq
    BY <1>7, TruncateEffect DEF Removes, Touches
  <2> QED  BY <1>3, <1>7, <2>1 DEF Truncate, ghost
<1>8. CASE Reserve(a)
  <2>1. live'.rows = live.rows /\ live'.seq = live.seq  BY <1>8, ReserveEffect DEF Numbers
  <2> QED  BY <1>3, <1>8, <2>1 DEF Reserve
<1>9. CASE ClearHistory(a)
  <2>1. live'.rows \subseteq live.rows /\ live'.seq = live.seq
    BY <1>9, ClearHistoryEffect DEF Removes
  <2>2. fresh' = fresh /\ ckpt' \subseteq ckpt /\ pending' \subseteq pending
    BY <1>9 DEF ClearHistory, ghost
  <2> QED  BY <1>3, <2>1, <2>2
<1>10. CASE Delete(a)
  <2>1. live'.rows = {}  BY <1>10, DeleteEffect DEF NewFile
  <2>2. ckpt' = {} /\ pending' = {}  BY <1>10 DEF Delete
  <2> QED  BY <2>1, <2>2, FS_EmptySet DEF AllRowsFine, RowsFine
<1>11. CASE FinishCompaction(a)
  <2>1. live'.rows = live.rows /\ live'.seq = live.seq
    BY <1>11, FinishEffect DEF Summarises
  <2> QED  BY <1>3, <1>11, <2>1 DEF FinishCompaction, ghost
<1>12. CASE Restore(a)
  <2>1. \E h \in pending : live'.rows = h.rows /\ live'.seq = h.seq
    BY <1>12, RestoreEffect DEF Replaces
  <2> QED  BY <1>3, <1>12, <2>1 DEF Restore, ghost
<1>13. CASE Act(a)
  <2>1. /\ live' = live /\ fresh' = fresh
        /\ ckpt' \in {ckpt, {live}, {}} /\ pending' \in {pending, ckpt}
    BY <1>13 DEF Act, ghost
  <2> QED  BY <1>3, <2>1
<1>14. CASE Remove(a)  BY <1>3, <1>14 DEF Remove, ghost
<1>15. CASE \/ StartCompaction(a) \/ GiveUpCompaction(a) \/ LookUp(a) \/ ReadContext(a)
            \/ (\E want \in Wants : Begin(a, want)) \/ Fail(a) \/ Switch(a) \/ Crash(a)
  <2>1. UNCHANGED files /\ fresh' = fresh
    BY <1>15 DEF StartCompaction, GiveUpCompaction, LookUp, ReadContext, Begin, Fail, Switch,
       Crash, ghost
  <2> QED  BY <1>3, <2>1 DEF files
<1> QED
  BY <1>5, <1>6, <1>7, <1>8, <1>9, <1>10, <1>11, <1>12, <1>13, <1>14, <1>15

LEMMA BasicsInit == Init => TypeOK /\ AllRowsFine
<1> SUFFICES ASSUME Init PROVE TypeOK /\ AllRowsFine  OBVIOUS
<1> DEFINE row == [id |-> 1, m |-> 1]
<1>1. live \in File /\ live.rows \in {{}, {row}} /\ (live.rows = {row} => live.seq = 1)
  <2>1. CASE live = NewFile(0)  BY <2>1, NewFileType DEF NewFile
  <2>2. CASE live = OldFile
    <3> DEFINE g1 == [NewFile(0) EXCEPT !.rows = {row}]
               g2 == [g1 EXCEPT !.seq = 1]
    <3>1. live = g2  BY <2>2 DEF OldFile
    <3>2. row \in Row  BY DEF Row
    <3>3. g1 \in File /\ g1.rows = {row}  BY <3>2, NewFileType DEF File
    <3> HIDE DEF g1, row
    <3>4. g2 \in File /\ g2.rows = g1.rows /\ g2.seq = 1  BY <3>3 DEF File
    <3> QED  BY <3>1, <3>3, <3>4
  <2>3. live \in {NewFile(0), OldFile}  BY DEF Init
  <2> QED  BY <2>1, <2>2, <2>3
<1>2. ckpt = {} /\ pending = {} /\ fresh = Cardinality(live.rows)  BY DEF Init
<1>3. IsFiniteSet(live.rows) /\ fresh \in Nat /\ (live.rows = {row} => fresh = 1)
  <2> HIDE DEF row
  <2>1. CASE live.rows = {}
    <3>1. {} # {row}  OBVIOUS
    <3> QED  BY <1>2, <2>1, <3>1, FS_EmptySet
  <2>2. CASE live.rows = {row}
    <3>1. IsFiniteSet({row}) /\ Cardinality({row}) = 1  BY FS_Singleton
    <3> QED  BY <1>2, <2>2, <3>1
  <2> QED  BY <1>1, <2>1, <2>2
<1>4. AllRowsFine
  <2>1. \A r \in live.rows : r = row /\ live.rows = {row}  BY <1>1
  <2>2. \A r \in live.rows : r.id <= live.seq /\ r.m <= fresh  BY <1>1, <1>3, <2>1
  <2> QED  BY <1>2, <1>3, <2>1, <2>2 DEF AllRowsFine, RowsFine
<1>5. FileTypes  BY <1>1, <1>2, SmallSets DEF FileTypes
<1>6. LockTypes  BY DEF Init, LockTypes, NoCp
<1>7. ViewTypes  BY DEF Init, ViewTypes, NoComp, NoRead
<1>8. GhostTypes
  <2>1. handed = {} /\ reserved = 0 /\ stray = FALSE  BY DEF Init
  <2> QED  BY <1>3, <2>1 DEF GhostTypes
<1> QED  BY <1>4, <1>5, <1>6, <1>7, <1>8, TypeParts

\* Types, and that at most one operation holds the lock of the checkpoints
\* (with_session_checkpoint_lock), in every reachable state.
THEOREM TypeCorrect == Spec => []TypeOK
<1>1. Init => TypeOK /\ AllRowsFine  BY BasicsInit
<1>2. TypeOK /\ AllRowsFine /\ [Next]_vars => TypeOK' /\ AllRowsFine'
  BY TypesStep, RowsFineStep
<1> QED  BY <1>1, <1>2, PTL DEF Spec

-----------------------------------------------------------------------------
(* The fence of the generation.                                            *)

\* What stands for the rows up to one of them really does.
Fits(f, of, upto) == of = Messages(UpTo(f.rows, upto)) /\ upto <= f.seq

SnapshotsFenced ==
  ~stray =>
    /\ live.snap.mark # "none" /\ live.snap.gen = live.gen
         => Fits(live, live.snap.of, live.snap.upto)
    /\ \A a \in App : comp[a].busy =>
         /\ comp[a].gen <= live.gen
         /\ comp[a].gen = live.gen => Fits(live, comp[a].of, comp[a].upto)

Basics == TypeOK /\ AllRowsFine

LEMMA Canonical ==
  ASSUME Basics, SnapshotsFenced PROVE ContextIsCanonical
<1> SUFFICES ASSUME ~stray, NEW mark \in {"usual", "other"}
             PROVE  /\ Summary(live, mark) \cap Tail(live, mark) = {}
                    /\ Shown(live, mark) = Messages(live.rows)
  BY DEF ContextIsCanonical
<1>1. \A r, t \in live.rows : r.m = t.m => r = t
  BY DEF Basics, AllRowsFine, RowsFine
<1>2. CASE Current(live, mark)
  <2>1. live.snap.of = Messages(UpTo(live.rows, live.snap.upto))
    BY <1>2 DEF Current, SnapshotsFenced, Fits
  <2>2. Summary(live, mark) = Messages(UpTo(live.rows, live.snap.upto))
    BY <1>2, <2>1 DEF Summary
  <2>3. Tail(live, mark) = Messages(live.rows \ UpTo(live.rows, live.snap.upto))
    BY <1>2 DEF Tail
  <2>4. UpTo(live.rows, live.snap.upto) \subseteq live.rows  BY DEF UpTo
  <2> QED  BY <1>1, <2>2, <2>3, <2>4 DEF Messages, Shown
<1>3. CASE ~Current(live, mark)
  <2>1. \A r \in live.rows : r.id \in Nat \ {0}  BY DEF Basics, TypeOK, File, Row
  <2>2. Summary(live, mark) = {}  BY <1>3 DEF Summary
  <2>3. Tail(live, mark) = Messages(live.rows \ UpTo(live.rows, 0))  BY <1>3 DEF Tail
  <2>4. UpTo(live.rows, 0) = {}  BY <2>1 DEF UpTo
  <2> QED  BY <2>2, <2>3, <2>4 DEF Shown
<1> QED  BY <1>2, <1>3

\* How an effect on the file disturbs the fences.
LEMMA FitsStays ==
  ASSUME NEW f \in File, NEW g, NEW of, NEW upto \in Nat, Fits(f, of, upto),
         \/ g.rows = f.rows /\ g.seq = f.seq
         \/ Adds(f, g)
  PROVE  Fits(g, of, upto)
<1>1. CASE g.rows = f.rows /\ g.seq = f.seq  BY <1>1 DEF Fits
<1>2. CASE Adds(f, g)
  <2> DEFINE row == [id |-> f.seq + 1, m |-> fresh + 1]
  <2>1. g.rows = f.rows \cup {row} /\ g.seq = f.seq + 1 /\ row.id = f.seq + 1
    BY <1>2 DEF Adds
  <2> HIDE DEF row
  <2>2. f.seq \in Nat /\ upto <= f.seq  BY DEF File, Fits
  <2>3. ~(row.id <= upto)  BY <2>1, <2>2
  <2>4. UpTo(g.rows, upto) = UpTo(f.rows, upto)  BY <2>1, <2>3 DEF UpTo
  <2>5. upto <= g.seq  BY <2>1, <2>2
  <2> QED  BY <2>4, <2>5 DEF Fits
<1> QED  BY <1>1, <1>2

LEMMA FencedStep ==
  ASSUME Basics, SnapshotsFenced, [Next]_vars PROVE SnapshotsFenced'
<1>1. /\ live \in File /\ comp \in [App -> [busy : BOOLEAN, of : SUBSET Nat, upto : Nat, gen : Nat]]
      /\ live.gen \in Nat /\ live.snap.upto \in Nat
  BY DEF Basics, TypeOK, File, Snapshot
<1>2. TypeOK /\ AllRowsFine /\ TypeOK'  BY TypesStep DEF Basics
<1>3. live' \in File /\ live'.gen \in Nat  BY <1>2 DEF TypeOK, File
\* The file keeps its generation, or raises it and has no snapshot.
<1>4. CASE /\ stray' = stray
           /\ \A b \in App : comp'[b].busy => comp'[b] = comp[b] /\ comp[b].busy
           /\ \/ /\ (live'.rows = live.rows /\ live'.seq = live.seq) \/ Adds(live, live')
                 /\ live'.gen = live.gen /\ live'.snap = live.snap
              \/ live'.gen > live.gen /\ live'.snap = NoSnapshot
  <2> SUFFICES ASSUME ~stray' PROVE
         /\ live'.snap.mark # "none" /\ live'.snap.gen = live'.gen
              => Fits(live', live'.snap.of, live'.snap.upto)
         /\ \A b \in App : comp'[b].busy =>
              /\ comp'[b].gen <= live'.gen
              /\ comp'[b].gen = live'.gen => Fits(live', comp'[b].of, comp'[b].upto)
    BY DEF SnapshotsFenced, Fits
  <2>1. ~stray  BY <1>4
  <2>2. CASE /\ (live'.rows = live.rows /\ live'.seq = live.seq) \/ Adds(live, live')
             /\ live'.gen = live.gen /\ live'.snap = live.snap
    <3>1. \A of : \A upto \in Nat : Fits(live, of, upto) => Fits(live', of, upto)
      BY <1>1, <2>2, FitsStays
    <3>2. live.snap.mark # "none" /\ live.snap.gen = live.gen
            => Fits(live', live.snap.of, live.snap.upto)
      BY <1>1, <2>1, <3>1 DEF SnapshotsFenced
    <3>3. ASSUME NEW b \in App, comp'[b].busy
          PROVE  /\ comp'[b].gen <= live'.gen
                 /\ comp'[b].gen = live'.gen => Fits(live', comp'[b].of, comp'[b].upto)
      <4>1. comp'[b] = comp[b] /\ comp[b].busy /\ comp[b].upto \in Nat  BY <1>1, <1>4, <3>3
      <4>2. comp[b].gen <= live.gen /\ (comp[b].gen = live.gen => Fits(live, comp[b].of, comp[b].upto))
        BY <2>1, <4>1 DEF SnapshotsFenced
      <4> QED  BY <2>2, <3>1, <4>1, <4>2
    <3> QED  BY <2>2, <3>2, <3>3
  <2>3. CASE live'.gen > live.gen /\ live'.snap = NoSnapshot
    <3>1. live'.snap.mark = "none"  BY <2>3 DEF NoSnapshot
    <3>2. ASSUME NEW b \in App, comp'[b].busy
          PROVE  comp'[b].gen <= live'.gen /\ comp'[b].gen # live'.gen
      <4>1. comp'[b] = comp[b] /\ comp[b].gen \in Nat /\ comp[b].gen <= live.gen
        BY <1>1, <1>4, <2>1, <3>2 DEF SnapshotsFenced
      <4> QED  BY <1>1, <1>3, <2>3, <4>1
    <3> QED  BY <3>1, <3>2
  <2> QED  BY <1>4, <2>2, <2>3
<1>5. SUFFICES ASSUME Next PROVE SnapshotsFenced'
  <2>1. CASE UNCHANGED vars  BY <1>4, <2>1 DEF vars, files, ghost
  <2> QED  BY <1>5, <2>1
<1>6. PICK a \in App :
        \/ Append(a) \/ Truncate(a) \/ Reserve(a) \/ ClearHistory(a) \/ Delete(a)
        \/ StartCompaction(a) \/ FinishCompaction(a) \/ GiveUpCompaction(a)
        \/ LookUp(a) \/ ReadContext(a)
        \/ (\E want \in Wants : Begin(a, want))
        \/ Act(a) \/ Restore(a) \/ Remove(a) \/ Fail(a)
        \/ Switch(a) \/ Crash(a)
  BY <1>5 DEF Next
<1>7. CASE Append(a)
  <2>1. Adds(live, live') /\ live'.gen = live.gen /\ live'.snap = live.snap
    BY <1>2, <1>7, AppendEffect DEF Adds
  <2>2. comp' = comp /\ stray' = stray  BY <1>7 DEF Append
  <2> QED  BY <1>4, <2>1, <2>2
<1>8. CASE Truncate(a) \/ ClearHistory(a)
  <2>1. Removes(live, live') \/ Touches(live, live')
    BY <1>2, <1>8, TruncateEffect, ClearHistoryEffect
  <2>2. comp' = comp /\ stray' = stray  BY <1>8 DEF Truncate, ClearHistory, ghost
  <2>3. CASE Removes(live, live')
    <3>1. live'.gen > live.gen /\ live'.snap = NoSnapshot  BY <1>1, <2>3 DEF Removes
    <3> QED  BY <1>4, <2>2, <3>1
  <2>4. CASE Touches(live, live')  BY <1>4, <2>2, <2>4 DEF Touches
  <2> QED  BY <2>1, <2>3, <2>4
<1>9. CASE Reserve(a)
  <2>1. Numbers(live, live')  BY <1>2, <1>9, ReserveEffect
  <2>2. comp' = comp /\ stray' = stray  BY <1>9 DEF Reserve
  <2> QED  BY <1>4, <2>1, <2>2 DEF Numbers
<1>10. CASE Restore(a)
  <2>1. live'.gen > live.gen /\ live'.snap = NoSnapshot
    BY <1>2, <1>10, RestoreEffect DEF Replaces
  <2>2. comp' = comp /\ stray' = stray  BY <1>10 DEF Restore, ghost
  <2> QED  BY <1>4, <2>1, <2>2
<1>11. CASE Delete(a)
  <2>1. live'.snap.mark = "none"  BY <1>2, <1>11, DeleteEffect DEF NewFile, NoSnapshot
  <2>2. comp' = comp /\ (~stray' => \A b \in App : ~comp[b].busy)
    BY <1>11 DEF Delete
  <2> QED  BY <2>1, <2>2 DEF SnapshotsFenced
<1>12. CASE StartCompaction(a)
  <2>1. UNCHANGED files /\ stray' = stray  BY <1>12 DEF StartCompaction, ghost
  <2> DEFINE c == [busy |-> TRUE, of |-> Shown(live, Fingerprint(a)),
                   upto |-> Latest(live), gen |-> live.gen]
  <2>2. comp' = [comp EXCEPT ![a] = c]  BY <1>12 DEF StartCompaction
  <2>3. ASSUME ~stray PROVE Fits(live, c.of, c.upto) /\ c.gen = live.gen
    <3>1. Shown(live, Fingerprint(a)) = Messages(live.rows)
      BY <2>3, Canonical, FingerprintType DEF ContextIsCanonical
    <3>2. \A r \in live.rows : r.id <= live.seq  BY DEF Basics, AllRowsFine, RowsFine
    <3>3. UpTo(live.rows, Latest(live)) = live.rows /\ Latest(live) <= live.seq
      BY <1>1, <3>2, LatestBounds
    <3> QED  BY <3>1, <3>3 DEF Fits
  <2> HIDE DEF c
  <2>4. comp'[a] = c /\ \A b \in App \ {a} : comp'[b] = comp[b]  BY <1>1, <2>2
  <2>5. live' = live  BY <2>1 DEF files
  <2> SUFFICES ASSUME ~stray PROVE
         /\ live.snap.mark # "none" /\ live.snap.gen = live.gen
              => Fits(live, live.snap.of, live.snap.upto)
         /\ \A b \in App : comp'[b].busy =>
              /\ comp'[b].gen <= live.gen
              /\ comp'[b].gen = live.gen => Fits(live, comp'[b].of, comp'[b].upto)
    BY <2>1, <2>5 DEF SnapshotsFenced, Fits
  <2>6. comp'[a].gen <= live.gen /\ Fits(live, comp'[a].of, comp'[a].upto)
    BY <1>1, <2>3, <2>4
  <2> QED  BY <2>4, <2>6 DEF SnapshotsFenced
<1>13. CASE FinishCompaction(a)
  <2>1. stray' = stray /\ comp' = [comp EXCEPT ![a] = NoComp]
    BY <1>13 DEF FinishCompaction, ghost
  <2>2. \A b \in App : comp'[b].busy => comp'[b] = comp[b] /\ comp[b].busy
    BY <1>1, <2>1 DEF NoComp
  <2>3. CASE live' = live  BY <1>4, <2>1, <2>2, <2>3
  <2>4. CASE Summarises(live, live', a)
    <3>1. /\ comp[a].busy /\ comp[a].gen = live.gen /\ live'.gen = live.gen
          /\ live'.rows = live.rows /\ live'.seq = live.seq
          /\ live'.snap.of = comp[a].of /\ live'.snap.upto = comp[a].upto
      BY <2>4 DEF Summarises
    <3>2. \A of, upto : Fits(live, of, upto) => Fits(live', of, upto)  BY <3>1 DEF Fits
    <3>3. ~stray => Fits(live', live'.snap.of, live'.snap.upto)
      BY <3>1, <3>2 DEF SnapshotsFenced
    <3>4. ASSUME ~stray, NEW b \in App, comp'[b].busy
          PROVE  /\ comp'[b].gen <= live'.gen
                 /\ comp'[b].gen = live'.gen => Fits(live', comp'[b].of, comp'[b].upto)
      BY <2>2, <3>1, <3>2, <3>4 DEF SnapshotsFenced
    <3> QED  BY <2>1, <3>3, <3>4 DEF SnapshotsFenced, Fits
  <2> QED  BY <1>2, <1>13, <2>3, <2>4, FinishEffect
<1>14. CASE GiveUpCompaction(a) \/ Crash(a)
  <2>1. UNCHANGED files /\ stray' = stray /\ comp' = [comp EXCEPT ![a] = NoComp]
    BY <1>14 DEF GiveUpCompaction, Crash, ghost
  <2>2. \A b \in App : comp'[b].busy => comp'[b] = comp[b] /\ comp[b].busy
    BY <1>1, <2>1 DEF NoComp
  <2> QED  BY <1>4, <2>1, <2>2 DEF files
<1>15. CASE \/ LookUp(a) \/ ReadContext(a) \/ (\E want \in Wants : Begin(a, want))
            \/ Act(a) \/ Remove(a) \/ Fail(a) \/ Switch(a)
  <2>1. live' = live /\ stray' = stray /\ comp' = comp
    BY <1>15 DEF LookUp, ReadContext, Begin, Act, Remove, Fail, Switch, ghost, files
  <2> QED  BY <1>4, <2>1
<1> QED
  BY <1>6, <1>7, <1>8, <1>9, <1>10, <1>11, <1>12, <1>13, <1>14, <1>15

LEMMA FencedInvariant == Spec => [](Basics /\ SnapshotsFenced)
<1>1. Init => Basics /\ SnapshotsFenced
  <2> SUFFICES ASSUME Init PROVE SnapshotsFenced  BY BasicsInit DEF Basics
  <2>1. live.snap.mark = "none" /\ \A a \in App : ~comp[a].busy
    <3>1. live \in {NewFile(0), OldFile}  BY DEF Init
    <3>2. NewFile(0).snap = NoSnapshot /\ OldFile.snap = NoSnapshot
      BY DEF NewFile, OldFile
    <3>3. comp = [a \in App |-> NoComp]  BY DEF Init
    <3> QED  BY <3>1, <3>2, <3>3 DEF NoSnapshot, NoComp
  <2> QED  BY <2>1 DEF SnapshotsFenced
<1>2. Basics /\ SnapshotsFenced /\ [Next]_vars => Basics' /\ SnapshotsFenced'
  BY TypesStep, RowsFineStep, FencedStep DEF Basics
<1> QED  BY <1>1, <1>2, PTL DEF Spec

\* What a request is built from stands for every message exactly once, whichever
\* compactions were overtaken by whichever changes, except by the deletion of the file.
THEOREM CanonicalCorrect == Spec => []ContextIsCanonical
<1>1. Basics /\ SnapshotsFenced => ContextIsCanonical  BY Canonical
<1> QED  BY <1>1, FencedInvariant, PTL

-----------------------------------------------------------------------------
(* The fence of the revision.                                              *)

\* A key that was computed from the file is not of a later one.
NotAhead(k) == k.born <= live.born /\ (k.born = live.born => k.rev <= live.rev)

SameKey(k) == k.born = live.born /\ k.rev = live.rev

ViewsFenced ==
  /\ \A a \in App : read[a].busy => NotAhead(read[a])
  /\ \A a \in App : \A e \in cache[a] :
       NotAhead(e) /\ (SameKey(e) => e.shown = Shown(live, Fingerprint(a)))

\* Whatever changes what is read raises the revision, or makes another file.
LEMMA RevisionStep ==
  ASSUME Basics, [Next]_vars
  PROVE  \/ live'.born = live.born + 1
         \/ live'.born = live.born /\ live'.rev > live.rev
         \/ /\ live'.born = live.born /\ live'.rev = live.rev
            /\ live'.rows = live.rows /\ live'.gen = live.gen /\ live'.snap = live.snap
<1>1. TypeOK /\ AllRowsFine /\ live.rev \in Nat  BY DEF Basics, TypeOK, File
<1>2. CASE live' = live  BY <1>2
<1>3. SUFFICES ASSUME Next PROVE
         \/ live'.born = live.born + 1
         \/ live'.born = live.born /\ live'.rev > live.rev
         \/ /\ live'.born = live.born /\ live'.rev = live.rev
            /\ live'.rows = live.rows /\ live'.gen = live.gen /\ live'.snap = live.snap
  <2>1. CASE UNCHANGED vars  BY <1>2, <2>1 DEF vars, files
  <2> QED  BY <1>3, <2>1
<1>4. PICK a \in App :
        \/ Append(a) \/ Truncate(a) \/ Reserve(a) \/ ClearHistory(a) \/ Delete(a)
        \/ StartCompaction(a) \/ FinishCompaction(a) \/ GiveUpCompaction(a)
        \/ LookUp(a) \/ ReadContext(a)
        \/ (\E want \in Wants : Begin(a, want))
        \/ Act(a) \/ Restore(a) \/ Remove(a) \/ Fail(a)
        \/ Switch(a) \/ Crash(a)
  BY <1>3 DEF Next
<1>5. CASE Adds(live, live') \/ Removes(live, live') \/ Touches(live, live')
           \/ Summarises(live, live', a)
  <2>1. live'.born = live.born /\ live'.rev = live.rev + 1
    BY <1>5 DEF Adds, Removes, Touches, Summarises
  <2> QED  BY <1>1, <2>1
<1>6. CASE Append(a) \/ Truncate(a) \/ ClearHistory(a) \/ FinishCompaction(a)
  BY <1>1, <1>2, <1>5, <1>6, AppendEffect, TruncateEffect, ClearHistoryEffect, FinishEffect
<1>7. CASE Reserve(a)  BY <1>1, <1>7, ReserveEffect DEF Numbers
<1>8. CASE Delete(a)  BY <1>1, <1>8, DeleteEffect
<1>9. CASE Restore(a)  BY <1>1, <1>9, RestoreEffect DEF Replaces
<1>10. CASE \/ StartCompaction(a) \/ GiveUpCompaction(a) \/ LookUp(a) \/ ReadContext(a)
            \/ (\E want \in Wants : Begin(a, want))
            \/ Act(a) \/ Remove(a) \/ Fail(a) \/ Switch(a) \/ Crash(a)
  BY <1>2, <1>10 DEF StartCompaction, GiveUpCompaction, LookUp, ReadContext, Begin, Act,
     Remove, Fail, Switch, Crash, files
<1> QED  BY <1>4, <1>6, <1>7, <1>8, <1>9, <1>10

LEMMA ViewsStep ==
  ASSUME Basics, ViewsFenced, [Next]_vars PROVE ViewsFenced'
<1>1. /\ live \in File /\ live.born \in Nat /\ live.rev \in Nat
      /\ read \in [App -> [busy : BOOLEAN, born : Nat, rev : Nat]]
      /\ cache \in [App -> SUBSET [born : Nat, rev : Nat, shown : SUBSET Nat]]
  BY DEF Basics, TypeOK, File
<1>2. TypeOK'  BY TypesStep DEF Basics
<1>3. live'.born \in Nat /\ live'.rev \in Nat  BY <1>2 DEF TypeOK, File
<1>4. \A b \in Nat, r \in Nat :
        b <= live.born /\ (b = live.born => r <= live.rev)
          => b <= live'.born /\ (b = live'.born => r <= live'.rev)
  BY <1>1, <1>3, RevisionStep
<1>5. ASSUME NEW b \in Nat, NEW r \in Nat, b <= live.born, b = live.born => r <= live.rev,
             b = live'.born, r = live'.rev
      PROVE  /\ b = live.born /\ r = live.rev
             /\ live'.rows = live.rows /\ live'.gen = live.gen /\ live'.snap = live.snap
  <2>1. live'.born # live.born + 1  BY <1>1, <1>5
  <2>2. ~(live'.born = live.born /\ live'.rev > live.rev)  BY <1>1, <1>5
  <2> QED  BY <1>5, <2>1, <2>2, RevisionStep
<1>6. \A mark : live'.rows = live.rows /\ live'.gen = live.gen /\ live'.snap = live.snap
                 => Shown(live', mark) = Shown(live, mark)
  BY DEF Shown, Summary, Tail, Current
\* An entry that is kept, or is made of what is read now, is as good as before.
<1>7. ASSUME NEW a \in App, NEW e \in cache[a]
      PROVE  /\ e.born <= live'.born /\ (e.born = live'.born => e.rev <= live'.rev)
             /\ e.born = live'.born /\ e.rev = live'.rev
                  => e.shown = Shown(live', Fingerprint(a))
  <2>1. e.born \in Nat /\ e.rev \in Nat  BY <1>1
  <2>2. /\ e.born <= live.born /\ (e.born = live.born => e.rev <= live.rev)
        /\ e.born = live.born /\ e.rev = live.rev => e.shown = Shown(live, Fingerprint(a))
    BY DEF ViewsFenced, NotAhead, SameKey
  <2> QED  BY <1>4, <1>5, <1>6, <2>1, <2>2
<1>8. ASSUME NEW a \in App, read[a].busy
      PROVE  read[a].born <= live'.born /\ (read[a].born = live'.born => read[a].rev <= live'.rev)
  <2>1. read[a].born \in Nat /\ read[a].rev \in Nat  BY <1>1
  <2> QED  BY <1>4, <1>8, <2>1 DEF ViewsFenced, NotAhead
<1>9. CASE /\ \A b \in App : read'[b].busy => read'[b] = read[b] /\ read[b].busy
           /\ \A b \in App : cache'[b] \subseteq cache[b]
  BY <1>7, <1>8, <1>9 DEF ViewsFenced, NotAhead, SameKey
<1>10. SUFFICES ASSUME Next PROVE ViewsFenced'
  <2>1. CASE UNCHANGED vars  BY <1>9, <2>1 DEF vars, views
  <2> QED  BY <1>10, <2>1
<1>11. PICK a \in App :
        \/ Append(a) \/ Truncate(a) \/ Reserve(a) \/ ClearHistory(a) \/ Delete(a)
        \/ StartCompaction(a) \/ FinishCompaction(a) \/ GiveUpCompaction(a)
        \/ LookUp(a) \/ ReadContext(a)
        \/ (\E want \in Wants : Begin(a, want))
        \/ Act(a) \/ Restore(a) \/ Remove(a) \/ Fail(a)
        \/ Switch(a) \/ Crash(a)
  BY <1>10 DEF Next
<1>12. CASE LookUp(a)
  <2> DEFINE k == [busy |-> TRUE, born |-> live.born, rev |-> live.rev]
  <2>1. read' = [read EXCEPT ![a] = k] /\ cache' = cache /\ live' = live
    BY <1>12 DEF LookUp, files
  <2>2. k.born = live.born /\ k.rev = live.rev  OBVIOUS
  <2> HIDE DEF k
  <2>3. read'[a] = k /\ \A b \in App \ {a} : read'[b] = read[b]  BY <1>1, <2>1
  <2>4. \A b \in App : read'[b].busy =>
          /\ read'[b].born <= live'.born
          /\ read'[b].born = live'.born => read'[b].rev <= live'.rev
    BY <1>1, <1>8, <2>1, <2>2, <2>3
  <2> QED  BY <1>7, <2>1, <2>4 DEF ViewsFenced, NotAhead, SameKey
<1>13. CASE ReadContext(a)
  <2> DEFINE e == Entry(Shown(live, Fingerprint(a)), read[a])
  <2>1. e.born = read[a].born /\ e.rev = read[a].rev /\ e.shown = Shown(live, Fingerprint(a))
    BY DEF Entry
  <2>2. live' = live /\ read[a].busy /\ read' = [read EXCEPT ![a] = NoRead] /\ Stores(a, e)
    BY <1>13 DEF ReadContext, files
  <2> HIDE DEF e
  <2>3. PICK kept \in SUBSET cache[a] : cache' = [cache EXCEPT ![a] = kept \cup {e}]
    BY <2>2 DEF Stores
  <2>4. cache'[a] = kept \cup {e} /\ \A b \in App \ {a} : cache'[b] = cache[b]
    BY <1>1, <2>3
  <2>5. /\ e.born <= live'.born /\ (e.born = live'.born => e.rev <= live'.rev)
        /\ e.shown = Shown(live', Fingerprint(a))
    BY <1>8, <2>1, <2>2
  <2>6. \A b \in App : read'[b].busy => read'[b] = read[b] /\ read[b].busy
    BY <1>1, <2>2 DEF NoRead
  <2>7. \A b \in App : \A x \in cache'[b] :
          /\ x.born <= live'.born /\ (x.born = live'.born => x.rev <= live'.rev)
          /\ x.born = live'.born /\ x.rev = live'.rev => x.shown = Shown(live', Fingerprint(b))
    BY <1>7, <2>4, <2>5
  <2> QED  BY <1>8, <2>6, <2>7 DEF ViewsFenced, NotAhead, SameKey
<1>14. CASE \/ Append(a) \/ Reserve(a) \/ StartCompaction(a) \/ FinishCompaction(a)
            \/ GiveUpCompaction(a) \/ (\E want \in Wants : Begin(a, want))
            \/ Act(a) \/ Restore(a) \/ Remove(a) \/ Fail(a)
  BY <1>9, <1>14 DEF Append, Reserve, StartCompaction, FinishCompaction, GiveUpCompaction,
     Begin, Act, Restore, Remove, Fail, views
<1>15. CASE Truncate(a) \/ ClearHistory(a) \/ Delete(a) \/ Switch(a)
  <2>1. /\ read' = read
        /\ \E c \in {{}, cache[a]} : cache' = [cache EXCEPT ![a] = c]
    BY <1>15 DEF Truncate, ClearHistory, Delete, Switch
  <2>2. \A b \in App : cache'[b] \subseteq cache[b]  BY <1>1, <2>1
  <2> QED  BY <1>9, <2>1, <2>2
<1>16. CASE Crash(a)
  <2>1. read' = [read EXCEPT ![a] = NoRead] /\ cache' = [cache EXCEPT ![a] = {}]
    BY <1>16 DEF Crash
  <2>2. \A b \in App : cache'[b] \subseteq cache[b]  BY <1>1, <2>1
  <2>3. \A b \in App : read'[b].busy => read'[b] = read[b] /\ read[b].busy
    BY <1>1, <2>1 DEF NoRead
  <2> QED  BY <1>9, <2>2, <2>3
<1> QED  BY <1>11, <1>12, <1>13, <1>14, <1>15, <1>16

\* An entry of CONTEXT_HISTORY_CACHE whose key is the file's is what a read would give,
\* although build_context_history computes the key before it reads.
THEOREM CacheCorrect == Spec => []CacheIsFresh
<1>1. Init => Basics /\ ViewsFenced
  <2> SUFFICES ASSUME Init PROVE ViewsFenced  BY BasicsInit DEF Basics
  <2>1. \A a \in App : ~read[a].busy /\ cache[a] = {}  BY DEF Init, NoRead
  <2> QED  BY <2>1 DEF ViewsFenced
<1>2. Basics /\ ViewsFenced /\ [Next]_vars => Basics' /\ ViewsFenced'
  BY TypesStep, RowsFineStep, ViewsStep DEF Basics
<1>3. ViewsFenced => CacheIsFresh  BY DEF ViewsFenced, SameKey, CacheIsFresh
<1> QED  BY <1>1, <1>2, <1>3, PTL DEF Spec

-----------------------------------------------------------------------------
(* The counters.                                                           *)

TurnsCounted ==
  /\ IsFiniteSet(handed) /\ Cardinality(handed) = reserved
  /\ \A n \in handed : live.numbered /\ n < live.turn
  /\ ~live.numbered => live.turn = 0

LEMMA TurnsStep ==
  ASSUME Basics, TurnsCounted, [Next]_vars PROVE TurnsCounted'
<1>1. /\ TypeOK /\ AllRowsFine /\ live.turn \in Nat /\ live.numbered \in BOOLEAN
      /\ handed \subseteq Nat
  BY DEF Basics, TypeOK, File
<1>2. TypeOK'  BY TypesStep DEF Basics
<1>3. live'.turn \in Nat  BY <1>2 DEF TypeOK, File
<1>4. CASE /\ handed' = handed /\ reserved' = reserved
           /\ \/ live'.numbered = live.numbered /\ live'.turn = live.turn
              \/ live'.numbered = TRUE /\ live'.turn >= live.turn
  <2>1. IsFiniteSet(handed') /\ Cardinality(handed') = reserved'  BY <1>4 DEF TurnsCounted
  <2>2. CASE live'.numbered = live.numbered /\ live'.turn = live.turn
    BY <1>4, <2>1, <2>2 DEF TurnsCounted
  <2>3. CASE live'.numbered = TRUE /\ live'.turn >= live.turn
    <3>1. \A n \in handed : n < live'.turn  BY <1>1, <1>3, <2>3 DEF TurnsCounted
    <3>2. live'.numbered  BY <2>3
    <3> QED  BY <1>4, <2>1, <3>1, <3>2 DEF TurnsCounted
  <2> QED  BY <1>4, <2>2, <2>3
<1>5. SUFFICES ASSUME Next PROVE TurnsCounted'
  <2>1. CASE UNCHANGED vars  BY <1>4, <2>1 DEF vars, files, ghost
  <2> QED  BY <1>5, <2>1
<1>6. PICK a \in App :
        \/ Append(a) \/ Truncate(a) \/ Reserve(a) \/ ClearHistory(a) \/ Delete(a)
        \/ StartCompaction(a) \/ FinishCompaction(a) \/ GiveUpCompaction(a)
        \/ LookUp(a) \/ ReadContext(a)
        \/ (\E want \in Wants : Begin(a, want))
        \/ Act(a) \/ Restore(a) \/ Remove(a) \/ Fail(a)
        \/ Switch(a) \/ Crash(a)
  BY <1>5 DEF Next
<1>7. CASE Reserve(a)
  <2> DEFINE n == NextTurn(live)
  <2>1. Numbers(live, live') /\ n \in Nat  BY <1>1, <1>7, ReserveEffect
  <2>2. handed' = handed \cup {n} /\ reserved' = reserved + 1  BY <1>7 DEF Reserve
  <2>3. \A k \in handed : k < n  BY DEF TurnsCounted, NextTurn
  <2>4. live'.numbered = TRUE /\ live'.turn = n + 1  BY <2>1 DEF Numbers
  <2> HIDE DEF n
  <2>5. n \notin handed  BY <1>1, <2>1, <2>3
  <2>6. IsFiniteSet(handed') /\ Cardinality(handed') = reserved'
    BY <2>2, <2>5, FS_AddElement DEF TurnsCounted
  <2>7. \A k \in handed' : k < live'.turn  BY <1>1, <2>1, <2>2, <2>3, <2>4
  <2>8. live'.numbered  BY <2>4
  <2> QED  BY <2>6, <2>7, <2>8 DEF TurnsCounted
<1>8. CASE Delete(a)
  <2>1. live'.numbered = FALSE /\ live'.turn = 0  BY <1>1, <1>8, DeleteEffect DEF NewFile
  <2>2. handed' = {} /\ reserved' = 0  BY <1>8 DEF Delete
  <2> QED  BY <2>1, <2>2, FS_EmptySet DEF TurnsCounted
<1>9. CASE Append(a) \/ Truncate(a) \/ ClearHistory(a) \/ FinishCompaction(a)
  <2>1. live' = live \/ Adds(live, live') \/ Removes(live, live') \/ Touches(live, live')
        \/ Summarises(live, live', a)
    BY <1>1, <1>9, AppendEffect, TruncateEffect, ClearHistoryEffect, FinishEffect
  <2>2. live'.numbered = live.numbered /\ live'.turn = live.turn
    BY <2>1 DEF Adds, Removes, Touches, Summarises
  <2>3. handed' = handed /\ reserved' = reserved
    BY <1>9 DEF Append, Truncate, ClearHistory, FinishCompaction, ghost
  <2> QED  BY <1>4, <2>2, <2>3
<1>10. CASE Restore(a)
  <2>1. live'.numbered = TRUE /\ live'.turn >= live.turn
    BY <1>1, <1>10, RestoreEffect DEF Replaces
  <2>2. handed' = handed /\ reserved' = reserved  BY <1>10 DEF Restore, ghost
  <2> QED  BY <1>4, <2>1, <2>2
<1>11. CASE \/ StartCompaction(a) \/ GiveUpCompaction(a) \/ LookUp(a) \/ ReadContext(a)
            \/ (\E want \in Wants : Begin(a, want))
            \/ Act(a) \/ Remove(a) \/ Fail(a) \/ Switch(a) \/ Crash(a)
  <2>1. live' = live /\ handed' = handed /\ reserved' = reserved
    BY <1>11 DEF StartCompaction, GiveUpCompaction, LookUp, ReadContext, Begin, Act,
       Remove, Fail, Switch, Crash, files, ghost
  <2> QED  BY <1>4, <2>1
<1> QED  BY <1>6, <1>7, <1>8, <1>9, <1>10, <1>11

LEMMA TurnsInvariant == Spec => [](Basics /\ TurnsCounted)
<1>1. Init => Basics /\ TurnsCounted
  <2> SUFFICES ASSUME Init PROVE TurnsCounted  BY BasicsInit DEF Basics
  <2>1. handed = {} /\ reserved = 0  BY DEF Init
  <2>2. live.turn = 0
    <3>1. live \in {NewFile(0), OldFile}  BY DEF Init
    <3>2. NewFile(0).turn = 0 /\ OldFile.turn = 0  BY DEF NewFile, OldFile
    <3> QED  BY <3>1, <3>2
  <2> QED  BY <2>1, <2>2, FS_EmptySet DEF TurnsCounted
<1>2. Basics /\ TurnsCounted /\ [Next]_vars => Basics' /\ TurnsCounted'
  BY TypesStep, RowsFineStep, TurnsStep DEF Basics
<1> QED  BY <1>1, <1>2, PTL DEF Spec

\* reserve_turn_index hands no number out twice in the life of a session, whatever is
\* rewound, cleared or rolled back.
THEOREM TurnsCorrect == Spec => []TurnIndexUnique
<1>1. TurnsCounted => TurnIndexUnique  BY DEF TurnsCounted, TurnIndexUnique
<1> QED  BY <1>1, TurnsInvariant, PTL

\* The three counters of the file never go back, the revision goes up with every change
\* of the messages, and the generation whenever messages are taken away.
THEOREM CountersCorrect == Spec => CountersGoUp
<1> DEFINE Up == live'.born = live.born =>
       /\ live.gen <= live'.gen /\ live.rev <= live'.rev /\ live.turn <= live'.turn
       /\ live.rows # live'.rows => live.rev < live'.rev
       /\ ~(live.rows \subseteq live'.rows) => live.gen < live'.gen
<1>1. Basics /\ TurnsCounted /\ [Next]_vars => Up
  <2> SUFFICES ASSUME Basics, TurnsCounted, [Next]_vars PROVE Up  OBVIOUS
  <2>1. /\ TypeOK /\ AllRowsFine /\ live.turn \in Nat /\ live.gen \in Nat
        /\ live.rev \in Nat /\ live.born \in Nat
    BY DEF Basics, TypeOK, File
  <2>2. TypeOK'  BY TypesStep DEF Basics
  <2>3. live'.turn \in Nat /\ live'.gen \in Nat /\ live'.rev \in Nat
    BY <2>2 DEF TypeOK, File
  <2>4. CASE live' = live  BY <2>1, <2>4
  <2>5. CASE UNCHANGED vars  BY <2>4, <2>5 DEF vars, files
  <2>6. CASE Next
    <3>1. PICK a \in App :
            \/ Append(a) \/ Truncate(a) \/ Reserve(a) \/ ClearHistory(a) \/ Delete(a)
            \/ StartCompaction(a) \/ FinishCompaction(a) \/ GiveUpCompaction(a)
            \/ LookUp(a) \/ ReadContext(a)
            \/ (\E want \in Wants : Begin(a, want))
            \/ Act(a) \/ Restore(a) \/ Remove(a) \/ Fail(a)
            \/ Switch(a) \/ Crash(a)
      BY <2>6 DEF Next
    <3>2. CASE Adds(live, live')  BY <2>1, <3>2 DEF Adds
    <3>3. CASE Removes(live, live')  BY <2>1, <3>3 DEF Removes
    <3>4. CASE Touches(live, live') \/ Summarises(live, live', a)
      BY <2>1, <3>4 DEF Touches, Summarises
    <3>5. CASE Append(a) \/ Truncate(a) \/ ClearHistory(a) \/ FinishCompaction(a)
      BY <2>1, <2>4, <3>2, <3>3, <3>4, <3>5, AppendEffect, TruncateEffect,
         ClearHistoryEffect, FinishEffect
    <3>6. CASE Reserve(a)
      <4>1. Numbers(live, live') /\ NextTurn(live) \in Nat  BY <2>1, <3>6, ReserveEffect
      <4>2. live.turn <= NextTurn(live)  BY <2>1, <4>1 DEF TurnsCounted, NextTurn
      <4> QED  BY <2>1, <4>1, <4>2 DEF Numbers
    <3>7. CASE Delete(a)
      <4>1. live'.born = live.born + 1  BY <2>1, <3>7, DeleteEffect
      <4> QED  BY <2>1, <4>1
    <3>8. CASE Restore(a)
      <4>1. Replaces(live, live')  BY <2>1, <3>8, RestoreEffect
      <4> QED  BY <2>1, <2>3, <4>1 DEF Replaces
    <3>9. CASE \/ StartCompaction(a) \/ GiveUpCompaction(a) \/ LookUp(a) \/ ReadContext(a)
               \/ (\E want \in Wants : Begin(a, want))
               \/ Act(a) \/ Remove(a) \/ Fail(a) \/ Switch(a) \/ Crash(a)
      BY <2>4, <3>9 DEF StartCompaction, GiveUpCompaction, LookUp, ReadContext, Begin, Act,
         Remove, Fail, Switch, Crash, files
    <3> QED  BY <3>1, <3>5, <3>6, <3>7, <3>8, <3>9
  <2> QED  BY <2>5, <2>6
<1>2. Up => [Up]_vars  OBVIOUS
<1>3. Basics /\ TurnsCounted /\ [Next]_vars => [Up]_vars  BY <1>1, <1>2
<1> QED  BY <1>3, TurnsInvariant, PTL DEF Spec, CountersGoUp

=============================================================================
