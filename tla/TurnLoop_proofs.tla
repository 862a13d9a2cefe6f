--------------------------- MODULE TurnLoop_proofs ---------------------------
(***************************************************************************)
(* Proofs about TurnLoop, for every limit on iterations, retries and grace *)
(* rounds.  A turn is an arbitrary sequence of answers; what is proved of  *)
(* it are the facts that relate its messages to the notes, counters and    *)
(* overrides the loop keeps beside them.                                   *)
(***************************************************************************)
EXTENDS TurnLoop, FiniteSetTheorems, TLAPS

Occurrences(s, kind) == {i \in 1..Len(s) : s[i] = kind}

LEMMA OccurrencesFinite ==
  ASSUME NEW s \in Seq(Message), NEW kind
  PROVE  /\ IsFiniteSet(Occurrences(s, kind))
         /\ Cardinality(Occurrences(s, kind)) \in Nat
<1>1. IsFiniteSet(1..Len(s))  BY FS_Interval
<1>2. Occurrences(s, kind) \subseteq 1..Len(s)  BY DEF Occurrences
<1> QED  BY <1>1, <1>2, FS_Subset, FS_CardinalityType

\* A message that is added counts once more for its kind, and for no other.
LEMMA OccurrencesAppend ==
  ASSUME NEW s \in Seq(Message), NEW x \in Message, NEW kind
  PROVE  Cardinality(Occurrences(Append(s, x), kind))
           = Cardinality(Occurrences(s, kind)) + (IF x = kind THEN 1 ELSE 0)
<1> DEFINE new == Len(s) + 1
<1>1. /\ Len(Append(s, x)) = new /\ Append(s, x)[new] = x
      /\ \A i \in 1..Len(s) : Append(s, x)[i] = s[i]
  OBVIOUS
<1>2. Len(s) \in Nat /\ 1..new = 1..Len(s) \cup {new} /\ new \notin 1..Len(s)
  OBVIOUS
<1>3. CASE x = kind
  <2>1. Occurrences(Append(s, x), kind) = Occurrences(s, kind) \cup {new}
    BY <1>1, <1>2, <1>3 DEF Occurrences
  <2>2. new \notin Occurrences(s, kind)  BY <1>2 DEF Occurrences
  <2> QED  BY <2>1, <2>2, <1>3, OccurrencesFinite, FS_AddElement
<1>4. CASE x # kind
  <2>1. Occurrences(Append(s, x), kind) = Occurrences(s, kind)
    BY <1>1, <1>2, <1>4 DEF Occurrences
  <2> QED  BY <2>1, <1>4, OccurrencesFinite
<1> QED  BY <1>3, <1>4

LEMMA OccurrencesOne ==
  ASSUME NEW x \in Message, NEW kind
  PROVE  /\ <<x>> \in Seq(Message) /\ Len(<<x>>) = 1
         /\ Cardinality(Occurrences(<<x>>, kind)) = IF x = kind THEN 1 ELSE 0
<1>1. <<x>> \in Seq(Message) /\ Len(<<x>>) = 1 /\ <<x>>[1] = x /\ 1..1 = {1}
  OBVIOUS
<1>2. CASE x = kind
  <2>1. Occurrences(<<x>>, kind) = {1}  BY <1>1, <1>2 DEF Occurrences
  <2> QED  BY <1>1, <1>2, <2>1, FS_Singleton
<1>3. CASE x # kind
  <2>1. Occurrences(<<x>>, kind) = {}  BY <1>1, <1>3 DEF Occurrences
  <2> QED  BY <1>1, <1>3, <2>1, FS_EmptySet
<1> QED  BY <1>2, <1>3

LEMMA OccurrencesTwo ==
  ASSUME NEW s \in Seq(Message), NEW x \in Message, NEW y \in Message, NEW kind
  PROVE  /\ s \o <<x, y>> \in Seq(Message)
         /\ Len(s \o <<x, y>>) = Len(s) + 2
         /\ Cardinality(Occurrences(s \o <<x, y>>, kind))
              = Cardinality(Occurrences(s, kind)) + (IF x = kind THEN 1 ELSE 0)
                + (IF y = kind THEN 1 ELSE 0)
<1>1. /\ Append(s, x) \in Seq(Message) /\ Append(Append(s, x), y) \in Seq(Message)
      /\ s \o <<x, y>> = Append(Append(s, x), y)
      /\ Len(Append(Append(s, x), y)) = Len(s) + 2
  OBVIOUS
<1>2. Cardinality(Occurrences(Append(s, x), kind))
        = Cardinality(Occurrences(s, kind)) + (IF x = kind THEN 1 ELSE 0)
  BY OccurrencesAppend
<1>3. Cardinality(Occurrences(Append(Append(s, x), y), kind))
        = Cardinality(Occurrences(Append(s, x), kind)) + (IF y = kind THEN 1 ELSE 0)
  BY <1>1, OccurrencesAppend
<1> QED  BY <1>1, <1>2, <1>3, OccurrencesFinite

-----------------------------------------------------------------------------
(* Types, and that a turn that goes on has used up none of its retries.    *)

InLoop == phase \in {"head", "asking"}

Budgets == InLoop => /\ retries.empty <= MaxEmpty
                     /\ retries.truncated < MaxTruncations
                     /\ retries.stream <= MaxStreamErrors

\* TypeOK in parts, which are preserved one by one.
Counters == /\ iteration \in 0..Ceiling /\ grace \in 0..MaxGrace /\ turns \in 0..MaxTurns
Flags == force \in BOOLEAN /\ effortHelps \in BOOLEAN /\ recorded \in BOOLEAN
Phases == /\ phase \in {"idle", "head", "asking", "ending"}
          /\ wrapUp \in {"no", "sent", "taken"}
          /\ ended \in {"no", "break", "return", "error"}
          /\ (ended = "no" <=> phase \in {"head", "asking"} \/ turns = 0)
          /\ (turns = 0 => phase = "idle")
Tries == retries \in Retries /\ cli \in Overrides /\ downgraded \in BOOLEAN
Texts == /\ notes \subseteq Marker
         /\ turn \in Seq(Message) /\ persisted \in 0..Len(turn)
         /\ row \in (Retried \cup {"none"}) \X Nat

LEMMA Parts == TypeOK <=> Counters /\ Flags /\ Phases /\ Tries /\ Texts
BY DEF TypeOK, Counters, Flags, Phases, Tries, Texts

LEMMA TypesInit == Init => TypeOK /\ Budgets
<1> SUFFICES ASSUME Init PROVE TypeOK /\ Budgets  OBVIOUS
<1>1. Counters  BY LoopAssumption DEF Init, Counters, Ceiling
<1>2. Flags  BY DEF Init, Flags
<1>3. Phases  BY DEF Init, Phases
<1>4. Tries
  <2>1. retries \in Retries
    BY LoopAssumption DEF Init, NoRetries, Retries
  <2>2. cli \in Overrides  BY LoopAssumption DEF Init, Saved, Overrides
  <2>3. downgraded \in BOOLEAN  BY DEF Init
  <2> QED  BY <2>1, <2>2, <2>3 DEF Tries
<1>5. Texts  BY DEF Init, Texts, Marker, Message, Retried
<1>6. Budgets  BY DEF Init, Budgets, InLoop
<1> QED  BY <1>1, <1>2, <1>3, <1>4, <1>5, <1>6, Parts

LEMMA CountersStep ==
  ASSUME Counters, Next \/ UNCHANGED vars
  PROVE  Counters'
<1> USE LoopAssumption DEF Counters, Ceiling
<1>1. CASE StartTurn  BY <1>1 DEF StartTurn
<1>2. CASE WrapUpSignal  BY <1>2 DEF WrapUpSignal, ctl, tries, said, extra
<1>3. CASE Ask  BY <1>3 DEF Ask, tries, said, extra
<1>4. CASE Finish  BY <1>4 DEF Finish
<1>5. CASE Interrupted  BY <1>5 DEF Interrupted, Leaves, Calm, extra
<1>6. CASE WrapUpFinal  BY <1>6 DEF WrapUpFinal, Restarts, tries, extra
<1>7. CASE RequestFails
  BY <1>7 DEF RequestFails, Answers, Calm, Leaves, Breaks, tries, extra
<1>8. CASE RoundFails  BY <1>8 DEF RoundFails, Answers, Leaves, tries, extra
<1>9. CASE EmptyResponse
  BY <1>9 DEF EmptyResponse, Answers, Breaks, Leaves, Continues, extra
<1>10. CASE StreamError  BY <1>10 DEF StreamError, Answers, Breaks, Leaves, Restarts, extra
<1>11. CASE Truncated  BY <1>11 DEF Truncated, Answers, Breaks, Leaves, Restarts, extra
<1>12. CASE FinalResponse
  BY <1>12 DEF FinalResponse, Answers, ReopensForTasks, Reopens, Record, Breaks, Leaves,
               Continues, extra
<1>13. CASE ToolCall
  <2>1. CASE Refuses  BY <1>13, <2>1 DEF ToolCall, Refuses, extra
  <2>2. CASE Preflight
    <3>1. iteration' = iteration /\ turns' = turns  BY <1>13 DEF ToolCall, extra
    <3>2. grace' = grace \/ (grace < MaxGrace /\ grace' = grace + 1)
      BY <2>2 DEF Preflight
    <3> QED  BY <3>1, <3>2
  <2>3. CASE Runs  BY <1>13, <2>3 DEF ToolCall, Runs, extra
  <2> QED  BY <1>13, <2>1, <2>2, <2>3 DEF ToolCall
<1>14. CASE UNCHANGED vars  BY <1>14 DEF vars, ctl, tries, said, extra
<1> QED
  BY <1>1, <1>2, <1>3, <1>4, <1>5, <1>6, <1>7, <1>8,
     <1>9, <1>10, <1>11, <1>12, <1>13, <1>14 DEF Next, Answer

LEMMA FlagsStep ==
  ASSUME Flags, Next \/ UNCHANGED vars
  PROVE  Flags'
<1> USE DEF Flags
<1>1. CASE StartTurn  BY <1>1 DEF StartTurn
<1>2. CASE WrapUpSignal  BY <1>2 DEF WrapUpSignal, ctl, tries, said, extra
<1>3. CASE Ask  BY <1>3 DEF Ask, tries, said, extra
<1>4. CASE Finish  BY <1>4 DEF Finish
<1>5. CASE Interrupted  BY <1>5 DEF Interrupted, Leaves, Calm, extra
<1>6. CASE WrapUpFinal  BY <1>6 DEF WrapUpFinal, Restarts, tries, extra
<1>7. CASE RequestFails
  BY <1>7 DEF RequestFails, Answers, Calm, Leaves, Breaks, tries, extra
<1>8. CASE RoundFails  BY <1>8 DEF RoundFails, Answers, Leaves, tries, extra
<1>9. CASE EmptyResponse
  BY <1>9 DEF EmptyResponse, Answers, Breaks, Leaves, Continues, extra
<1>10. CASE StreamError  BY <1>10 DEF StreamError, Answers, Breaks, Leaves, Restarts, extra
<1>11. CASE Truncated  BY <1>11 DEF Truncated, Answers, Breaks, Leaves, Restarts, extra
<1>12. CASE FinalResponse
  BY <1>12 DEF FinalResponse, Answers, ReopensForTasks, Reopens, Record, Breaks, Leaves,
               Continues, extra
<1>13. CASE ToolCall
  BY <1>13 DEF ToolCall, Answers, Refuses, Preflight, Runs, Breaks, Leaves, Continues,
               Restarts, extra
<1>14. CASE UNCHANGED vars  BY <1>14 DEF vars, ctl, tries, said, extra
<1> QED
  BY <1>1, <1>2, <1>3, <1>4, <1>5, <1>6, <1>7, <1>8,
     <1>9, <1>10, <1>11, <1>12, <1>13, <1>14 DEF Next, Answer

LEMMA PhasesStep ==
  ASSUME Phases, Counters, Next \/ UNCHANGED vars
  PROVE  Phases'
<1> USE DEF Phases
<1>1. CASE StartTurn
  <2>1. turns' # 0  BY <1>1, LoopAssumption DEF StartTurn, Counters
  <2> QED  BY <1>1, <2>1 DEF StartTurn
<1>2. CASE WrapUpSignal  BY <1>2 DEF WrapUpSignal, ctl, tries, said, extra
<1>3. CASE Ask  BY <1>3 DEF Ask, tries, said, extra
<1>4. CASE Finish  BY <1>4 DEF Finish
<1>5. CASE Interrupted  BY <1>5 DEF Interrupted, Leaves, Calm, extra
<1>6. CASE WrapUpFinal  BY <1>6 DEF WrapUpFinal, Restarts, tries, extra
<1>7. CASE RequestFails
  BY <1>7 DEF RequestFails, Answers, Calm, Leaves, Breaks, tries, extra
<1>8. CASE RoundFails  BY <1>8 DEF RoundFails, Answers, Leaves, tries, extra
<1>9. CASE EmptyResponse
  BY <1>9 DEF EmptyResponse, Answers, Breaks, Leaves, Continues, extra
<1>10. CASE StreamError  BY <1>10 DEF StreamError, Answers, Breaks, Leaves, Restarts, extra
<1>11. CASE Truncated  BY <1>11 DEF Truncated, Answers, Breaks, Leaves, Restarts, extra
<1>12. CASE FinalResponse
  BY <1>12 DEF FinalResponse, Answers, ReopensForTasks, Reopens, Record, Breaks, Leaves,
               Continues, extra
<1>13. CASE ToolCall
  BY <1>13 DEF ToolCall, Answers, Refuses, Preflight, Runs, Breaks, Leaves, Continues,
               Restarts, extra
<1>14. CASE UNCHANGED vars  BY <1>14 DEF vars, ctl, tries, said, extra
<1> QED
  BY <1>1, <1>2, <1>3, <1>4, <1>5, <1>6, <1>7, <1>8,
     <1>9, <1>10, <1>11, <1>12, <1>13, <1>14 DEF Next, Answer

LEMMA RetriesUpdate ==
  ASSUME retries \in Retries, NEW e \in 0..(MaxEmpty + 1), NEW t \in 0..MaxTruncations
  PROVE  LET r == [[retries EXCEPT !.empty = e] EXCEPT !.truncated = t]
         IN  r \in Retries /\ r.empty = e /\ r.truncated = t /\ r.stream = retries.stream
<1> DEFINE a == [retries EXCEPT !.empty = e]
           b == [a EXCEPT !.truncated = t]
<1>1. a \in Retries /\ a.empty = e /\ a.stream = retries.stream  BY DEF Retries
<1> HIDE DEF a
<1>2. /\ b \in Retries /\ b.empty = a.empty /\ b.truncated = t /\ b.stream = a.stream
  BY <1>1 DEF Retries
<1> QED  BY <1>1, <1>2 DEF a

LEMMA CalmTries ==
  ASSUME Tries, Budgets, phase = "asking", Calm
  PROVE  Tries' /\ Budgets'
<1>1. /\ retries' = [[retries EXCEPT !.empty = 0] EXCEPT !.truncated = 0]
      /\ cli' \in {cli, Restored} /\ downgraded' = FALSE
  BY DEF Calm
<1>2. /\ retries' \in Retries /\ retries'.empty = 0 /\ retries'.truncated = 0
      /\ retries'.stream = retries.stream
  <2>1. 0 \in 0..(MaxEmpty + 1) /\ 0 \in 0..MaxTruncations  BY LoopAssumption
  <2> QED  BY <1>1, <2>1, RetriesUpdate DEF Tries
<1>3. Restored \in Overrides  BY LoopAssumption DEF Tries, Restored, Overrides
<1>4. retries.stream <= MaxStreamErrors  BY DEF Budgets, InLoop
<1>5. Tries'  BY <1>1, <1>2, <1>3 DEF Tries
<1>6. Budgets'  BY <1>2, <1>4, LoopAssumption DEF Budgets
<1> QED  BY <1>5, <1>6

LEMMA SameTries ==
  ASSUME Tries, Budgets, UNCHANGED tries, InLoop' => InLoop
  PROVE  Tries' /\ Budgets'
BY DEF Tries, Budgets, tries

LEMMA TriesStep ==
  ASSUME Tries, Budgets, Next \/ UNCHANGED vars
  PROVE  Tries' /\ Budgets'
<1>1. CASE StartTurn
  <2>1. retries' \in Retries /\ downgraded' = FALSE /\ cli' = cli
    BY <1>1, LoopAssumption DEF StartTurn, NoRetries, Retries
  <2>2. retries'.empty = 0 /\ retries'.truncated = 0 /\ retries'.stream = 0
    BY <1>1 DEF StartTurn, NoRetries
  <2>3. Tries'  BY <2>1 DEF Tries
  <2>4. Budgets'  BY <2>2, LoopAssumption DEF Budgets
  <2> QED  BY <2>3, <2>4
<1>2. CASE WrapUpSignal  BY <1>2, SameTries DEF WrapUpSignal, InLoop
<1>3. CASE Ask  BY <1>3, SameTries DEF Ask, InLoop
<1>4. CASE Finish
  <2>1. phase' = "idle" /\ retries' = retries /\ downgraded' = downgraded /\ cli' = Saved
    BY <1>4 DEF Finish
  <2>2. Saved \in Overrides  BY LoopAssumption DEF Saved, Overrides
  <2> QED  BY <2>1, <2>2 DEF Tries, Budgets, InLoop
<1>5. CASE Interrupted  BY <1>5, CalmTries DEF Interrupted
<1>6. CASE WrapUpFinal  BY <1>6, SameTries DEF WrapUpFinal, InLoop
<1>7. CASE RequestFails
  <2>1. CASE Calm  BY <1>7, <2>1, CalmTries DEF RequestFails, Answers
  <2>2. CASE UNCHANGED tries
    BY <1>7, <2>2, SameTries DEF RequestFails, Answers, InLoop
  <2> QED  BY <1>7, <2>1, <2>2 DEF RequestFails
<1>8. CASE RoundFails  BY <1>8, SameTries DEF RoundFails, Answers, InLoop
<1>9. CASE EmptyResponse
  <2>1. /\ phase = "asking" /\ cli' \in {cli, Restored} /\ downgraded' = FALSE
        /\ retries' = [[retries EXCEPT !.empty = retries.empty + 1] EXCEPT !.truncated = 0]
        /\ (retries.empty + 1 <= MaxEmpty \/ phase' = "ending")
    <3>1. retries.empty \in Nat /\ MaxEmpty \in Nat
      BY LoopAssumption DEF Tries, Retries
    <3>2. retries.empty + 1 > MaxEmpty => phase' = "ending"
      BY <1>9 DEF EmptyResponse, Breaks, Leaves
    <3>3. /\ phase = "asking" /\ cli' \in {cli, Restored} /\ downgraded' = FALSE
          /\ retries' = [[retries EXCEPT !.empty = retries.empty + 1] EXCEPT !.truncated = 0]
      BY <1>9 DEF EmptyResponse, Answers
    <3> QED  BY <3>1, <3>2, <3>3
  <2>2. /\ retries.empty \in 0..MaxEmpty /\ retries.stream <= MaxStreamErrors
        /\ retries.empty + 1 \in 0..(MaxEmpty + 1)
    BY <2>1, LoopAssumption DEF Tries, Budgets, InLoop, Retries
  <2>3. /\ retries' \in Retries /\ retries'.empty = retries.empty + 1
        /\ retries'.truncated = 0 /\ retries'.stream = retries.stream
    <3>1. 0 \in 0..MaxTruncations  BY LoopAssumption
    <3> QED  BY <2>1, <2>2, <3>1, RetriesUpdate DEF Tries
  <2>4. Restored \in Overrides  BY LoopAssumption DEF Tries, Restored, Overrides
  <2>5. Tries'  BY <2>1, <2>3, <2>4 DEF Tries
  <2>6. Budgets'
    BY <2>1, <2>2, <2>3, LoopAssumption DEF Budgets, InLoop
  <2> QED  BY <2>5, <2>6
<1>10. CASE StreamError
  <2>1. /\ phase = "asking" /\ cli' = cli /\ downgraded' = downgraded
        /\ retries' = [empty |-> 0, truncated |-> 0, stream |-> retries.stream + 1]
        /\ (retries.stream + 1 > MaxStreamErrors => phase' = "ending")
    BY <1>10 DEF StreamError, Answers, Breaks, Leaves
  <2>2. /\ retries.stream \in 0..MaxStreamErrors
        /\ retries.stream + 1 \in 0..(MaxStreamErrors + 1)
    BY <2>1, LoopAssumption DEF Tries, Budgets, InLoop, Retries
  <2>3. retries' \in Retries  BY <2>1, <2>2, LoopAssumption DEF Retries
  <2>4. Tries'  BY <2>1, <2>3 DEF Tries
  <2>5. Budgets'
    BY <2>1, <2>2, LoopAssumption DEF Budgets, InLoop
  <2> QED  BY <2>4, <2>5
<1>11. CASE Truncated
  <2> DEFINE n == retries.truncated + 1
  <2>1. /\ phase = "asking" /\ downgraded' \in BOOLEAN
        /\ retries' = [empty |-> 0, truncated |-> n, stream |-> 0]
        /\ (n >= MaxTruncations => phase' = "ending")
    BY <1>11 DEF Truncated, Answers, Breaks, Leaves
  <2>2. n \in 1..MaxTruncations
    BY <2>1, LoopAssumption DEF Tries, Budgets, InLoop, Retries
  <2>3. retries' \in Retries  BY <2>1, <2>2, LoopAssumption DEF Retries
  <2>4. cli' \in Overrides
    <3>1. cli.halvings \in 0..MaxHalvings /\ cli.effort \in {"saved", "low", "none", "disabled"}
          /\ cli.thinkingOff \in BOOLEAN
      BY DEF Tries, Overrides
    <3>2. Effort(n) \in {"saved", "low", "none", "disabled"}  BY DEF Effort
    <3>3. PICK nothing \in BOOLEAN :
            cli' = [effort |-> IF effortHelps THEN Effort(n) ELSE cli.effort,
                    thinkingOff |-> cli.thinkingOff \/ ~effortHelps \/ n >= MaxTruncations,
                    halvings |-> IF ~nothing THEN (IF downgraded THEN 0 ELSE cli.halvings)
                                 ELSE IF cli.halvings < MaxHalvings THEN cli.halvings + 1
                                 ELSE cli.halvings]
      BY <1>11 DEF Truncated
    <3> DEFINE h == IF ~nothing THEN (IF downgraded THEN 0 ELSE cli.halvings)
                    ELSE IF cli.halvings < MaxHalvings THEN cli.halvings + 1
                    ELSE cli.halvings
               e == IF effortHelps THEN Effort(n) ELSE cli.effort
               o == cli.thinkingOff \/ ~effortHelps \/ n >= MaxTruncations
    <3>4. h \in 0..MaxHalvings  BY <3>1, LoopAssumption
    <3>5. e \in {"saved", "low", "none", "disabled"}  BY <3>1, <3>2
    <3>6. o \in BOOLEAN  OBVIOUS
    <3>7. cli' = [effort |-> e, thinkingOff |-> o, halvings |-> h]  BY <3>3
    <3> HIDE DEF h, e, o
    <3> QED  BY <3>4, <3>5, <3>6, <3>7 DEF Overrides
  <2>5. Tries'  BY <2>1, <2>3, <2>4 DEF Tries
  <2>6. Budgets'
    BY <2>1, <2>2, LoopAssumption DEF Budgets, InLoop
  <2> QED  BY <2>5, <2>6
<1>12. CASE FinalResponse  BY <1>12, CalmTries DEF FinalResponse, Answers
<1>13. CASE ToolCall  BY <1>13, CalmTries DEF ToolCall, Answers
<1>14. CASE UNCHANGED vars  BY <1>14, SameTries DEF vars, ctl, InLoop
<1> QED
  BY <1>1, <1>2, <1>3, <1>4, <1>5, <1>6, <1>7, <1>8,
     <1>9, <1>10, <1>11, <1>12, <1>13, <1>14 DEF Next, Answer

LEMMA RowStep ==
  ASSUME Texts, NEW kind, Answers(kind)
  PROVE  row' \in (Retried \cup {"none"}) \X Nat
<1>1. row[1] \in Retried \cup {"none"} /\ row[2] \in Nat  BY DEF Texts
<1>2. \/ row' = <<"none", 0>>
      \/ kind \in Retried /\ (row' = <<kind, row[2] + 1>> \/ row' = <<kind, 1>>)
  BY DEF Answers
<1> QED  BY <1>1, <1>2

\* A message is added and saved, or kept for the next time.
LEMMA TurnGrows ==
  ASSUME Texts, NEW x \in Message, turn' = Append(turn, x),
         persisted' \in {persisted, Len(turn')}
  PROVE  turn' \in Seq(Message) /\ persisted' \in 0..Len(turn')
BY DEF Texts

LEMMA SameTexts ==
  ASSUME Texts, UNCHANGED <<notes, turn, row>>, persisted' \in {persisted, Len(turn)}
  PROVE  Texts'
BY DEF Texts

LEMMA TextsStep ==
  ASSUME Texts, Next \/ UNCHANGED vars
  PROVE  Texts'
<1>0. Len(turn) \in Nat /\ persisted \in Nat /\ "denied" \in Message /\ "note" \in Message
  BY DEF Texts, Message
<1>1. CASE StartTurn
  <2>1. turn' = <<"user">> /\ persisted' \in {0, 1} /\ row' = <<"none", 0>>
        /\ notes' \in {{}, {"no-tool"}}
    BY <1>1 DEF StartTurn
  <2>2. turn' \in Seq(Message) /\ Len(turn') = 1
    BY <2>1, OccurrencesOne DEF Message
  <2> QED  BY <2>1, <2>2 DEF Texts, Marker, Retried
<1>2. CASE WrapUpSignal  BY <1>2, SameTexts DEF WrapUpSignal, said
<1>3. CASE Ask  BY <1>3, SameTexts DEF Ask, said
<1>4. CASE Finish
  <2>1. /\ turn' = Append(turn, "final") \/ turn' = turn
        /\ persisted' \in {persisted, Len(turn')}
        /\ notes' = notes /\ row' = row
    BY <1>4 DEF Finish, Persists
  <2>2. CASE turn' = turn  BY <2>1, <2>2, SameTexts
  <2>3. CASE turn' = Append(turn, "final")
    BY <2>1, <2>3, TurnGrows DEF Texts, Message
  <2> QED  BY <2>1, <2>2, <2>3
<1>5. CASE Interrupted  BY <1>5, SameTexts DEF Interrupted, Persists
<1>6. CASE WrapUpFinal  BY <1>6, SameTexts DEF WrapUpFinal
<1>7. CASE RequestFails
  <2>1. row' \in (Retried \cup {"none"}) \X Nat  BY <1>7, RowStep DEF RequestFails
  <2>2. notes' = notes /\ turn' = turn /\ persisted' \in {persisted, Len(turn)}
    BY <1>7 DEF RequestFails, Persists
  <2> QED  BY <1>0, <2>1, <2>2 DEF Texts
<1>8. CASE RoundFails
  BY <1>8, RowStep DEF RoundFails, Texts
<1>9. CASE EmptyResponse  BY <1>9, RowStep DEF EmptyResponse, Texts
<1>10. CASE StreamError  BY <1>10, RowStep DEF StreamError, Texts
<1>11. CASE Truncated  BY <1>11, RowStep DEF Truncated, Texts
<1>12. CASE FinalResponse
  <2>1. row' \in (Retried \cup {"none"}) \X Nat /\ persisted' = persisted
    BY <1>12, RowStep DEF FinalResponse
  <2>2. /\ turn' = turn \/ turn' = Append(turn, "final")
        /\ notes' \subseteq notes \cup Marker
    BY <1>12 DEF FinalResponse, ReopensForTasks, Reopens, Record, Marker
  <2>3. turn' \in Seq(Message) /\ persisted' \in 0..Len(turn')
    BY <2>1, <2>2, TurnGrows DEF Texts, Message
  <2> QED  BY <2>1, <2>2, <2>3 DEF Texts
<1>13. CASE ToolCall
  <2>1. row' \in (Retried \cup {"none"}) \X Nat  BY <1>13, RowStep DEF ToolCall
  <2>2. CASE Refuses
    <3>1. CASE "no-tool" \notin notes
      <4>1. /\ turn' = turn \o <<"denied", "note">> /\ notes' = notes \cup {"no-tool"}
            /\ persisted' \in {persisted, Len(turn) + 1}
        BY <2>2, <3>1 DEF Refuses
      <4>2. turn' \in Seq(Message) /\ Len(turn') = Len(turn) + 2
        BY <1>0, <4>1, OccurrencesTwo DEF Texts
      <4> QED  BY <1>0, <2>1, <4>1, <4>2 DEF Texts, Marker
    <3>2. CASE "no-tool" \in notes
      <4>1. /\ turn' = Append(turn, "denied") /\ notes' = notes
            /\ persisted' \in {persisted, Len(turn')}
        BY <2>2, <3>2 DEF Refuses, Persists
      <4> QED  BY <1>0, <2>1, <4>1, TurnGrows DEF Texts
    <3> QED  BY <3>1, <3>2
  <2>3. CASE Preflight \/ Runs
    <3>1. PICK x \in {"calls", "refused"} : turn' = Append(turn, x)
      BY <2>3 DEF Preflight, Runs
    <3>2. persisted' \in {persisted, Len(turn')} /\ notes' = notes
      BY <2>3 DEF Preflight, Runs, Persists
    <3>3. x \in Message  BY <3>1 DEF Message
    <3> QED  BY <2>1, <3>1, <3>2, <3>3, TurnGrows DEF Texts
  <2> QED  BY <1>13, <2>2, <2>3 DEF ToolCall
<1>14. CASE UNCHANGED vars  BY <1>14, SameTexts DEF vars, said
<1> QED
  BY <1>1, <1>2, <1>3, <1>4, <1>5, <1>6, <1>7, <1>8,
     <1>9, <1>10, <1>11, <1>12, <1>13, <1>14 DEF Next, Answer

LEMMA TypesStep ==
  ASSUME TypeOK, Budgets, [Next]_vars
  PROVE  TypeOK' /\ Budgets'
<1>1. Counters /\ Flags /\ Phases /\ Tries /\ Texts  BY Parts
<1>2. Counters' /\ Flags' /\ Phases' /\ Tries' /\ Budgets' /\ Texts'
  BY <1>1, CountersStep, FlagsStep, PhasesStep, TriesStep, TextsStep
<1> QED
  BY <1>2 DEF TypeOK, Counters, Flags, Phases, Tries, Texts

\* The types of the loop's variables (run_turn_body), which include that no retry counter
\* and no grace counter passes its limit.
THEOREM TypeCorrect == Spec => []TypeOK
<1>1. TypeOK /\ Budgets /\ [Next]_vars => TypeOK' /\ Budgets'  BY TypesStep
<1> QED  BY <1>1, TypesInit, PTL DEF Spec

-----------------------------------------------------------------------------
(* The messages of a turn.  What a step within the loop adds to them is    *)
(* one of five things; the two counts follow from that.                    *)

Denials == /\ Count("denied") <= 2
           /\ InLoop => Count("denied") <= IF "no-tool" \in notes THEN 1 ELSE 0

Finals == /\ InLoop => ~recorded /\ Count("final") = 0
          /\ phase = "ending" =>
               IF recorded
               THEN ended = "break" /\ Count("final") = 1 /\ turn[Len(turn)] = "final"
               ELSE Count("final") = 0
          /\ AnswerOnce

Nothing == turn' = turn /\ notes \subseteq notes' /\ recorded' = recorded
Called == /\ \E x \in {"calls", "refused"} : turn' = Append(turn, x)
          /\ notes' = notes /\ recorded' = recorded
DeniedOnce == /\ turn' = turn \o <<"denied", "note">> /\ recorded' = recorded
              /\ "no-tool" \notin notes /\ notes' = notes \cup {"no-tool"}
DeniedAgain == /\ turn' = Append(turn, "denied") /\ notes' = notes /\ recorded' = recorded
               /\ "no-tool" \in notes /\ phase' = "ending"
Answered == /\ turn' = Append(turn, "final") /\ notes' = notes /\ recorded' = TRUE
            /\ phase' = "ending" /\ ended' = "break"

LEMMA Shape ==
  ASSUME WrapUpSignal \/ Ask \/ Answer
  PROVE  /\ InLoop /\ phase' \in {"head", "asking", "ending"}
         /\ Nothing \/ Called \/ DeniedOnce \/ DeniedAgain \/ Answered
<1>1. CASE WrapUpSignal  BY <1>1 DEF WrapUpSignal, InLoop, Nothing, said
<1>2. CASE Ask  BY <1>2 DEF Ask, InLoop, Nothing, said
<1>3. CASE Interrupted  BY <1>3 DEF Interrupted, Leaves, InLoop, Nothing
<1>4. CASE WrapUpFinal  BY <1>4 DEF WrapUpFinal, Restarts, InLoop, Nothing
<1>5. CASE RequestFails
  BY <1>5 DEF RequestFails, Answers, Leaves, Breaks, InLoop, Nothing
<1>6. CASE RoundFails  BY <1>6 DEF RoundFails, Answers, Leaves, InLoop, Nothing
<1>7. CASE EmptyResponse
  BY <1>7 DEF EmptyResponse, Answers, Leaves, Breaks, Continues, InLoop, Nothing
<1>8. CASE StreamError
  BY <1>8 DEF StreamError, Answers, Leaves, Breaks, Restarts, InLoop, Nothing
<1>9. CASE Truncated
  BY <1>9 DEF Truncated, Answers, Leaves, Breaks, Restarts, InLoop, Nothing
<1>10. CASE FinalResponse
  <2>1. phase = "asking"  BY <1>10 DEF FinalResponse, Answers
  <2>2. CASE Record
    BY <2>1, <2>2 DEF Record, Breaks, Leaves, InLoop, Answered
  <2>3. CASE ~Record
    BY <1>10, <2>1, <2>3
       DEF FinalResponse, ReopensForTasks, Reopens, Breaks, Leaves, Continues, InLoop, Nothing
  <2> QED  BY <2>2, <2>3
<1>11. CASE ToolCall
  <2>1. phase = "asking" /\ recorded' = recorded  BY <1>11 DEF ToolCall, Answers
  <2>2. CASE Refuses
    BY <2>1, <2>2 DEF Refuses, Continues, Breaks, Leaves, InLoop, DeniedOnce, DeniedAgain
  <2>3. CASE Preflight  BY <2>1, <2>3 DEF Preflight, Restarts, InLoop, Called
  <2>4. CASE Runs  BY <2>1, <2>4 DEF Runs, Leaves, Continues, InLoop, Called
  <2> QED  BY <1>11, <2>2, <2>3, <2>4 DEF ToolCall
<1> QED
  BY <1>1, <1>2, <1>3, <1>4, <1>5, <1>6, <1>7, <1>8, <1>9, <1>10, <1>11 DEF Answer

\* How often a kind occurs after a step, in the terms of Count.
LEMMA CountStep ==
  ASSUME turn \in Seq(Message), NEW kind
  PROVE  /\ Count(kind) \in Nat
         /\ turn' = turn => Count(kind)' = Count(kind)
         /\ \A x \in Message : turn' = Append(turn, x) =>
              /\ Count(kind)' = Count(kind) + (IF x = kind THEN 1 ELSE 0)
              /\ turn'[Len(turn')] = x
         /\ turn' = turn \o <<"denied", "note">> =>
              Count(kind)' = Count(kind) + (IF "denied" = kind THEN 1 ELSE 0)
                               + (IF "note" = kind THEN 1 ELSE 0)
<1>1. /\ Count(kind) = Cardinality(Occurrences(turn, kind))
      /\ Count(kind)' = Cardinality(Occurrences(turn', kind))
  BY DEF Count, Occurrences
<1>2. \A x \in Message : Append(turn, x)[Len(Append(turn, x))] = x  OBVIOUS
<1>3. "denied" \in Message /\ "note" \in Message  BY DEF Message
<1>4. Count(kind) \in Nat  BY <1>1, OccurrencesFinite
<1>5. turn' = turn => Count(kind)' = Count(kind)  BY <1>1
<1>6. ASSUME NEW x \in Message, turn' = Append(turn, x)
      PROVE  /\ Count(kind)' = Count(kind) + (IF x = kind THEN 1 ELSE 0)
             /\ turn'[Len(turn')] = x
  BY <1>1, <1>2, <1>6, OccurrencesAppend
<1>7. ASSUME turn' = turn \o <<"denied", "note">>
      PROVE  Count(kind)' = Count(kind) + (IF "denied" = kind THEN 1 ELSE 0)
                              + (IF "note" = kind THEN 1 ELSE 0)
  BY <1>1, <1>3, <1>7, OccurrencesTwo
<1> QED  BY <1>4, <1>5, <1>6, <1>7

LEMMA CountsStart ==
  ASSUME StartTurn
  PROVE  Count("denied")' = 0 /\ Count("final")' = 0
<1>1. turn' = <<"user">>  BY DEF StartTurn
<1>2. /\ Count("denied")' = Cardinality(Occurrences(<<"user">>, "denied"))
      /\ Count("final")' = Cardinality(Occurrences(<<"user">>, "final"))
  BY <1>1 DEF Count, Occurrences
<1> QED  BY <1>2, OccurrencesOne DEF Message

LEMMA CountsInit == Init => Count("denied") = 0 /\ Count("final") = 0
<1> SUFFICES ASSUME Init PROVE Count("denied") = 0 /\ Count("final") = 0  OBVIOUS
<1>1. \A kind : {i \in 1..Len(turn) : turn[i] = kind} = {}  BY DEF Init
<1> QED  BY <1>1, FS_EmptySet DEF Count

LEMMA DenialsStep ==
  ASSUME TypeOK, Denials, [Next]_vars
  PROVE  Denials'
<1>0. turn \in Seq(Message) /\ Count("denied") \in Nat  BY CountStep DEF TypeOK
<1>1. CASE StartTurn  BY <1>1, CountsStart DEF Denials
<1>2. CASE Finish
  <2>1. phase' = "idle" /\ (turn' = turn \/ turn' = Append(turn, "final"))
    BY <1>2 DEF Finish
  <2>2. Count("denied")' = Count("denied")  BY <1>0, <2>1, CountStep DEF Message
  <2> QED  BY <2>1, <2>2 DEF Denials, InLoop
<1>3. CASE WrapUpSignal \/ Ask \/ Answer
  <2>1. /\ InLoop /\ phase' \in {"head", "asking", "ending"}
        /\ Nothing \/ Called \/ DeniedOnce \/ DeniedAgain \/ Answered
    BY <1>3, Shape
  <2>2. CASE Nothing
    BY <1>0, <2>1, <2>2, CountStep DEF Nothing, Denials
  <2>3. CASE Called
    <3>1. Count("denied")' = Count("denied")
      BY <1>0, <2>3, CountStep DEF Called, Message
    <3> QED  BY <1>0, <2>1, <2>3, <3>1 DEF Called, Denials
  <2>4. CASE DeniedOnce
    <3>1. Count("denied")' = Count("denied") + 1  BY <1>0, <2>4, CountStep DEF DeniedOnce
    <3> QED  BY <1>0, <2>1, <2>4, <3>1 DEF DeniedOnce, Denials
  <2>5. CASE DeniedAgain
    <3>1. Count("denied")' = Count("denied") + 1
      BY <1>0, <2>5, CountStep DEF DeniedAgain, Message
    <3> QED  BY <1>0, <2>1, <2>5, <3>1 DEF DeniedAgain, Denials, InLoop
  <2>6. CASE Answered
    <3>1. Count("denied")' = Count("denied")
      BY <1>0, <2>6, CountStep DEF Answered, Message
    <3> QED  BY <1>0, <2>1, <2>6, <3>1 DEF Answered, Denials, InLoop
  <2> QED  BY <2>1, <2>2, <2>3, <2>4, <2>5, <2>6
<1>4. CASE UNCHANGED vars
  BY <1>0, <1>4, CountStep DEF vars, ctl, said, Denials, InLoop
<1> QED  BY <1>1, <1>2, <1>3, <1>4 DEF Next

LEMMA FinalsStep ==
  ASSUME TypeOK, Finals, [Next]_vars
  PROVE  Finals'
<1>0. turn \in Seq(Message) /\ Count("final") \in Nat  BY CountStep DEF TypeOK
<1>1. CASE StartTurn
  <2>1. phase' = "head" /\ recorded' = FALSE  BY <1>1 DEF StartTurn
  <2> QED  BY <1>1, <2>1, CountsStart DEF Finals, AnswerOnce, InLoop
<1>2. CASE Finish
  <2>1. /\ phase = "ending" /\ phase' = "idle" /\ ended' = ended
        /\ turn' = IF ended = "break" /\ ~recorded THEN Append(turn, "final") ELSE turn
    BY <1>2 DEF Finish
  <2>2. CASE ended = "break" /\ ~recorded
    <3>1. Count("final")' = Count("final") + 1 /\ turn'[Len(turn')] = "final"
      BY <1>0, <2>1, <2>2, CountStep DEF Message
    <3>2. Count("final") = 0  BY <2>1, <2>2 DEF Finals
    <3> QED  BY <2>1, <2>2, <3>1, <3>2 DEF Finals, AnswerOnce, InLoop
  <2>3. CASE ~(ended = "break" /\ ~recorded)
    <3>1. Count("final")' = Count("final") /\ turn' = turn
      BY <1>0, <2>1, <2>3, CountStep
    <3>2. recorded \in BOOLEAN  BY DEF TypeOK
    <3> QED  BY <2>1, <2>3, <3>1, <3>2 DEF Finals, AnswerOnce, InLoop
  <2> QED  BY <2>2, <2>3
<1>3. CASE WrapUpSignal \/ Ask \/ Answer
  <2>1. /\ InLoop /\ phase' \in {"head", "asking", "ending"}
        /\ Nothing \/ Called \/ DeniedOnce \/ DeniedAgain \/ Answered
    BY <1>3, Shape
  <2>2. ~recorded /\ Count("final") = 0  BY <2>1 DEF Finals
  <2>3. CASE Answered
    <3>1. Count("final")' = 1 /\ turn'[Len(turn')] = "final"
      BY <1>0, <2>2, <2>3, CountStep DEF Answered, Message
    <3> QED  BY <2>3, <3>1 DEF Answered, Finals, AnswerOnce, InLoop
  <2>4. CASE Nothing \/ Called \/ DeniedOnce \/ DeniedAgain
    <3>1. recorded' = recorded /\ phase' # "idle"
      BY <2>1, <2>4 DEF Nothing, Called, DeniedOnce, DeniedAgain
    <3>2. Count("final")' = 0
      BY <1>0, <2>2, <2>4, CountStep DEF Nothing, Called, DeniedOnce, DeniedAgain, Message
    <3> QED  BY <2>2, <3>1, <3>2 DEF Finals, AnswerOnce
  <2> QED  BY <2>1, <2>3, <2>4
<1>4. CASE UNCHANGED vars
  <2>1. Count("final")' = Count("final")  BY <1>0, <1>4, CountStep DEF vars, said
  <2> QED
    BY <1>4, <2>1 DEF vars, ctl, said, extra, Finals, AnswerOnce, InLoop
<1> QED  BY <1>1, <1>2, <1>3, <1>4 DEF Next

\* A turn has at most two calls of withdrawn tools (execute_tool_calls), whatever sends
\* it back to work in between: the note of the first is in the prompt until the turn ends.
THEOREM HandoffCorrect == Spec => []HandoffEnds
<1>1. Init => TypeOK /\ Budgets /\ Denials
  BY TypesInit, CountsInit DEF Init, Denials, InLoop
<1>2. TypeOK /\ Budgets /\ Denials /\ [Next]_vars => TypeOK' /\ Budgets' /\ Denials'
  BY TypesStep, DenialsStep
<1>3. Denials => HandoffEnds  BY DEF Denials, HandoffEnds
<1> QED  BY <1>1, <1>2, <1>3, PTL DEF Spec

\* A turn that ran to its end is left with exactly one final answer, its last message,
\* whether run_turn_body recorded it or finalize_turn; any other is left with none.
THEOREM AnswerCorrect == Spec => []AnswerOnce
<1>1. Init => TypeOK /\ Budgets /\ Finals
  <2> SUFFICES ASSUME Init PROVE Finals  BY TypesInit
  <2>1. phase = "idle" /\ turns = 0  BY DEF Init
  <2> QED  BY <2>1 DEF Finals, AnswerOnce, InLoop
<1>2. TypeOK /\ Budgets /\ Finals /\ [Next]_vars => TypeOK' /\ Budgets' /\ Finals'
  BY TypesStep, FinalsStep
<1>3. Finals => AnswerOnce  BY DEF Finals
<1> QED  BY <1>1, <1>2, <1>3, PTL DEF Spec

-----------------------------------------------------------------------------
(* The counters of retries.  While a turn goes on they are the lengths of  *)
(* the rows of answers; and a lowered max_tokens is known to be lowered,   *)
(* since a turn starts with the user's settings.                           *)

Lowered == /\ phase = "idle" => cli.halvings = 0
           /\ DowngradeIsTracked

Rows == /\ InLoop => /\ text = "none"
                     /\ retries.empty = IF row[1] = "empty" THEN row[2] ELSE 0
                     /\ retries.truncated = IF row[1] = "truncated" THEN row[2] ELSE 0
        /\ GivesUpForReason

LEMMA CalmLowers ==
  ASSUME TypeOK, Lowered, phase = "asking", Calm
  PROVE  /\ cli'.halvings = 0 /\ retries'.empty = 0 /\ retries'.truncated = 0
<1>1. cli \in Overrides /\ retries \in Retries  BY DEF TypeOK
<1>2. cli.halvings \in Nat /\ Restored.halvings = 0
  BY <1>1, LoopAssumption DEF Overrides, Restored
<1>3. ~downgraded => cli.halvings = 0
  BY <1>2 DEF Lowered, DowngradeIsTracked
<1>4. cli' = IF downgraded THEN Restored ELSE cli  BY DEF Calm
<1>5. retries'.empty = 0 /\ retries'.truncated = 0
  BY <1>1 DEF Calm, Retries
<1> QED  BY <1>2, <1>3, <1>4, <1>5

LEMMA LoweredStep ==
  ASSUME TypeOK, Lowered, [Next]_vars
  PROVE  Lowered'
<1>0. cli.halvings \in Nat  BY LoopAssumption DEF TypeOK, Overrides
<1>1. CASE StartTurn
  <2>1. cli'.halvings = 0 /\ phase' = "head"  BY <1>1 DEF StartTurn, Lowered
  <2> QED  BY <2>1 DEF Lowered, DowngradeIsTracked
<1>2. CASE Finish
  <2>1. phase' = "idle" /\ cli'.halvings = 0  BY <1>2 DEF Finish, Saved
  <2> QED  BY <2>1 DEF Lowered, DowngradeIsTracked
<1>3. CASE WrapUpSignal \/ Ask \/ WrapUpFinal
  <2>1. /\ phase \in {"head", "asking"} /\ phase' \in {"head", "asking"}
        /\ cli' = cli /\ downgraded' = downgraded /\ row' = row
    BY <1>3 DEF WrapUpSignal, Ask, WrapUpFinal, Restarts, tries
  <2> QED  BY <2>1 DEF Lowered, DowngradeIsTracked
<1>4. CASE Interrupted \/ RequestFails \/ RoundFails
  <2>1. phase' = "ending"
    BY <1>4 DEF Interrupted, RequestFails, RoundFails, Leaves, Breaks
  <2> QED  BY <2>1 DEF Lowered, DowngradeIsTracked
<1>5. CASE EmptyResponse
  <2>1. /\ phase = "asking" /\ phase' # "idle"
        /\ cli' = IF downgraded THEN Restored ELSE cli
    BY <1>5 DEF EmptyResponse, Answers, Breaks, Leaves, Continues
  <2>2. ~downgraded => cli.halvings = 0  BY <1>0, <2>1 DEF Lowered, DowngradeIsTracked
  <2>3. Restored.halvings = 0  BY DEF TypeOK, Overrides, Restored
  <2>4. cli'.halvings = 0  BY <2>1, <2>2, <2>3
  <2> QED  BY <2>1, <2>4 DEF Lowered, DowngradeIsTracked
<1>6. CASE StreamError
  <2>1. /\ phase = "asking" /\ phase' # "idle" /\ cli' = cli /\ downgraded' = downgraded
        /\ row'[1] = "stream"
    BY <1>6 DEF StreamError, Answers, Retried, Breaks, Leaves, Restarts
  <2> QED  BY <2>1 DEF Lowered, DowngradeIsTracked
<1>7. CASE Truncated
  <2>1. phase = "asking" /\ phase' # "idle" /\ row'[1] = "truncated"
    BY <1>7 DEF Truncated, Answers, Retried, Breaks, Leaves, Restarts
  <2>2. PICK nothing \in BOOLEAN :
          /\ downgraded' = nothing
          /\ cli'.halvings = IF ~nothing THEN (IF downgraded THEN 0 ELSE cli.halvings)
                             ELSE IF cli.halvings < MaxHalvings THEN cli.halvings + 1
                             ELSE cli.halvings
    BY <1>7 DEF Truncated
  <2>3. ~downgraded => cli.halvings = 0  BY <1>0, <2>1 DEF Lowered, DowngradeIsTracked
  <2>4. CASE nothing  BY <2>1, <2>2, <2>4 DEF Lowered, DowngradeIsTracked
  <2>5. CASE ~nothing
    <3>1. cli'.halvings = 0  BY <2>2, <2>3, <2>5
    <3> QED  BY <2>1, <3>1 DEF Lowered, DowngradeIsTracked
  <2> QED  BY <2>4, <2>5
<1>8. CASE FinalResponse \/ ToolCall
  <2>1. phase = "asking" /\ Calm /\ phase' # "idle"
    BY <1>8, Shape DEF FinalResponse, ToolCall, Answers, Answer
  <2>2. cli'.halvings = 0  BY <2>1, CalmLowers
  <2> QED  BY <2>1, <2>2 DEF Lowered, DowngradeIsTracked
<1>9. CASE UNCHANGED vars
  BY <1>9 DEF vars, ctl, tries, Lowered, DowngradeIsTracked
<1> QED
  BY <1>1, <1>2, <1>3, <1>4, <1>5, <1>6, <1>7, <1>8, <1>9 DEF Next, Answer

LEMMA RowsStep ==
  ASSUME TypeOK, Budgets, Lowered, Rows, [Next]_vars
  PROVE  Rows'
<1>0. /\ retries \in Retries /\ retries.empty \in Nat /\ retries.truncated \in Nat
      /\ row[2] \in Nat /\ MaxEmpty \in Nat /\ MaxTruncations \in Nat
  BY LoopAssumption DEF TypeOK, Retries
<1>1. CASE StartTurn
  BY <1>1 DEF StartTurn, NoRetries, Rows, GivesUpForReason
<1>2. CASE Finish
  BY <1>2 DEF Finish, Rows, GivesUpForReason, InLoop
<1>3. CASE WrapUpSignal \/ Ask \/ WrapUpFinal
  <2>1. /\ InLoop /\ retries' = retries /\ row' = row /\ text' = text
    BY <1>3 DEF WrapUpSignal, Ask, WrapUpFinal, Restarts, tries, said, InLoop
  <2> QED  BY <2>1 DEF Rows, GivesUpForReason
<1>4. CASE Interrupted \/ RequestFails \/ RoundFails
  <2>1. InLoop /\ phase' = "ending" /\ text' \in {text, "failed"}
    BY <1>4 DEF Interrupted, RequestFails, RoundFails, Answers, Leaves, Breaks, InLoop
  <2> QED  BY <2>1 DEF Rows, GivesUpForReason, InLoop
<1>5. CASE EmptyResponse
  <2> DEFINE n == retries.empty + 1
  <2>1. InLoop /\ row' = <<"empty", n>>
    BY <1>0, <1>5 DEF EmptyResponse, Answers, Retried, Rows, InLoop
  <2>2. retries' = [[retries EXCEPT !.empty = n] EXCEPT !.truncated = 0]
    BY <1>5 DEF EmptyResponse
  <2>3. n \in 0..(MaxEmpty + 1) /\ 0 \in 0..MaxTruncations
    BY <1>0, <2>1, LoopAssumption DEF Budgets
  <2>4. retries'.empty = n /\ retries'.truncated = 0
    BY <1>0, <2>2, <2>3, RetriesUpdate
  <2>5. CASE n > MaxEmpty
    <3>1. n = MaxEmpty + 1  BY <1>0, <2>3, <2>5
    <3>2. phase' = "ending" /\ text' = "empty"
      BY <1>5, <2>5 DEF EmptyResponse, Breaks, Leaves
    <3> QED  BY <2>1, <3>1, <3>2 DEF Rows, GivesUpForReason, InLoop
  <2>6. CASE ~(n > MaxEmpty)
    <3>1. text' = text  BY <1>5, <2>6 DEF EmptyResponse, Continues
    <3> QED  BY <2>1, <2>4, <3>1 DEF Rows, GivesUpForReason, InLoop
  <2> QED  BY <2>5, <2>6
<1>6. CASE StreamError
  <2>1. /\ InLoop /\ row'[1] = "stream"
        /\ retries'.empty = 0 /\ retries'.truncated = 0
    BY <1>6 DEF StreamError, Answers, Retried, InLoop
  <2>2. \/ phase' = "ending" /\ text' = "stream"
        \/ text' = text
    BY <1>6 DEF StreamError, Breaks, Leaves, Restarts
  <2> QED  BY <2>1, <2>2 DEF Rows, GivesUpForReason, InLoop
<1>7. CASE Truncated
  <2> DEFINE n == retries.truncated + 1
  <2>1. InLoop /\ row' = <<"truncated", n>>
    BY <1>0, <1>7 DEF Truncated, Answers, Retried, Rows, InLoop
  <2>2. retries'.empty = 0 /\ retries'.truncated = n  BY <1>7 DEF Truncated
  <2>3. n <= MaxTruncations  BY <1>0, <2>1 DEF Budgets
  <2>4. CASE n >= MaxTruncations
    <3>1. n = MaxTruncations  BY <1>0, <2>3, <2>4
    <3>2. phase' = "ending" /\ text' \in {"partial", "truncated"}
      BY <1>7, <2>4 DEF Truncated, Breaks, Leaves
    <3> QED  BY <2>1, <3>1, <3>2 DEF Rows, GivesUpForReason, InLoop
  <2>5. CASE ~(n >= MaxTruncations)
    <3>1. text' = text  BY <1>7, <2>5 DEF Truncated, Restarts
    <3> QED  BY <2>1, <2>2, <3>1 DEF Rows, GivesUpForReason, InLoop
  <2> QED  BY <2>4, <2>5
<1>8. CASE FinalResponse \/ ToolCall
  <2>1. phase = "asking" /\ Calm /\ row' = <<"none", 0>>
    BY <1>8 DEF FinalResponse, ToolCall, Answers, Retried
  <2>2. retries'.empty = 0 /\ retries'.truncated = 0  BY <2>1, CalmLowers
  <2>3. \/ text' = text
        \/ phase' = "ending" /\ text' \in {"thought only", "model", "refused"}
    <3>1. CASE FinalResponse
      BY <3>1 DEF FinalResponse, ReopensForTasks, Reopens, Record, Breaks, Leaves, Continues
    <3>2. CASE ToolCall
      BY <3>2 DEF ToolCall, Refuses, Preflight, Runs, Breaks, Leaves, Continues, Restarts
    <3> QED  BY <1>8, <3>1, <3>2
  <2> QED  BY <2>1, <2>2, <2>3 DEF Rows, GivesUpForReason, InLoop
<1>9. CASE UNCHANGED vars
  BY <1>9 DEF vars, ctl, tries, said, Rows, GivesUpForReason, InLoop
<1> QED
  BY <1>1, <1>2, <1>3, <1>4, <1>5, <1>6, <1>7, <1>8, <1>9 DEF Next, Answer

LEMMA CountersInvariant == Spec => [](TypeOK /\ Budgets /\ Lowered /\ Rows)
<1>1. Init => TypeOK /\ Budgets /\ Lowered /\ Rows
  <2> SUFFICES ASSUME Init PROVE Lowered /\ Rows  BY TypesInit
  <2> QED
    BY DEF Init, Saved, NoRetries, Lowered, DowngradeIsTracked, Rows, GivesUpForReason, InLoop
<1>2. TypeOK /\ Budgets /\ Lowered /\ Rows /\ [Next]_vars
        => TypeOK' /\ Budgets' /\ Lowered' /\ Rows'
  BY TypesStep, LoweredStep, RowsStep
<1> QED  BY <1>1, <1>2, PTL DEF Spec

\* The max_tokens that run_turn_body lowered is still lowered only in a row of answers
\* that were cut off, and then it knows that it has to restore it.
THEOREM DowngradeCorrect == Spec => []DowngradeIsTracked
<1>1. Lowered => DowngradeIsTracked  BY DEF Lowered
<1> QED  BY <1>1, CountersInvariant, PTL

\* A turn is given up for empty or for truncated answers only after exactly as many of
\* them in a row as the limit says.
THEOREM GiveUpCorrect == Spec => []GivesUpForReason
<1>1. Rows => GivesUpForReason  BY DEF Rows
<1> QED  BY <1>1, CountersInvariant, PTL

=============================================================================
