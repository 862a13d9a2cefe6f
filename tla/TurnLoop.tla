------------------------------ MODULE TurnLoop ------------------------------
(***************************************************************************)
(* One turn of the agent (src/bin/ai/driver/turn_runtime): the loop that   *)
(* asks the model, retries answers that are empty, cut off or interrupted, *)
(* runs the tools the model calls, and sends a final answer back for more  *)
(* work or records it.  The model's answers and what the tools do are      *)
(* nondeterministic; the loop's own rules are not.                         *)
(***************************************************************************)
EXTENDS Naturals, Sequences, FiniteSets

CONSTANTS MaxIterations,   \* agent_context.max_iterations
          MaxEmpty,        \* empty answers in a row that are retried (5)
          MaxStreamErrors, \* MAX_STREAM_ERROR_RETRIES (16)
          MaxTruncations,  \* MAX_MODEL_TRUNCATION_RETRIES (3)
          MaxGrace,        \* MAX_SCOPED_PREFLIGHT_GRACE_ROUNDS (8)
          MaxHalvings,     \* how often max_tokens can be halved before its floor
          MaxTurns         \* bound on the turns of the session

ASSUME LoopAssumption ==
  /\ MaxIterations \in Nat \ {0} /\ MaxEmpty \in Nat /\ MaxStreamErrors \in Nat
  /\ MaxTruncations \in Nat \ {0} /\ MaxGrace \in Nat /\ MaxHalvings \in Nat \ {0}
  /\ MaxTurns \in Nat \ {0}

\* Notes that are put into the prompt once.
Marker == {"reasoning", "limit", "evidence", "dangling", "no-tool"}

\* Messages of a turn: tool calls that ran, were refused, or came although tools were
\* withdrawn, and the note on the latter.
Message == {"user", "calls", "refused", "denied", "note", "final"}

VARIABLES
  phase,      \* idle, head, asking, ending
  iteration,  \* supervisor.iteration, counted up to Ceiling
  grace,      \* scoped_preflight_grace_rounds
  force,      \* force_final_response
  wrapUp,     \* the parent's wrap-up signal
  retries,    \* the three counters of answers that were retried
  cli,        \* the overrides of app.cli: effort, thinking, max_tokens
  downgraded, \* mt_downgraded
  effortHelps,\* reasoning_effort_reduces_thinking of the model
  notes,      \* the markers in the prompt
  turn,       \* turn_messages, as kinds of messages
  persisted,  \* persisted_turn_messages
  text,       \* final_assistant_text: what it says
  recorded,   \* final_assistant_recorded
  ended,      \* how the loop was left
  carried,    \* the history of earlier turns holds a no-tool retry note
  row,        \* history: the last answers, if they are retried: their kind, how many
  turns       \* turns so far

ctl   == <<phase, iteration, grace, force, wrapUp>>
tries == <<retries, cli, downgraded>>
said  == <<turn, persisted, text, recorded, ended>>
extra == <<effortHelps, carried, turns>>
vars  == <<ctl, tries, notes, said, extra, row>>

Ceiling == MaxIterations + MaxGrace
EffectiveMax == MaxIterations + grace

Retries == [empty : 0..(MaxEmpty + 1), truncated : 0..MaxTruncations,
            stream : 0..(MaxStreamErrors + 1)]
Overrides == [effort : {"saved", "low", "none", "disabled"}, thinkingOff : BOOLEAN,
              halvings : 0..MaxHalvings]

Saved == [effort |-> "saved", thinkingOff |-> FALSE, halvings |-> 0]
NoRetries == [empty |-> 0, truncated |-> 0, stream |-> 0]

Init == /\ phase = "idle" /\ iteration = 0 /\ grace = 0 /\ force = FALSE /\ wrapUp = "no"
        /\ retries = NoRetries /\ cli = Saved /\ downgraded = FALSE
        /\ effortHelps \in BOOLEAN
        /\ notes = {} /\ turn = <<>> /\ persisted = 0
        /\ text = "none" /\ recorded = FALSE /\ ended = "no"
        /\ carried = FALSE /\ row = <<"none", 0>> /\ turns = 0

Holds(kind) == \E i \in 1..Len(turn) : turn[i] = kind
Count(kind) == Cardinality({i \in 1..Len(turn) : turn[i] = kind})

\* persist_pending_turn_messages: a failed append is tried again with the next.
Persists(t) == persisted' \in {persisted, Len(t)}

\* prepare_turn and the locals of run_turn_body.  The history an earlier turn left
\* is part of the prompt, the retry note of a no-tool handoff included.
StartTurn ==
  /\ phase = "idle" /\ turns < MaxTurns
  /\ phase' = "head" /\ turns' = turns + 1
  /\ iteration' = 0 /\ grace' = 0 /\ force' = FALSE /\ wrapUp' = "no"
  /\ retries' = NoRetries /\ downgraded' = FALSE
  /\ notes' = IF carried THEN {"no-tool"} ELSE {}
  /\ turn' = <<"user">> /\ persisted' \in {0, 1}
  /\ text' = "none" /\ recorded' = FALSE /\ ended' = "no"
  /\ row' = <<"none", 0>>
  /\ UNCHANGED <<cli, effortHelps, carried>>

\* The parent of a sub-agent asks it to come to an end before its time is over.
WrapUpSignal == /\ phase \in {"head", "asking"} /\ wrapUp = "no"
                /\ wrapUp' = "sent"
                /\ UNCHANGED <<phase, iteration, grace, force, tries, notes, said, extra,
                               row>>

\* The head of the loop, up to the request.
Ask == /\ phase = "head"
       /\ phase' = "asking"
       /\ iteration' = IF iteration < Ceiling THEN iteration + 1 ELSE iteration
       /\ force' = (force \/ wrapUp = "sent")
       /\ wrapUp' = IF wrapUp = "sent" THEN "taken" ELSE wrapUp
       /\ UNCHANGED <<grace, tries, notes, said, extra, row>>

-----------------------------------------------------------------------------
(* Where the loop goes after an answer.                                    *)

Leaves(how) == phase' = "ending" /\ ended' = how
Breaks(what) == Leaves("break") /\ text' = what

\* TurnLoopStep::Continue, force being f so far.  A hard signal of the supervisor
\* ends tool use, unless that has happened already.
Continues(f) == /\ phase' = "head"
                /\ force' \in IF f THEN {TRUE} ELSE BOOLEAN
                /\ UNCHANGED <<ended, text>>

\* continue 'turn, and Continue after a truncation, whose round is not looked at.
Restarts(f) == phase' = "head" /\ force' = f /\ UNCHANGED <<ended, text>>

Retried == {"empty", "truncated", "stream"}

Answers(kind) ==
  /\ phase = "asking"
  /\ row' = IF kind \notin Retried THEN <<"none", 0>>
            ELSE IF row[1] = kind THEN <<kind, row[2] + 1>> ELSE <<kind, 1>>

Restored == [cli EXCEPT !.halvings = 0]

\* Mutant: the limit of max_tokens stays lowered after an answer that was not cut off.
CalmStaysLow ==
  /\ retries' = [retries EXCEPT !.empty = 0, !.truncated = 0]
  /\ downgraded' = FALSE /\ UNCHANGED cli

\* An answer that is neither empty nor truncated ends those rows and gives max_tokens
\* back; stream errors stay counted.
Calm == /\ retries' = [retries EXCEPT !.empty = 0, !.truncated = 0]
        /\ cli' = IF downgraded THEN Restored ELSE cli
        /\ downgraded' = FALSE

-----------------------------------------------------------------------------
(* The answers.                                                            *)

\* Interrupted by the user or by a shutdown.
Interrupted == /\ phase = "asking"
               /\ Calm /\ Leaves("return") /\ Persists(turn)
               /\ UNCHANGED <<iteration, grace, force, wrapUp, notes, turn, text,
                              recorded, extra, row>>

\* The request is given up for the parent's signal.
WrapUpFinal == /\ phase = "asking" /\ wrapUp = "sent"
               /\ wrapUp' = "taken" /\ Restarts(TRUE)
               /\ UNCHANGED <<iteration, grace, tries, notes, turn, persisted, recorded,
                              extra, row>>

\* A request that fails for good: a foreground turn says so, a sub-agent's fails.
RequestFails ==
  /\ Answers("failed")
  /\ \/ Calm /\ Breaks("failed") /\ Persists(turn)
     \/ Leaves("error") /\ UNCHANGED <<tries, text, persisted>>
  /\ UNCHANGED <<iteration, grace, force, wrapUp, notes, turn, recorded, extra>>

\* Mutant: the row of empty answers is not ended by other answers.
EmptyGivesUpLate ==
  /\ Answers("empty")
  /\ retries' = [retries EXCEPT !.empty = @ + 1]
  /\ UNCHANGED <<cli, downgraded>>
  /\ IF retries.empty + 1 > MaxEmpty THEN Breaks("empty") /\ UNCHANGED force
     ELSE Continues(force)
  /\ UNCHANGED <<iteration, grace, wrapUp, notes, turn, persisted, recorded, extra>>

EmptyResponse ==
  /\ Answers("empty")
  /\ retries' = [retries EXCEPT !.empty = @ + 1, !.truncated = 0]
  /\ cli' = IF downgraded THEN Restored ELSE cli
  /\ downgraded' = FALSE
  /\ IF retries.empty + 1 > MaxEmpty THEN Breaks("empty") /\ UNCHANGED force
     ELSE Continues(force)
  /\ UNCHANGED <<iteration, grace, wrapUp, notes, turn, persisted, recorded, extra>>

StreamError ==
  /\ Answers("stream")
  /\ retries' = [empty |-> 0, truncated |-> 0, stream |-> retries.stream + 1]
  /\ IF retries.stream + 1 > MaxStreamErrors THEN Breaks("stream") /\ UNCHANGED force
     ELSE Restarts(force)
  /\ UNCHANGED <<iteration, grace, wrapUp, cli, downgraded, notes, turn, persisted,
                 recorded, extra>>

Effort(n) == CASE n = 1 -> "low" [] n = 2 -> "none" [] OTHER -> "disabled"

\* An answer that hit the output limit.  One without any output is taken for a
\* max_tokens the server refuses, which is then halved.
Truncated ==
  LET n == retries.truncated + 1
  IN  /\ Answers("truncated")
      /\ retries' = [empty |-> 0, truncated |-> n, stream |-> 0]
      /\ \E nothing \in BOOLEAN :
           /\ downgraded' = nothing
           /\ cli' = [effort |-> IF effortHelps THEN Effort(n) ELSE cli.effort,
                      thinkingOff |-> cli.thinkingOff \/ ~effortHelps \/ n >= MaxTruncations,
                      halvings |-> IF ~nothing THEN (IF downgraded THEN 0 ELSE cli.halvings)
                                   ELSE IF cli.halvings < MaxHalvings THEN cli.halvings + 1
                                   ELSE cli.halvings]
      /\ IF n >= MaxTruncations
         THEN (\E what \in {"partial", "truncated"} : Breaks(what)) /\ UNCHANGED force
         ELSE Restarts(force)
      /\ UNCHANGED <<iteration, grace, wrapUp, notes, turn, persisted, recorded, extra>>

\* A final answer that is sent back.
Reopens(marker, f) == /\ marker \notin notes
                      /\ notes' = notes \cup {marker}
                      /\ Continues(f)
                      /\ UNCHANGED <<turn, recorded>>

\* Mutant: tasks are waited for whatever the iteration.
ReopensForTasksAlways == Continues(FALSE) /\ UNCHANGED <<notes, turn, recorded>>

\* Tasks that are still out, or results that were not integrated.
ReopensForTasks == /\ iteration < EffectiveMax
                   /\ Continues(FALSE)
                   /\ UNCHANGED <<notes, turn, recorded>>

\* Mutant: the answer is pushed, but not noted as recorded.
RecordForgets == /\ turn' = Append(turn, "final")
                 /\ Breaks("model")
                 /\ UNCHANGED <<force, notes, recorded>>

\* record_final_stream_response, after the gates let the answer pass.
Record == /\ turn' = Append(turn, "final") /\ recorded' = TRUE
          /\ Breaks("model")
          /\ UNCHANGED <<force, notes>>

HadCalls == \E kind \in {"calls", "refused", "denied"} : Holds(kind)

\* The gates in their order: outstanding tasks and unread evidence, an answer that is
\* only thought, a limit nobody set, changes nobody verified, a mere announcement.
FinalResponse ==
  /\ Answers("final") /\ Calm
  /\ \/ ReopensForTasks
     \/ Reopens("reasoning", force)
     \/ "reasoning" \in notes /\ Breaks("thought only") /\ UNCHANGED <<force, notes, turn, recorded>>
     \/ ~force /\ iteration < EffectiveMax /\ Reopens("limit", FALSE)
     \/ ~force /\ iteration < EffectiveMax /\ Holds("calls") /\ Reopens("evidence", FALSE)
     \/ HadCalls /\ Reopens("dangling", TRUE)
     \/ Record
  /\ UNCHANGED <<iteration, grace, wrapUp, persisted, extra>>

\* Mutant: the note of the refusal is forgotten.
RefusesAgain == /\ force
                /\ turn' = turn \o <<"denied", "note">>
                /\ persisted' \in {persisted, Len(turn) + 1}
                /\ Continues(TRUE)
                /\ UNCHANGED <<notes, grace>>

\* Tools are called although they were withdrawn: once this is answered with a note,
\* which is part of the turn, the second time the turn ends.
Refuses ==
  /\ force
  /\ IF "no-tool" \notin notes
     THEN /\ turn' = turn \o <<"denied", "note">>
          /\ persisted' \in {persisted, Len(turn) + 1}
          /\ notes' = notes \cup {"no-tool"}
          /\ Continues(TRUE)
     ELSE /\ turn' = Append(turn, "denied") /\ Persists(turn')
          /\ Breaks("refused")
          /\ UNCHANGED <<force, notes>>
  /\ UNCHANGED grace

\* Mutant: there is always another round on the house.
PreflightAlways ==
  /\ ~force
  /\ turn' = Append(turn, "refused") /\ Persists(turn')
  /\ grace' = grace + 1 /\ Restarts(FALSE)
  /\ UNCHANGED notes

\* The instructions of a directory have to be read first: a round on the house, as long
\* as there is one.
Preflight ==
  /\ ~force
  /\ turn' = Append(turn, "refused") /\ Persists(turn')
  /\ IF grace < MaxGrace THEN grace' = grace + 1 /\ Restarts(FALSE)
     ELSE Restarts(TRUE) /\ UNCHANGED grace
  /\ UNCHANGED notes

\* The tools run, or are refused for a stale patch.  At the limit of iterations, or of
\* the kernel's quota, this was the last round with tools.
Runs ==
  /\ ~force
  /\ \E kind \in {"calls", "refused"} : turn' = Append(turn, kind)
  /\ Persists(turn')
  /\ \/ Leaves("return") /\ UNCHANGED <<force, text>>
     \/ iteration >= EffectiveMax /\ Continues(TRUE)
     \/ iteration < EffectiveMax /\ \E quota \in BOOLEAN : Continues(quota)
  /\ UNCHANGED <<grace, notes>>

ToolCall == /\ Answers("tools") /\ Calm
            /\ Refuses \/ Preflight \/ Runs
            /\ UNCHANGED <<iteration, wrapUp, recorded, extra>>

\* execute_tool_calls fails, or draining the response does.
RoundFails == /\ Answers("failed")
              /\ Leaves("error")
              /\ UNCHANGED <<iteration, grace, force, wrapUp, tries, notes, turn, persisted,
                             text, recorded, extra>>

\* The end of run_turn_body: the overrides are given back, and finalize_turn records the
\* answer unless that was done, and saves it.
Finish ==
  /\ phase = "ending" /\ phase' = "idle"
  /\ cli' = Saved
  /\ turn' = IF ended = "break" /\ ~recorded THEN Append(turn, "final") ELSE turn
  /\ IF ended = "break" THEN Persists(turn') ELSE UNCHANGED persisted
  /\ carried' = (carried \/ \E i \in 1..persisted' : turn'[i] = "note")
  /\ UNCHANGED <<iteration, grace, force, wrapUp, retries, downgraded, notes, text,
                 recorded, ended, effortHelps, turns, row>>

Answer == \/ Interrupted \/ WrapUpFinal \/ RequestFails \/ RoundFails
          \/ EmptyResponse \/ StreamError \/ Truncated \/ FinalResponse \/ ToolCall

Next == StartTurn \/ WrapUpSignal \/ Ask \/ Answer \/ Finish

Spec == Init /\ [][Next]_vars

\* The loop does not stop by itself, and a request has an end: the HTTP client and the
\* stream give it a timeout.
FairSpec == Spec /\ WF_vars(Ask) /\ WF_vars(Answer) /\ WF_vars(Finish)

-----------------------------------------------------------------------------
\* Types.
TypeOK ==
  /\ phase \in {"idle", "head", "asking", "ending"}
  /\ iteration \in 0..Ceiling /\ grace \in 0..MaxGrace
  /\ force \in BOOLEAN /\ wrapUp \in {"no", "sent", "taken"}
  /\ retries \in Retries /\ cli \in Overrides
  /\ downgraded \in BOOLEAN /\ effortHelps \in BOOLEAN /\ notes \subseteq Marker
  /\ turn \in Seq(Message) /\ persisted \in 0..Len(turn) /\ turns \in 0..MaxTurns
  /\ row \in (Retried \cup {"none"}) \X Nat
  /\ recorded \in BOOLEAN /\ ended \in {"no", "break", "return", "error"}
  /\ (ended = "no" <=> phase \in {"head", "asking"} \/ turns = 0)
  /\ (turns = 0 => phase = "idle")

\* max_tokens is lowered for the next request only while the answers are cut off: one
\* that is not gives it back, and until then the loop knows that it has to.
DowngradeIsTracked ==
  cli.halvings > 0 /\ phase \in {"head", "asking"} =>
    downgraded /\ row[1] \in {"truncated", "stream"}

\* A turn that is given up for empty or truncated answers had that many of them in a
\* row, and nothing else between.
GivesUpForReason ==
  /\ text = "empty" => row = <<"empty", MaxEmpty + 1>>
  /\ text \in {"partial", "truncated"} => row = <<"truncated", MaxTruncations>>

\* A turn that ran to its end has exactly one final answer, as its last message; one
\* that was interrupted, parked or failed has none.
AnswerOnce ==
  phase = "idle" /\ turns > 0 =>
    IF ended = "break" THEN Count("final") = 1 /\ turn[Len(turn)] = "final"
    ELSE Count("final") = 0

\* Tools that were withdrawn are called at most twice, even if the turn was sent back to
\* work in between.
HandoffEnds == Count("denied") <= 2

\* A turn ends, unless the model keeps alternating between two kinds of answers that are
\* retried: each kind by itself is given up, tools and final answers run into the limits.
TurnEnds == (\E kind \in Retried : <>[](row[1] \notin Retried \ {kind}))
              => []<>(phase = "idle")

=============================================================================
