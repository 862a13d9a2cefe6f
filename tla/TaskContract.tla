---------------------------- MODULE TaskContract ----------------------------
(***************************************************************************)
(* What the sub-agent task protocol (src/bin/ai/tools/task_tools.rs)       *)
(* promises, whoever publishes, cancels, reaps or collects and in whatever *)
(* order: the result of a task is decided once, what is delivered is what  *)
(* was decided, and it is delivered once.  Module TaskPipe implements it.  *)
(***************************************************************************)
CONSTANTS Task,    \* the tasks
          Status,  \* the terminal statuses of a task
          NoStatus \* not one of them

VARIABLES phase,   \* where a task is in its life
          result   \* how it ended, once that is decided

vars == <<phase, result>>

Phase == {"new", "running", "ended", "delivered", "discarded"}

TypeOK == /\ phase \in [Task -> Phase]
          /\ result \in [Task -> Status \cup {NoStatus}]

Init == /\ phase = [t \in Task |-> "new"]
        /\ result = [t \in Task |-> NoStatus]

(* One call may decide, deliver or discard several tasks.  Each of them    *)
(* makes one of these moves.                                               *)
Stays(t) == phase'[t] = phase[t] /\ result'[t] = result[t]

Starts(t) == /\ phase[t] = "new" /\ phase'[t] = "running"
             /\ result'[t] = NoStatus

Ends(t) == /\ phase[t] = "running" /\ phase'[t] = "ended"
           /\ result'[t] \in Status

\* A result that was decided before, or in the very call that delivers it.
Delivered(t) == /\ phase'[t] = "delivered"
                /\ \/ phase[t] = "ended" /\ result'[t] = result[t]
                   \/ phase[t] = "running" /\ result'[t] \in Status

Discarded(t) == /\ phase[t] \in {"running", "ended"} /\ phase'[t] = "discarded"
                /\ result'[t] = NoStatus

Moves(t) == Stays(t) \/ Starts(t) \/ Ends(t) \/ Delivered(t) \/ Discarded(t)

Next == /\ \A t \in Task : Moves(t)
        /\ phase' = [t \in Task |-> phase'[t]]
        /\ result' = [t \in Task |-> result'[t]]

Spec == Init /\ [][Next]_vars

=============================================================================
