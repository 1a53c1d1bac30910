---------------------------- MODULE AttemptSpec ----------------------------
(***************************************************************************)
(* What an attempt promises the retry loop: it runs, and then ends, once,  *)
(* in an outcome of the contract. TurboRun's AttemptEnds is its step.      *)
(***************************************************************************)
EXTENDS AttemptOutcome

VARIABLES running, outcome

Unknown == [kinds |-> {}, passed |-> FALSE, verified |-> FALSE,
            infra |-> FALSE, left |-> FALSE, corrupt |-> FALSE]

Init == running = TRUE /\ outcome = Unknown

End == /\ running = TRUE
       /\ running' = FALSE
       /\ outcome' \in AttemptOutcomes

\* (That it ends is TurboAttempt's Terminates.)
Spec == Init /\ [][End]_<<running, outcome>>
=============================================================================
