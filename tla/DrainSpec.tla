----------------------------- MODULE DrainSpec -----------------------------
(***************************************************************************)
(* What the drain of a soak wave promises run_wave (long.rs): it runs, and *)
(* ends once, in one of the outcomes of DrainVerdict.                      *)
(***************************************************************************)
EXTENDS DrainVerdict

VARIABLES running, outcome

Undrained == [own |-> FALSE, unread |-> FALSE, flying |-> FALSE, left |-> TRUE]

Init == running = TRUE /\ outcome = Undrained

End == /\ running = TRUE
       /\ running' = FALSE
       /\ outcome' \in DrainOutcomes

Spec == Init /\ [][End]_<<running, outcome>>
=============================================================================
