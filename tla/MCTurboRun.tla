----------------------------- MODULE MCTurboRun -----------------------------
(***************************************************************************)
(* An instance of Turbomode for TLC: the preset of a day, and the observer *)
(* of two Pods.                                                            *)
(***************************************************************************)
EXTENDS Turbomode

BothProfiles == <<"sleep", "sqlite">>

Ends(k, v, i, l, c) ==
  [kinds |-> k, passed |-> k = {}, verified |-> v, infra |-> i, left |-> l, corrupt |-> c]

\* One outcome of each class the driver or a property tells apart.
Representatives ==
  { Ends({}, TRUE, FALSE, FALSE, FALSE),
    Ends({"transient"}, TRUE, FALSE, FALSE, FALSE),
    Ends({"transient"}, TRUE, TRUE, FALSE, FALSE),
    Ends({"error"}, TRUE, TRUE, FALSE, FALSE),
    Ends({"integrity"}, TRUE, FALSE, FALSE, TRUE),
    Ends({"transient", "integrity"}, TRUE, FALSE, FALSE, TRUE),
    Ends({"transient", "cleanup"}, FALSE, FALSE, TRUE, FALSE),
    Ends({"error", "cleanup"}, FALSE, TRUE, FALSE, FALSE) }

DayPreflight == {40, 500}
DayAttempts == {60, 300, 480}
=============================================================================
