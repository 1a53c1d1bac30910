--------------------------- MODULE MCTurboAttempt ---------------------------
(***************************************************************************)
(* Instances of TurboAttempts for TLC: two creates at once and two faults, *)
(* or one and one with late commits.                                       *)
(***************************************************************************)
EXTENDS TurboAttempts

CONSTANTS i1, i2

TwoItems == {i1, i2}
BothProfiles == {"sleep", "sqlite"}
SqliteOnly == {"sqlite"}
=============================================================================
