---------------------------- MODULE DrainVerdict ----------------------------
(***************************************************************************)
(* How the drain of a soak wave may end. The list it returns says nothing  *)
(* is left only if nothing is, provided every source answered and none of  *)
(* the run's creates was still on its way.                                 *)
(***************************************************************************)

DrainOutcome ==
  [ own    : BOOLEAN,    \* the list it returns names something
    unread : BOOLEAN,    \* ghost: a source did not answer its last census
    flying : BOOLEAN,    \* ghost: a create was still on its way when it began
    left   : BOOLEAN ]   \* ghost: something of the run is left

DrainOutcomes ==
  { o \in DrainOutcome : ~o.own /\ ~o.unread /\ ~o.flying => ~o.left }
=============================================================================
