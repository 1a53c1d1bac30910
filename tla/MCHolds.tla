------------------------------- MODULE MCHolds -------------------------------
(***************************************************************************)
(* Values of Holds for TLC.                                                *)
(***************************************************************************)
EXTENDS Holds, TLC

CONSTANTS a1, a2, v1, v2

TwoApps == {a1, a2}
OneVm == {v1}
TwoVms == {v1, v2}

\* A VM wave's VMs and a container wave's Deployments are interchangeable.
Symmetry == Permutations(TwoApps) \cup Permutations(TwoVms)
=============================================================================
