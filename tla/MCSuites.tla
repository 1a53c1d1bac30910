------------------------------ MODULE MCSuites ------------------------------
(***************************************************************************)
(* Instances of Suites for TLC. What the bounds are is in the .cfg files.  *)
(***************************************************************************)
EXTENDS Suites
=============================================================================
