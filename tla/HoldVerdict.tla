---------------------------- MODULE HoldVerdict ----------------------------
(***************************************************************************)
(* How the ramp and hold of a soak wave may end. What did not fail was     *)
(* measured, and a create that was given up on is told: by a failure, or   *)
(* by a line.                                                              *)
(***************************************************************************)
EXTENDS Naturals

CONSTANT None   \* Rust's None: a source not read, a latency not measured

Hold ==
  [ failed : BOOLEAN,                    \* some VM or Deployment failed
    line   : {"pass", "fail", "infra"},  \* the worst line of its steps
    start  : Nat \cup {None},            \* the median start latency
    flying : BOOLEAN ]                   \* ghost: a create may still land

HonestHolds ==
  { h \in Hold : /\ ~h.failed => h.start # None
                 /\ h.flying => h.failed \/ h.line # "pass" }
=============================================================================
