--------------------------- MODULE AttemptOutcome ---------------------------
(***************************************************************************)
(* What one turbomode attempt (turbomode.rs `attempt`) hands to the retry  *)
(* loop that called it: the kinds of its failures, whether its cleanup was *)
(* verified, and - as ghosts, which the program does not see - what it     *)
(* really left behind.                                                     *)
(*                                                                         *)
(* This module is the contract between TurboRun, which lets an attempt end *)
(* in any outcome of the contract, and TurboAttempt, which models the      *)
(* attempt itself and is checked to end only in such outcomes.             *)
(***************************************************************************)
EXTENDS FiniteSets

\* The five failure kinds.
Kinds == {"transient", "integrity", "storage", "cleanup", "error"}

Outcome ==
  [ kinds    : SUBSET Kinds,   \* kinds of the failures it recorded
    passed   : BOOLEAN,        \* its report's "passed"
    verified : BOOLEAN,        \* its report's "cleanup_verified"
    infra    : BOOLEAN,        \* ghost: the retry helper gave up in every failure
    left     : BOOLEAN,        \* ghost: something of it is still in the cluster
    corrupt  : BOOLEAN ]       \* ghost: the data or the image it used was damaged

\* The contract. An attempt passes exactly when it recorded no failure; a
\* verified cleanup left nothing; a cleanup not verified is itself a recorded
\* failure; damage is recorded as an integrity failure.
AttemptOutcomes ==
  { o \in Outcome :
      /\ o.passed <=> (o.kinds = {})
      /\ o.passed => o.verified
      /\ o.verified => ~o.left
      /\ ~o.verified => o.kinds \cap {"cleanup", "storage"} # {}
      /\ o.corrupt => "integrity" \in o.kinds /\ ~o.infra
      /\ o.infra => o.kinds # {} }

\* Only a failure that left nothing behind and is transient throughout may be
\* followed by another attempt.
RetryableOnAnyTransient(o) == ~o.passed /\ o.verified /\ "transient" \in o.kinds

Retryable(o) ==
  /\ ~o.passed
  /\ o.verified
  /\ o.kinds # {}
  /\ o.kinds \subseteq {"transient"}
=============================================================================
