---------------------------- MODULE TurboAttempts ----------------------------
(***************************************************************************)
(* An attempt of one of two kinds, chosen at the start: an early one,      *)
(* whose POSTs are committed when they are answered or never, and a late   *)
(* one, where they may be committed after the client gave up on them. Of a *)
(* late one the contract and a pass promise nothing.                       *)
(***************************************************************************)
EXTENDS TurboAttempt

CONSTANTS LateConcurrency, LateFaults  \* of the late ones

ASSUME EarlyAssumption == ~LateCommits

VARIABLE part  \* early | late

Late == INSTANCE TurboAttempt WITH
  Concurrency <- LateConcurrency, Faults <- LateFaults, LateCommits <- TRUE

AttemptsInit ==
  \/ part = "early" /\ Init
  \/ part = "late" /\ Late!Init

AttemptsNext ==
  /\ UNCHANGED part
  /\ \/ part = "early" /\ Next
     \/ part = "late" /\ Late!Next

AttemptsSpec ==
  /\ AttemptsInit /\ [][AttemptsNext]_<<vars, part>>
  /\ WF_<<vars, part>>(part = "early" /\ Driver /\ UNCHANGED part)
  /\ WF_<<vars, part>>(part = "late" /\ Late!Driver /\ UNCHANGED part)

\* A pass is proof, and what was lost is cleaned, without late commits.
EarlyIsProof == part = "early" => PassIsProof /\ LostAcksAreCleaned

\* So is the contract implemented: of a late one it sees no step.
Early == INSTANCE AttemptSpec WITH
  running <- part = "late" \/ stage # "done",
  outcome <- IF part = "late" THEN Contract!Unknown ELSE outcome
EarlyImplementsContract == Early!Spec
=============================================================================
