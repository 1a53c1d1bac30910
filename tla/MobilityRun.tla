---------------------------- MODULE MobilityRun ----------------------------
(***************************************************************************)
(* The mobility suite's run (mobility.rs `main`): three claim tests, their *)
(* cleanup, and two VM tests, each cleaned up after itself, within the     *)
(* Job's window. A test whose worst case no longer fits is skipped. Time   *)
(* is the run's: it passes while a test or a deletion waits, and what the  *)
(* requests themselves take is left out.                                   *)
(***************************************************************************)
EXTENDS Naturals

CONSTANTS
  Timeout,    \* --timeout: the Job's window
  Margin,     \* the part of it that no test may use
  PodTimeout, MoveTimeout, VmTimeout,
  Gone        \* how long a VM's deletion is waited for

ASSUME TimesAssumption ==
  /\ {Timeout, Margin, PodTimeout, MoveTimeout, VmTimeout, Gone} \subseteq Nat
  /\ Margin <= Timeout

VARIABLES
  now,
  at,        \* where main is
  set,       \* a RAID set is named
  vms,       \* not --no-vms
  lines      \* the line of each test

vars == <<now, at, set, vms, lines>>

Claims == {"claim-node", "claim-set", "claim-node-set"}

VmTests == {"vm-live", "vm-cold"}

Tests == Claims \cup VmTests \cup {"drain"}

\* What comes after each step.
Follows ==
  [ s \in Tests \cup {"cleanup-claims", "setup", "gone-live", "gone-cold", "secret"} |->
    CASE s = "claim-node"     -> "drain"
      [] s = "drain"          -> "claim-set"
      [] s = "claim-set"      -> "claim-node-set"
      [] s = "claim-node-set" -> "cleanup-claims"
      [] s = "cleanup-claims" -> "setup"
      [] s = "setup"          -> "vm-live"
      [] s = "vm-live"        -> "gone-live"
      [] s = "gone-live"      -> "vm-cold"
      [] s = "vm-cold"        -> "gone-cold"
      [] s = "gone-cold"      -> "secret"
      [] s = "secret"         -> "done" ]

TypeOK ==
  /\ now \in Nat /\ at \in {"preflight", "done"} \cup DOMAIN Follows
  /\ set \in BOOLEAN /\ vms \in BOOLEAN
  /\ lines \in [Tests -> {"none", "pass", "fail", "skip", "infra"}]

Init ==
  /\ now = 0 /\ at = "preflight" /\ set \in BOOLEAN /\ vms \in BOOLEAN
  /\ lines = [t \in Tests |-> "none"]

End == Timeout - Margin

Fits(worst) == now + worst <= End

\* What main takes for a test's worst case.
ClaimOfTwoPods == 2 * PodTimeout + MoveTimeout

ClaimWorst == 3 * PodTimeout + MoveTimeout

VmWorst == 2 * VmTimeout + MoveTimeout + Margin

\* What a test waits for at most: claim_move for its pod, the move, the pod's
\* end and the replacement; vm_live for the VM and the migration; vm_cold for the
\* VM, its end, the move and the VM again.
Longest(t) ==
  CASE t \in Claims    -> PodTimeout + MoveTimeout + PodTimeout + PodTimeout
    [] t = "vm-live"   -> VmTimeout + MoveTimeout
    [] t = "vm-cold"   -> VmTimeout + VmTimeout + MoveTimeout + VmTimeout

Worst(t) == IF t \in Claims THEN ClaimWorst ELSE VmWorst

-----------------------------------------------------------------------------

\* The apiserver is unknown, or the nodes are not listed: no test is told of.
PreflightFails ==
  /\ at = "preflight" /\ at' = "done" /\ UNCHANGED <<now, set, vms, lines>>

\* One movable node: every test skips; no image: every test could not run.
PreflightEnds ==
  /\ at = "preflight" /\ at' = "done"
  /\ \E l \in {"skip", "infra"} : lines' = [t \in Tests |-> l]
  /\ UNCHANGED <<now, set, vms>>

PreflightPasses ==
  /\ at = "preflight" /\ at' = "claim-node" /\ UNCHANGED <<now, set, vms, lines>>

Tell(t, l) == lines' = [lines EXCEPT ![t] = l]

GoOn == at' = Follows[at] /\ UNCHANGED <<set, vms>>

\* The tests the run has no RAID set for.
Unnamed(t) == t \in {"claim-set", "claim-node-set"} /\ ~set

SkipTest ==
  /\ at \in Tests
  /\ at = "drain" \/ Unnamed(at) \/ ~Fits(Worst(at))
  /\ Tell(at, "skip") /\ GoOn /\ UNCHANGED now

RunTest ==
  /\ at \in Claims \cup VmTests /\ ~Unnamed(at) /\ Fits(Worst(at))
  /\ \E took \in 0..Longest(at) : now' = now + took
  /\ \E l \in {"pass", "fail", "skip", "infra"} : Tell(at, l)
  /\ GoOn

\* What the claim tests made is deleted, or not: nothing is waited for.
CleanUpClaims ==
  /\ at = "cleanup-claims" /\ GoOn /\ UNCHANGED <<now, lines>>

TellLive(l) == lines' = [lines EXCEPT !["vm-live"] = l]

TellVms(l) == lines' = [t \in Tests |-> IF t \in VmTests THEN l ELSE lines[t]]

\* The key and its Secret: without them both VM tests fail.
SetUp ==
  /\ at = "setup" /\ vms /\ GoOn /\ UNCHANGED <<now, lines>>

SetUpFails ==
  /\ at = "setup" /\ at' = "done"
  /\ \E l \in {"skip", "fail", "infra"} : (l = "skip") = ~vms /\ TellVms(l)
  /\ UNCHANGED <<now, set, vms>>

\* A VM is deleted, and waited for.
CleanUpVm ==
  /\ at \in {"gone-live", "gone-cold"}
  /\ \E took \in 0..Gone : now' = now + took
  /\ GoOn /\ UNCHANGED lines

DeleteSecret == at = "secret" /\ GoOn /\ UNCHANGED <<now, lines>>

Next ==
  \/ PreflightFails \/ PreflightEnds \/ PreflightPasses
  \/ SkipTest \/ RunTest
  \/ CleanUpClaims \/ SetUp \/ SetUpFails \/ CleanUpVm \/ DeleteSecret

Spec == Init /\ [][Next]_vars

-----------------------------------------------------------------------------
(* Properties *)

\* The claims are cleaned up before the part of the window that no test may use,
\* whatever the three tests came to.
ClaimsAreCleanedInTime == at = "cleanup-claims" => now <= End

\* Once a run got past its preflight, each test has its line at the end.
EveryTestIsTold ==
  at = "done" /\ (\E t \in Tests : lines[t] # "none") => \A t \in Tests : lines[t] # "none"

\* mobility.rs: a test whose worst case no longer fits is a skip, "so cleanup
\* always runs".
CleanupRunsInTime == at \in {"cleanup-claims", "gone-live", "gone-cold"} => now <= Timeout
=============================================================================
