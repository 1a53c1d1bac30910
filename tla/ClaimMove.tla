------------------------------ MODULE ClaimMove ------------------------------
(***************************************************************************)
(* The mobility suite's claim tests (mobility.rs `claim_move`): a pod      *)
(* writes its claim on node A; the claim is asked to move to node B, to a  *)
(* RAID set, or both; the pod is deleted, and a replacement must be on B   *)
(* and find the same bytes. The mover is another component: it may take    *)
(* the request up or not, fail, misplace the claim, or lose what it holds. *)
(* The pods run `/test claim` (claim.rs), which writes a claim that it     *)
(* finds empty.                                                            *)
(***************************************************************************)
EXTENDS Naturals

CONSTANTS
  Faults,    \* bound: requests that get no answer, or are refused
  Harms      \* bound: kills of a container, and moves that go wrong

VARIABLES
  \* the cluster
  claim,     \* the claim: where it is and what it holds
  move,      \* what storm.io/move-state says
  asked,     \* the claim is annotated
  pods,      \* the first pod and its replacement
  faults, harms,
  \* the driver
  toNode,    \* tests 1 and 5, or 4
  pc,
  up,        \* the pod that is brought up
  got,       \* the pod of the last GET, and its claim's line once read
  bytes,     \* the digest the first pod said
  kept,      \* test 4: the pod kept running
  result,    \* none | pass | fail | skip | infra
  \* ghosts
  lost,      \* what the first pod wrote was lost or damaged
  atRequest  \* the first pod's starts when the move was asked for

cluster == <<claim, move, asked, pods, harms, lost>>

driver == <<toNode, pc, up, got, bytes, kept, result, atRequest>>

vars == <<cluster, driver, faults>>

Nodes == {"A", "B", "C"}

\* B is another Ready node than A: main has seen to it that there is one.
Target == "B"

Moves == {"unanswered", "progress", "synced", "complete", "failed"}

\* A claim's bytes follow from the token, so what is written twice is equal.
Contents == {"empty", "torn", "whole", "damaged"}

Pod ==
  [ phase  : {"none", "pending", "starting", "ready", "gone"},
    node   : Nodes,
    starts : Nat,
    said   : {"none", "written", "found", "mismatch"},
    sha256 : Contents ]

Names == {"first", "second"}

NoLook == [ starts |-> 0, ready |-> FALSE, node |-> "A", said |-> "none", sha256 |-> "empty" ]

TypeOK ==
  /\ claim \in [ at : Nodes, holds : Contents ]
  /\ move \in Moves /\ asked \in BOOLEAN
  /\ pods \in [Names -> Pod]
  /\ faults \in 0..Faults /\ harms \in 0..Harms
  /\ toNode \in BOOLEAN
  /\ pc \in {"claim", "written", "annotate", "wait", "kept", "delete", "state", "judge", "done",
            "create", "look", "log"}
  /\ up \in Names
  /\ got \in [ starts : Nat, ready : BOOLEAN, node : Nodes,
                said : {"none", "written", "found"}, sha256 : Contents ]
  /\ bytes \in Contents /\ kept \in BOOLEAN
  /\ result \in {"none", "pass", "fail", "skip", "infra"}
  /\ lost \in BOOLEAN /\ atRequest \in Nat

Init ==
  /\ claim = [ at |-> "A", holds |-> "empty" ] /\ move = "unanswered" /\ asked = FALSE
  /\ pods = [n \in Names |-> [ phase |-> "none", node |-> "A", starts |-> 0, said |-> "none",
                            sha256 |-> "empty" ]]
  /\ faults = Faults /\ harms = Harms
  /\ toNode \in BOOLEAN
  /\ pc = "claim" /\ up = "first" /\ got = NoLook
  /\ bytes = "empty" /\ kept = FALSE /\ result = "none" /\ lost = FALSE /\ atRequest = 0

-----------------------------------------------------------------------------
(* The cluster: the kubelet and the claim's mover *)

Harm == harms > 0 /\ harms' = harms - 1

Live(n) == pods[n].phase \in {"starting", "ready"}

\* A pod's container starts where its claim is.
StartPod(n) ==
  /\ pods[n].phase = "pending"
  /\ pods' = [pods EXCEPT ![n].phase = "starting", ![n].node = claim.at, ![n].starts = 1]
  /\ UNCHANGED <<claim, move, asked, harms, lost>>

\* claim.rs check_or_write: the line says what it found, and then it listens.
Say(n) ==
  /\ pods[n].phase = "starting"
  /\ claim' = [claim EXCEPT !.holds = IF @ = "empty" THEN "whole" ELSE @]
  /\ pods' = [pods EXCEPT ![n].phase = "ready",
                          ![n].said = CASE claim.holds = "empty" -> "written"
                                        [] claim.holds = "whole" -> "found"
                                        [] OTHER -> "mismatch",
                          ![n].sha256 = claim'.holds]
  /\ UNCHANGED <<move, asked, harms, lost>>

\* A container is killed and started again: while it serves, or between creating
\* its token file and writing it. What its log says is the new container's.
Kill(n) ==
  /\ Live(n) /\ Harm
  /\ pods' = [pods EXCEPT ![n].phase = "starting", ![n].starts = @ + 1, ![n].said = "none"]
  /\ IF pods[n].phase = "starting" /\ claim.holds = "empty"
     THEN \E c \in {"empty", "torn"} : claim' = [claim EXCEPT !.holds = c]
     ELSE UNCHANGED claim
  /\ UNCHANGED <<move, asked, lost>>

RemovePod(n) ==
  /\ pods[n].phase = "gone" /\ pods' = [pods EXCEPT ![n].phase = "none"]
  /\ UNCHANGED <<claim, move, asked, harms, lost>>

\* The mover says how far it is.
Answer ==
  /\ asked /\ move = "unanswered" /\ move' = "progress"
  /\ UNCHANGED <<claim, asked, pods, harms, lost>>

Synced ==
  /\ move = "progress" /\ toNode /\ move' = "synced"
  /\ UNCHANGED <<claim, asked, pods, harms, lost>>

\* It cuts over: under the pod to a set, and to a node once the pod is gone. The
\* claim may end up elsewhere, or its bytes be damaged or left behind.
CutOver ==
  /\ IF toNode THEN move = "synced" /\ ~\E n \in Names : pods[n].phase \in {"starting", "ready", "gone"}
     ELSE move = "progress"
  /\ move' = "complete"
  /\ \/ /\ claim' = [claim EXCEPT !.at = IF toNode THEN Target ELSE @]
        /\ UNCHANGED <<harms, lost>>
     \/ /\ Harm /\ claim.holds = "whole" /\ lost' = TRUE
        /\ \E c \in {"empty", "damaged"} : claim' = [ at |-> IF toNode THEN Target ELSE claim.at,
                                                      holds |-> c ]
     \/ /\ Harm /\ \E n \in Nodes : claim' = [claim EXCEPT !.at = n]
        /\ UNCHANGED lost
  /\ UNCHANGED <<asked, pods>>

GiveUpMove ==
  /\ move \in {"progress", "synced"} /\ move' = "failed"
  /\ UNCHANGED <<claim, asked, pods, harms, lost>>

Cluster ==
  /\ pc # "done"
  /\ \/ \E n \in Names : StartPod(n) \/ Say(n) \/ Kill(n) \/ RemovePod(n)
     \/ Answer \/ Synced \/ CutOver \/ GiveUpMove
  /\ UNCHANGED <<driver, faults>>

-----------------------------------------------------------------------------
(* The driver *)

Fault == faults > 0 /\ faults' = faults - 1

Return(r) == pc' = "done" /\ result' = r

Goto(p) == pc' = p /\ UNCHANGED result

\* A failure of what was asked for, or a dependency that was given up on.
Failure ==
  \/ Return("fail") /\ UNCHANGED faults
  \/ Return("infra") /\ Fault

Looks == UNCHANGED <<cluster, toNode, up>>

CreateClaim ==
  /\ pc = "claim"
  /\ \/ Goto("create") /\ UNCHANGED faults
     \/ Failure
  /\ Looks /\ UNCHANGED <<got, bytes, kept, atRequest>>

\* What a failure to bring the replacement up comes to: tests 1 and 5 read the
\* move's state first, and fail for the pod.
UpFails ==
  IF up = "second" /\ toNode THEN Goto("state") /\ UNCHANGED faults ELSE Failure

\* claim_up: create it,
CreatePod ==
  /\ pc = "create" /\ got' = NoLook
  /\ \/ pods' = [pods EXCEPT ![up].phase = "pending"] /\ Goto("look") /\ UNCHANGED faults
     \/ UNCHANGED pods /\ UpFails
  /\ UNCHANGED <<claim, move, asked, harms, lost, toNode, up, bytes, kept, atRequest>>

\* see it Ready,
LookAtPod ==
  /\ pc = "look"
  /\ \/ /\ got' = [got EXCEPT !.starts = pods[up].starts, !.node = pods[up].node,
                               !.ready = @ \/ pods[up].phase = "ready"]
        /\ Goto(IF got'.ready THEN "log" ELSE "look") /\ UNCHANGED faults
     \/ UNCHANGED got /\ UpFails
  /\ Looks /\ UNCHANGED <<bytes, kept, atRequest>>

\* and read its line, of whichever container writes the log by now. No log, or
\* no line in it: it is looked at again.
ReadLog ==
  LET said == pods[up].said IN
  /\ pc = "log"
  /\ \/ Goto("look") /\ UNCHANGED <<faults, got>>
     \/ said = "mismatch" /\ UpFails /\ UNCHANGED got
     \/ /\ said \in {"written", "found"} /\ UNCHANGED faults
        /\ got' = [got EXCEPT !.said = said, !.sha256 = pods[up].sha256]
        /\ Goto(IF up = "first" THEN "written" ELSE IF toNode THEN "state" ELSE "judge")
  /\ Looks /\ UNCHANGED <<bytes, kept, atRequest>>

\* A new claim must have been written.
JudgeFirst ==
  /\ pc = "written" /\ bytes' = got.sha256
  /\ IF got.said = "written" THEN Goto("annotate") ELSE Return("fail")
  /\ Looks /\ UNCHANGED <<got, kept, faults, atRequest>>

\* Tests 1 and 5 read the move's state for the line: it is not judged.
ReadState ==
  /\ pc = "state"
  /\ \/ Goto("judge") /\ UNCHANGED faults
     \/ Failure
  /\ Looks /\ UNCHANGED <<got, bytes, kept, atRequest>>

\* The verdict, of what the replacement said. Test 4 only states a pause.
Passed ==
  /\ got.said = "found" /\ got.sha256 = bytes
  /\ toNode => got.node = Target

Judge ==
  /\ pc = "judge" /\ Return(IF Passed THEN "pass" ELSE "fail")
  /\ Looks /\ UNCHANGED <<got, bytes, kept, faults, atRequest>>

Annotate ==
  /\ pc = "annotate"
  /\ \/ asked' = TRUE /\ Goto("wait") /\ UNCHANGED faults
     \/ asked' \in BOOLEAN /\ Failure
  /\ atRequest' = pods["first"].starts
  /\ UNCHANGED <<claim, move, pods, harms, lost, toNode, up, got, bytes, kept>>

Wanted == IF toNode THEN {"synced", "complete"} ELSE {"complete"}

\* wait_move: nobody answers is a skip; an answer that fails, or lasts, a fail.
WaitMove ==
  /\ pc = "wait"
  /\ \/ /\ move \in Wanted /\ UNCHANGED faults
        /\ Goto(IF toNode THEN "delete" ELSE "kept")
     \/ move = "unanswered" /\ Return("skip") /\ UNCHANGED faults
     \/ move \notin Wanted \cup {"unanswered"} /\ Return("fail") /\ UNCHANGED faults
     \/ Failure
  /\ Looks /\ UNCHANGED <<got, bytes, kept, atRequest>>

\* Test 4: is it the pod it was?
KeptRunning == pods["first"].starts = got.starts /\ pods["first"].phase = "ready"

ReadKept ==
  /\ pc = "kept"
  /\ \/ /\ kept' = KeptRunning
        /\ Goto("delete") /\ UNCHANGED faults
     \/ Failure /\ UNCHANGED kept
  /\ Looks /\ UNCHANGED <<got, bytes, atRequest>>

\* The eviction's stand-in; `gone` tries, whatever becomes of it.
Delete ==
  /\ pc = "delete" /\ pods["first"].phase \in {"starting", "ready"}
  /\ pods' = [pods EXCEPT !["first"].phase = "gone"]
  /\ UNCHANGED <<claim, move, asked, harms, lost, driver, faults>>

\* Gone, or not in time: then test 4 goes on regardless.
DeleteEnds ==
  /\ pc = "delete"
  /\ IF pods["first"].phase = "none" \/ ~toNode THEN Goto("create") /\ up' = "second"
     ELSE Return("fail") /\ UNCHANGED up
  /\ UNCHANGED <<cluster, toNode, got, bytes, kept, faults, atRequest>>

Next ==
  \/ Cluster
  \/ CreateClaim \/ CreatePod \/ LookAtPod \/ ReadLog
  \/ JudgeFirst \/ Annotate \/ WaitMove
  \/ ReadKept \/ Delete \/ DeleteEnds \/ ReadState \/ Judge

Spec == Init /\ [][Next]_vars

-----------------------------------------------------------------------------
(* Properties *)

\* A test that passes, no container of which was restarted, moved the claim and
\* kept what the first pod wrote. (A restart hides a loss: the pod writes a
\* claim it finds empty, and its next container finds that.)
PassIsProof ==
  result = "pass" /\ (\A n \in Names : pods[n].starts = 1) =>
    ~lost /\ (toNode => claim.at = Target)

\* A pod that is said to have kept running was not restarted since the move was
\* asked for.
KeptRan == [][kept' => kept \/ pods["first"].starts = atRequest]_vars
=============================================================================
