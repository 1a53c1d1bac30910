---------------------------- MODULE HoldsProofs ----------------------------
(***************************************************************************)
(* Proofs about ContainerHold, for any number of Deployments, of requests  *)
(* that fail and of claims that come to harm; about FailedStart; and about *)
(* a wave of them, of VmHold and of ResidueDrain, whose own proofs it uses. *)
(***************************************************************************)
EXTENDS Holds, Sequences, TLAPS

-----------------------------------------------------------------------------
(* A container wave: types *)

\* A step of one Pod leaves every other Pod as it is.
LEMMA OnePodChanges ==
  ASSUME pods \in [Apps -> [Names -> Pod]], NEW a \in Apps, NEW n \in Names, NEW p \in Pod,
         SetPod(a, n, p)
  PROVE  /\ pods' \in [Apps -> [Names -> Pod]]
         /\ pods'[a][n] = p
         /\ \A b \in Apps, m \in Names : <<b, m>> # <<a, n>> => pods'[b][m] = pods[b][m]
  BY DEF SetPod

LEMMA NoPodIsAPod == NoPod \in Pod /\ [NoPod EXCEPT !.st = "waiting"] \in Pod
                     /\ [NoPod EXCEPT !.st = "gone", !.term = TRUE] \in Pod
  BY DEF NoPod, Pod

\* What a Pod may become.
LEMMA PodsStayPods ==
  ASSUME NEW p \in Pod
  PROVE  /\ [p EXCEPT !.st = "ready"] \in Pod
         /\ [p EXCEPT !.st = "waiting", !.restarts = @ + 1] \in Pod
         /\ [p EXCEPT !.term = TRUE] \in Pod
<1>1. [p EXCEPT !.st = "ready"] \in Pod
  BY DEF Pod
<1>2. [p EXCEPT !.st = "waiting", !.restarts = @ + 1] \in Pod
  <2>1. [p EXCEPT !.st = "waiting"] \in Pod
    BY DEF Pod
  <2>2. p.restarts + 1 \in Nat
    BY DEF Pod
  <2>3. ASSUME NEW q \in Pod, NEW k \in Nat PROVE [q EXCEPT !.restarts = k] \in Pod
    BY DEF Pod
  <2>4. [p EXCEPT !.st = "waiting", !.restarts = p.restarts + 1]
          = [[p EXCEPT !.st = "waiting"] EXCEPT !.restarts = p.restarts + 1]
    BY DEF Pod
  <2> QED BY <2>1, <2>2, <2>3, <2>4
<1>3. [p EXCEPT !.term = TRUE] \in Pod
  BY DEF Pod
<1> QED BY <1>1, <1>2, <1>3

LEMMA StartedPodsArePods ==
  ASSUME NEW p \in Pod, NEW said \in {"written", "found", "mismatch"}, NEW e \in BOOLEAN
  PROVE  [p EXCEPT !.st = "up", !.log = said, !.exits = e] \in Pod
<1>1. [p EXCEPT !.st = "up"] \in Pod
  BY DEF Pod
<1>2. ASSUME NEW q \in Pod PROVE [q EXCEPT !.log = said] \in Pod
  BY DEF Pod
<1>3. ASSUME NEW q \in Pod PROVE [q EXCEPT !.exits = e] \in Pod
  BY DEF Pod
<1>4. [p EXCEPT !.st = "up", !.log = said, !.exits = e]
        = [[[p EXCEPT !.st = "up"] EXCEPT !.log = said] EXCEPT !.exits = e]
  BY DEF Pod
<1> QED BY <1>1, <1>2, <1>3, <1>4

LEMMA ClaimsAnswer ==
  ASSUME TypeOK, NEW a \in Apps
  PROVE  CheckOrWrite(a) \in {"written", "found", "mismatch"}
  BY DEF TypeOK, CheckOrWrite

\* A Pod that was made has a Deployment, and so a claim to put its marker on.
PodsAreDeployed ==
  \A a \in Apps, n \in Names : pods[a][n].st # "absent" => a \in deployed

\* A step of one Pod.
PodStep(a, n) == \/ MakePod(a, n) \/ Start(a, n) \/ BecomeReady(a, n)
                 \/ ExitOnce(a, n) \/ RemovePod(a, n)

LEMMA ClusterKeepsTypes ==
  ASSUME TypeOK, PodsAreDeployed, Cluster
  PROVE  TypeOK'
<1>0. /\ UNCHANGED <<claims, deployed, faults, stage, todo, created, ready, failed, unlucky,
                     line, flying, view, done, stepFailed, old>>
      /\ pods \in [Apps -> [Names -> Pod]]
  BY DEF Cluster, ClusterStep, TypeOK
<1>1. PICK a \in Apps : \/ Harm(a)
                        \/ \E n \in Names : PodStep(a, n)
  BY DEF Cluster, PodStep
<1>. DEFINE Typed == /\ data' \in [Apps -> {"nothing", "kept", "garbled"}]
                     /\ marker' \subseteq claims
                     /\ pods' \in [Apps -> [Names -> Pod]]
                     /\ harms' \in 0..Harms
                     /\ writes' \in [Apps -> Nat]
                     /\ readback' \subseteq Apps \X Names \X Nat
<1>2. ASSUME Harm(a) PROVE Typed
  <2>1. /\ harms' \in 0..Harms /\ UNCHANGED <<pods, writes, readback>>
        /\ data' \in [Apps -> {"nothing", "kept", "garbled"}] /\ marker' \subseteq claims
    BY <1>2, HoldAssumption DEF Harm, TypeOK
  <2> QED BY <2>1, <1>0 DEF TypeOK
<1>3. ASSUME NEW n \in Names, MakePod(a, n) PROVE Typed
  BY <1>0, <1>3, NoPodIsAPod, OnePodChanges DEF MakePod, TypeOK
<1>4. ASSUME NEW n \in Names, Start(a, n) PROVE Typed
  <2>. DEFINE p == pods[a][n]
  <2>1. p \in Pod /\ p.restarts \in Nat /\ marker \subseteq claims
    BY <1>0 DEF TypeOK, Pod
  <2>2. pods' \in [Apps -> [Names -> Pod]]
    BY <1>0, <1>4, <2>1, ClaimsAnswer, StartedPodsArePods, OnePodChanges DEF Start
  <2>3. marker' = marker /\ harms' = harms
    BY <1>4 DEF Start
  <2>a. [data EXCEPT ![a] = "kept"] \in [Apps -> {"nothing", "kept", "garbled"}]
    BY DEF TypeOK
  <2>b. [writes EXCEPT ![a] = @ + 1] \in [Apps -> Nat]
    BY DEF TypeOK
  <2>5. data' \in [Apps -> {"nothing", "kept", "garbled"}] /\ writes' \in [Apps -> Nat]
    BY <1>4, <2>a, <2>b DEF Start, TypeOK
  <2>4. readback' \subseteq Apps \X Names \X Nat
    BY <1>4, <2>1 DEF Start, TypeOK
  <2> QED BY <2>1, <2>2, <2>3, <2>4, <2>5 DEF TypeOK
<1>5. ASSUME NEW n \in Names, BecomeReady(a, n) PROVE Typed
  <2>0. pods[a][n] \in Pod
    BY <1>0
  <2>1. pods' \in [Apps -> [Names -> Pod]]
    BY <1>0, <1>5, <2>0, PodsStayPods, OnePodChanges DEF BecomeReady
  <2> QED BY <1>5, <2>1 DEF BecomeReady, TypeOK
<1>6. ASSUME NEW n \in Names, ExitOnce(a, n) PROVE Typed
  <2>1. marker' \subseteq claims
    BY <1>6 DEF ExitOnce, TypeOK, PodsAreDeployed, Running
  <2>2. pods' \in [Apps -> [Names -> Pod]]
    BY <1>0, <1>6, PodsStayPods, OnePodChanges DEF ExitOnce
  <2> QED BY <1>6, <2>1, <2>2 DEF ExitOnce, TypeOK
<1>7. ASSUME NEW n \in Names, RemovePod(a, n) PROVE Typed
  BY <1>0, <1>7, NoPodIsAPod, OnePodChanges DEF RemovePod, TypeOK
<1>8. ASSUME NEW n \in Names, PodStep(a, n) PROVE Typed
  <2>. HIDE DEF Typed
  <2> QED BY <1>8, <1>3, <1>4, <1>5, <1>6, <1>7 DEF PodStep
<1>9. Typed
  <2>. HIDE DEF Typed
  <2> QED BY <1>1, <1>2, <1>8
<1> QED BY <1>0, <1>9 DEF TypeOK

\* What is still to delete is a Pod that was listed.
DeletesAreOfOld == stage = "delete" => todo \subseteq DOMAIN old

LEMMA LinesAreTyped ==
  ASSUME TypeOK, NEW l \in {"pass", "fail", "infra"}
  PROVE  Emit(l) => line' \in {"pass", "fail", "infra"}
  BY DEF Emit, TypeOK

LEMMA StepLinesAreTyped ==
  ASSUME TypeOK, NEW bad, NEW given_up, StepLine(bad, given_up)
  PROVE  line' \in {"pass", "fail", "infra"}
  BY DEF StepLine, Emit, TypeOK

LEMMA FaultsAreSpent ==
  ASSUME TypeOK
  PROVE  /\ Fault => faults' \in 0..Faults /\ faults' # Faults
         /\ UNCHANGED faults => faults' \in 0..Faults
  BY HoldAssumption DEF Fault, TypeOK

LEMMA AwaitedAreReady == TypeOK => Awaited \subseteq ready
  BY DEF TypeOK, Awaited

LEMMA RampKeepsTypes ==
  ASSUME TypeOK, NEW a \in Apps, Ramp(a), faults' \in 0..Faults,
         claims' \in {claims, claims \cup {a}},
         deployed' \in {deployed, (deployed \cup {a}) \cap claims'},
         created' \in {created, created \cup {a}},
         failed' \in {failed, failed \cup {a}}, unlucky' \in {unlucky, unlucky \cup {a}},
         flying' \in BOOLEAN
  PROVE  TypeOK'
  BY DEF Ramp, TypeOK

LEMMA StepEndKeepsTypes ==
  ASSUME TypeOK, StepEnds, line' \in {"pass", "fail", "infra"},
         stage' \in {"list", "done"}
  PROVE  TypeOK'
<1>1. FailedInStep \subseteq Apps
  BY AwaitedAreReady DEF FailedInStep, TypeOK
<1> QED BY <1>1 DEF StepEnds, TypeOK, cluster

LEMMA DriverKeepsTypes ==
  ASSUME TypeOK, DeletesAreOfOld, Driver
  PROVE  TypeOK'
<1>1. CASE CreateService
  BY <1>1, LinesAreTyped, FaultsAreSpent DEF CreateService, TypeOK, cluster
<1>2. ASSUME NEW a \in Apps, CreateApp(a) PROVE TypeOK'
  BY <1>2, FaultsAreSpent, RampKeepsTypes DEF CreateApp, TypeOK
<1>3. ASSUME NEW a \in Apps, CreateRefused(a) PROVE TypeOK'
  BY <1>3, FaultsAreSpent, RampKeepsTypes DEF CreateRefused, TypeOK
<1>4. ASSUME NEW a \in Apps, CreateLost(a) PROVE TypeOK'
  BY <1>4, FaultsAreSpent, RampKeepsTypes DEF CreateLost, TypeOK
<1>5. ASSUME NEW a \in Apps, DeletePod(a) PROVE TypeOK'
  <2>1. /\ old[a] \in Names /\ pods \in [Apps -> [Names -> Pod]]
        /\ [pods[a][old[a]] EXCEPT !.term = TRUE] \in Pod
    BY <1>5, PodsStayPods DEF DeletePod, DeletesAreOfOld, TypeOK
  <2>2. pods' \in [Apps -> [Names -> Pod]]
    BY <1>5, <2>1, OnePodChanges DEF DeletePod
  <2>3. faults' \in 0..Faults
    BY <1>5, FaultsAreSpent DEF DeletePod
  <2> QED BY <1>5, <2>2, <2>3 DEF DeletePod, TypeOK
<1>6. CASE RampEnds
  BY <1>6 DEF RampEnds, TypeOK, cluster
<1>7. CASE LookReady
  BY <1>7, FaultsAreSpent DEF LookReady, TypeOK, cluster
<1>8. CASE ReadyEnds
  BY <1>8, StepLinesAreTyped DEF ReadyEnds, NeverReady, TypeOK, cluster
<1>9. CASE CheckService
  BY <1>9, LinesAreTyped DEF CheckService, TypeOK, cluster
<1>10. CASE LookStep
  BY <1>10, AwaitedAreReady DEF LookStep, Candidates, TypeOK, cluster
<1>11. ASSUME NEW a \in Apps, NEW n \in Names, ReadLog(a, n) PROVE TypeOK'
  BY <1>11, FaultsAreSpent DEF ReadLog, TypeOK, cluster
<1>12. CASE RestartEnds
  BY <1>12, StepLinesAreTyped, StepEndKeepsTypes DEF RestartEnds
<1>13. CASE ListForDelete
  BY <1>13, FaultsAreSpent DEF ListForDelete, TypeOK, cluster
<1>14. CASE DeletesEnd
  BY <1>14 DEF DeletesEnd, TypeOK, cluster
<1>15. CASE RescheduleEnds
  <2>1. line' \in {"pass", "fail", "infra"}
    BY <1>15, StepLinesAreTyped DEF RescheduleEnds, TypeOK
  <2> QED BY <1>15, <2>1, StepEndKeepsTypes DEF RescheduleEnds
<1> QED BY <1>1, <1>2, <1>3, <1>4, <1>5, <1>6, <1>7, <1>8, <1>9, <1>10, <1>11, <1>12, <1>13,
           <1>14, <1>15 DEF Driver

TypeInv == TypeOK /\ PodsAreDeployed /\ DeletesAreOfOld

LEMMA InitTypes == Init => TypeInv
<1> SUFFICES ASSUME Init PROVE TypeInv
  OBVIOUS
<1>1. /\ NoPod \in Pod /\ Faults \in 0..Faults /\ Harms \in 0..Harms
      /\ NoPod.st = "absent"
  BY NoPodIsAPod, HoldAssumption DEF NoPod
<1>2. DOMAIN old = {}
  BY DEF Init
<1> QED BY <1>1, <1>2 DEF Init, TypeInv, TypeOK, PodsAreDeployed, DeletesAreOfOld

\* Only a Deployment makes a Pod, and no Deployment goes away.
LEMMA PodsStayDeployed ==
  ASSUME TypeInv, [Next]_vars
  PROVE  PodsAreDeployed'
<1>. USE DEF TypeInv
<1>1. pods \in [Apps -> [Names -> Pod]]
  BY DEF TypeOK
<1>2. CASE Cluster
  <2>1. deployed' = deployed
    BY <1>2 DEF Cluster, ClusterStep
  <2>2. PICK a \in Apps : \/ Harm(a)
                          \/ \E n \in Names : PodStep(a, n)
    BY <1>2 DEF Cluster, PodStep
  <2>3. CASE Harm(a)
    BY <2>1, <2>3 DEF Harm, PodsAreDeployed
  <2>4. ASSUME NEW n \in Names, PodStep(a, n) PROVE PodsAreDeployed'
    <3>1. a \in deployed
      BY <2>4 DEF PodStep, MakePod, Start, BecomeReady, ExitOnce, RemovePod, Running,
                  PodsAreDeployed
    <3>2. \A b \in Apps, m \in Names : b # a => pods'[b][m] = pods[b][m]
      BY <1>1, <2>4 DEF PodStep, MakePod, Start, BecomeReady, ExitOnce, RemovePod, SetPod
    <3> QED BY <2>1, <3>1, <3>2 DEF PodsAreDeployed
  <2> QED BY <2>2, <2>3, <2>4
<1>3. CASE Driver
  <2>1. deployed \subseteq deployed'
    BY <1>3 DEF Driver, CreateService, CreateApp, CreateRefused, CreateLost, DeletePod, RampEnds,
                LookReady, ReadyEnds, CheckService, LookStep, ReadLog, RestartEnds, StepEnds,
                ListForDelete, DeletesEnd, RescheduleEnds, TypeOK, cluster
  <2>2. \/ pods' = pods
        \/ \E a \in Apps : DeletePod(a)
    BY <1>3 DEF Driver, CreateService, CreateApp, CreateRefused, CreateLost, Ramp, RampEnds,
                LookReady, ReadyEnds, CheckService, LookStep, ReadLog, RestartEnds, StepEnds,
                ListForDelete, DeletesEnd, RescheduleEnds, cluster
  <2>3. ASSUME NEW a \in Apps, DeletePod(a) PROVE PodsAreDeployed'
    <3>1. a \in DOMAIN old /\ old[a] \in Names
      BY <2>3 DEF DeletePod, DeletesAreOfOld, TypeOK
    <3>. DEFINE p == [pods[a][old[a]] EXCEPT !.term = TRUE]
    <3>3. pods[a][old[a]] \in Pod
      BY <1>1, <3>1
    <3>4. p \in Pod /\ p.st = pods[a][old[a]].st
      BY <3>3 DEF Pod
    <3>5. ASSUME SetPod(a, old[a], p)
          PROVE  \A b \in Apps, m \in Names : pods'[b][m].st = pods[b][m].st
      <4>. HIDE DEF p
      <4> QED BY <1>1, <3>1, <3>4, <3>5, OnePodChanges
    <3>2. \A b \in Apps, m \in Names : pods'[b][m].st = pods[b][m].st
      BY <2>3, <3>5 DEF DeletePod
    <3> QED BY <2>1, <3>2 DEF PodsAreDeployed
  <2> QED BY <2>1, <2>2, <2>3 DEF PodsAreDeployed
<1>4. CASE UNCHANGED vars
  BY <1>4 DEF vars, cluster, PodsAreDeployed
<1> QED BY <1>2, <1>3, <1>4 DEF Next

LEMMA DeletesStayOfOld ==
  ASSUME TypeInv, [Next]_vars
  PROVE  DeletesAreOfOld'
<1>. USE DEF TypeInv, DeletesAreOfOld
<1>1. CASE Cluster
  BY <1>1 DEF Cluster, ClusterStep
<1>2. CASE Driver
  BY <1>2 DEF Driver, CreateService, CreateApp, CreateRefused, CreateLost, DeletePod, Ramp,
              RampEnds, LookReady, ReadyEnds, CheckService, LookStep, ReadLog, RestartEnds,
              StepEnds, ListForDelete, DeletesEnd, RescheduleEnds, cluster
<1>3. CASE UNCHANGED vars
  BY <1>3 DEF vars
<1> QED BY <1>1, <1>2, <1>3 DEF Next

LEMMA NextTypes == TypeInv /\ [Next]_vars => TypeInv'
<1> SUFFICES ASSUME TypeInv, [Next]_vars PROVE TypeOK'
  BY PodsStayDeployed, DeletesStayOfOld DEF TypeInv
<1>1. CASE Next
  BY <1>1, ClusterKeepsTypes, DriverKeepsTypes DEF Next, TypeInv
<1>2. CASE UNCHANGED vars
  BY <1>2 DEF vars, cluster, TypeInv, TypeOK
<1> QED BY <1>1, <1>2

LEMMA TypesHold == Spec => []TypeInv
  BY InitTypes, NextTypes, PTL DEF Spec

\* The hold's state is well typed, however many Deployments, faults and harms
\* (containers.rs hold).
THEOREM TypeCorrect == Spec => []TypeOK
<1>1. TypeInv => TypeOK
  BY DEF TypeInv
<1> QED BY <1>1, TypesHold, PTL

-----------------------------------------------------------------------------
(* The contract of a hold *)

\* Every app is still to create, or was created, or failed; once the wait for
\* Ready is over, what was created is Ready or failed.
Accounted ==
  /\ Apps \subseteq created \cup failed
                      \cup (IF stage \in {"service", "ramp"} THEN todo ELSE {})
  /\ stage \notin {"service", "ramp", "ready"} => created \subseteq ready \cup failed

\* A create that may still land was told.
Told == flying => failed # {} \/ line # "pass"

LEMMA ClusterLeavesTheDriver ==
  Cluster => UNCHANGED <<faults, stage, todo, created, ready, failed, unlucky, line, flying,
                         view, done, stepFailed, old>>
  BY DEF Cluster, ClusterStep

LEMMA AccountStays ==
  ASSUME TypeOK, Accounted, [Next]_vars
  PROVE  Accounted'
<1>. USE DEF Accounted
<1>1. CASE Cluster
  BY <1>1, ClusterLeavesTheDriver
<1>2. CASE UNCHANGED vars
  BY <1>2 DEF vars
<1>3. CASE CreateService
  BY <1>3 DEF CreateService
<1>4. CASE \E a \in Apps : CreateApp(a) \/ CreateRefused(a) \/ CreateLost(a)
  BY <1>4 DEF CreateApp, CreateRefused, CreateLost, Ramp
<1>5. CASE \E a \in Apps : DeletePod(a)
  BY <1>5 DEF DeletePod
<1>6. CASE RampEnds \/ LookReady
  BY <1>6 DEF RampEnds, LookReady
<1>7. CASE ReadyEnds
  BY <1>7 DEF ReadyEnds, NeverReady
<1>8. CASE CheckService \/ LookStep \/ \E a \in Apps, n \in Names : ReadLog(a, n)
  BY <1>8 DEF CheckService, LookStep, ReadLog
<1>9. CASE RestartEnds \/ RescheduleEnds
  BY <1>9 DEF RestartEnds, RescheduleEnds, StepEnds
<1>10. CASE ListForDelete \/ DeletesEnd
  BY <1>10 DEF ListForDelete, DeletesEnd
<1> QED BY <1>1, <1>2, <1>3, <1>4, <1>5, <1>6, <1>7, <1>8, <1>9, <1>10 DEF Next, Driver

LEMMA ToldStays ==
  ASSUME TypeOK, Told, [Next]_vars
  PROVE  Told'
<1>. USE DEF Told
<1>0. line \in {"pass", "fail", "infra"}
  BY DEF TypeOK
<1>1. CASE Cluster
  BY <1>1, ClusterLeavesTheDriver
<1>2. CASE UNCHANGED vars
  BY <1>2 DEF vars
<1>3. CASE CreateService
  BY <1>0, <1>3 DEF CreateService, Emit
<1>4. CASE \E a \in Apps : CreateApp(a) \/ CreateRefused(a) \/ CreateLost(a)
  BY <1>4 DEF CreateApp, CreateRefused, CreateLost, Ramp
<1>5. CASE \E a \in Apps : DeletePod(a)
  BY <1>5 DEF DeletePod
<1>6. CASE RampEnds \/ LookReady
  BY <1>6 DEF RampEnds, LookReady
<1>7. CASE ReadyEnds
  BY <1>0, <1>7 DEF ReadyEnds, StepLine, Emit
<1>8. CASE CheckService
  BY <1>0, <1>8 DEF CheckService, Emit
<1>9. CASE LookStep \/ \E a \in Apps, n \in Names : ReadLog(a, n)
  BY <1>9 DEF LookStep, ReadLog
<1>10. CASE RestartEnds \/ RescheduleEnds
  BY <1>0, <1>10 DEF RestartEnds, RescheduleEnds, StepEnds, StepLine, Emit
<1>11. CASE ListForDelete \/ DeletesEnd
  BY <1>11 DEF ListForDelete, DeletesEnd
<1> QED BY <1>1, <1>2, <1>3, <1>4, <1>5, <1>6, <1>7, <1>8, <1>9, <1>10, <1>11 DEF Next, Driver

LEMMA AccountsHold == Spec => [](TypeInv /\ Accounted /\ Told)
<1>1. Init => Accounted /\ Told
  BY DEF Init, Accounted, Told
<1>2. TypeInv => TypeOK
  BY DEF TypeInv
<1> QED BY <1>1, <1>2, TypesHold, AccountStays, ToldStays, PTL DEF Spec

\* The hold ends as its contract says: a wave without failures has a start
\* latency, and a create given up on has failed it or one of its lines
\* (containers.rs hold, and what long.rs run_wave makes of its WaveOut).
THEOREM HoldKeepsItsContract == Spec => []KeepsContract
<1>1. TypeInv /\ Accounted /\ Told => KeepsContract
  <2> SUFFICES ASSUME TypeOK, Accounted, Told, stage = "done"
               PROVE  Outcome \in HonestHolds
    BY DEF TypeInv, KeepsContract
  <2>1. failed = {} => ready # {}
    BY HoldAssumption DEF Accounted
  <2>2. Outcome \in Hold
    BY DEF Outcome, Hold, TypeOK
  <2>3. ~Outcome.failed => Outcome.start # None
    <3>1. 1 # None
      BY HoldAssumption
    <3>2. Outcome.failed = (failed # {}) /\ Outcome.start = IF ready = {} THEN None ELSE 1
      BY Zenon DEF Outcome
    <3> QED BY <2>1, <3>1, <3>2
  <2>4. Outcome.flying => Outcome.failed \/ Outcome.line # "pass"
    BY DEF Outcome, Told
  <2> QED BY <2>2, <2>3, <2>4 DEF HonestHolds
<1> QED BY <1>1, AccountsHold, PTL

-----------------------------------------------------------------------------
(* What a passed wave has read *)

\* The restart count of the container whose log a Pod has: the running one's,
\* or the last one's while the Pod waits to be restarted.
LogOf(p) == IF p.st \in {"up", "ready"} THEN p.restarts ELSE p.restarts - 1

LogsAreReadBack ==
  \A a \in Apps, n \in Names :
    pods[a][n].log = "found" => <<a, n, LogOf(pods[a][n])>> \in readback

\* A Pod that was listed as restarted: its log is of a container after the first.
WasRestarted(p) == p.st # "absent" /\ (p.st = "gone" \/ LogOf(p) > 0)

Restarted(a) == \E c \in readback : c[1] = a /\ c[3] > 0

Replaced(a) == \E c \in readback : c[1] = a /\ c[2] # old[a]

\* The Pods whose logs are still to read are still what they were listed for.
ViewIsRight ==
  \A a \in Apps, n \in Names : <<a, n>> \in view =>
    /\ stage = "restart" => WasRestarted(pods[a][n])
    /\ stage = "reschedule" => a \in DOMAIN old /\ n # old[a]

StepsAreProof ==
  /\ stage = "restart" => \A a \in done \ stepFailed : Restarted(a)
  /\ stage = "reschedule" => \A a \in done \ stepFailed : Replaced(a)
  /\ stage \in {"list", "delete", "reschedule", "done"} =>
       \A a \in ready \ failed : Restarted(a)
  /\ stage = "done" => \A a \in DOMAIN old \ failed : Replaced(a)
  /\ stage \notin {"restart", "reschedule"} => done = {} /\ view = {}

ProofInv == LogsAreReadBack /\ ViewIsRight /\ StepsAreProof

\* A container that was restarted stays one that was, and its log is its own.
PodMoves ==
  /\ readback \subseteq readback'
  /\ \A a \in Apps, n \in Names :
       /\ WasRestarted(pods[a][n]) => WasRestarted(pods'[a][n])
       /\ pods'[a][n].log = "found" => <<a, n, LogOf(pods'[a][n])>> \in readback'

LEMMA PodStepsMovePods ==
  ASSUME TypeInv, LogsAreReadBack, NEW a \in Apps, NEW n \in Names, PodStep(a, n)
  PROVE  PodMoves
<1>. DEFINE p == pods[a][n]
            q == pods'[a][n]
<1>0. /\ pods \in [Apps -> [Names -> Pod]] /\ p \in Pod /\ p.restarts \in Nat
      /\ p.log = "found" => <<a, n, LogOf(p)>> \in readback
  BY DEF TypeInv, TypeOK, Pod, LogsAreReadBack
<1>1. readback \subseteq readback'
  BY DEF PodStep, MakePod, Start, BecomeReady, ExitOnce, RemovePod
<1>2. \A b \in Apps, m \in Names : <<b, m>> # <<a, n>> => pods'[b][m] = pods[b][m]
  BY <1>0 DEF PodStep, MakePod, Start, BecomeReady, ExitOnce, RemovePod, SetPod
<1>3. ASSUME NEW r, SetPod(a, n, r) PROVE q = r
  BY <1>0, <1>3 DEF SetPod
<1>4. /\ WasRestarted(p) => WasRestarted(q)
      /\ q.log = "found" => <<a, n, LogOf(q)>> \in readback'
  <2>1. CASE MakePod(a, n)
    <3>1. q = [NoPod EXCEPT !.st = "waiting"]
      BY <2>1, <1>3 DEF MakePod
    <3>2. q.log = "empty"
      BY <3>1 DEF NoPod
    <3> QED BY <2>1, <3>2 DEF MakePod, WasRestarted
  <2>2. CASE Start(a, n)
    <3>. DEFINE said == CheckOrWrite(a)
    <3>1. q = [p EXCEPT !.st = "up", !.log = said, !.exits = a \notin marker]
      BY <2>2, <1>3 DEF Start
    <3>2. q.st = "up" /\ q.log = said /\ q.restarts = p.restarts
      BY <1>0, <3>1 DEF Pod
    <3>3. said = "found" => <<a, n, p.restarts>> \in readback'
      BY <2>2 DEF Start
    <3>4. p.st = "waiting"
      BY <2>2 DEF Start
    <3> QED BY <1>0, <3>2, <3>3, <3>4 DEF WasRestarted, LogOf
  <2>3. CASE BecomeReady(a, n)
    <3>1. q = [p EXCEPT !.st = "ready"] /\ p.st = "up"
      BY <2>3, <1>3 DEF BecomeReady
    <3>2. q.st = "ready" /\ q.log = p.log /\ q.restarts = p.restarts
      BY <1>0, <3>1 DEF Pod
    <3> QED BY <1>0, <1>1, <3>1, <3>2 DEF WasRestarted, LogOf
  <2>4. CASE ExitOnce(a, n)
    <3>1. q = [p EXCEPT !.st = "waiting", !.restarts = @ + 1] /\ p.st \in {"up", "ready"}
      BY <2>4, <1>3 DEF ExitOnce, Running
    <3>2. q.st = "waiting" /\ q.log = p.log /\ q.restarts = p.restarts + 1
      BY <1>0, <3>1 DEF Pod
    <3>3. LogOf(q) = LogOf(p)
      BY <1>0, <3>1, <3>2 DEF LogOf
    <3> QED BY <1>0, <1>1, <3>1, <3>2, <3>3 DEF WasRestarted
  <2>5. CASE RemovePod(a, n)
    <3>1. q = [NoPod EXCEPT !.st = "gone", !.term = TRUE]
      BY <2>5, <1>3 DEF RemovePod
    <3>2. q.st = "gone" /\ q.log = "empty"
      BY <3>1 DEF NoPod
    <3> QED BY <3>2 DEF WasRestarted
  <2> QED BY <2>1, <2>2, <2>3, <2>4, <2>5 DEF PodStep
<1>5. ASSUME NEW b \in Apps, NEW m \in Names, <<b, m>> # <<a, n>>
      PROVE  /\ WasRestarted(pods[b][m]) => WasRestarted(pods'[b][m])
             /\ pods'[b][m].log = "found" => <<b, m, LogOf(pods'[b][m])>> \in readback'
  BY <1>1, <1>2, <1>5 DEF LogsAreReadBack
<1> QED BY <1>1, <1>4, <1>5 DEF PodMoves

LEMMA ClusterMovesPods == TypeInv /\ LogsAreReadBack /\ Cluster => PodMoves
<1> SUFFICES ASSUME TypeInv, LogsAreReadBack, Cluster PROVE PodMoves
  OBVIOUS
<1>1. PICK a \in Apps : \/ Harm(a)
                        \/ \E n \in Names : PodStep(a, n)
  BY DEF Cluster, PodStep
<1>2. CASE Harm(a)
  BY <1>2 DEF Harm, PodMoves, LogsAreReadBack
<1> QED BY <1>1, <1>2, PodStepsMovePods

\* The driver only marks Pods as being deleted.
LEMMA DriverMovesPods ==
  ASSUME TypeInv, LogsAreReadBack, Driver
  PROVE  PodMoves /\ readback' = readback
<1>1. readback' = readback
  BY DEF Driver, CreateService, CreateApp, CreateRefused, CreateLost, DeletePod, Ramp,
         RampEnds, LookReady, ReadyEnds, CheckService, LookStep, ReadLog, RestartEnds,
         StepEnds, ListForDelete, DeletesEnd, RescheduleEnds, cluster
<1>2. \/ pods' = pods
      \/ \E a \in Apps : DeletePod(a)
  BY DEF Driver, CreateService, CreateApp, CreateRefused, CreateLost, Ramp, RampEnds,
         LookReady, ReadyEnds, CheckService, LookStep, ReadLog, RestartEnds, StepEnds,
         ListForDelete, DeletesEnd, RescheduleEnds, cluster
<1>3. ASSUME pods' = pods PROVE PodMoves
  BY <1>1, <1>3 DEF PodMoves, LogsAreReadBack
<1>4. ASSUME NEW a \in Apps, DeletePod(a) PROVE PodMoves
  <2>. DEFINE p == [pods[a][old[a]] EXCEPT !.term = TRUE]
  <2>1. /\ a \in DOMAIN old /\ old[a] \in Names
        /\ pods \in [Apps -> [Names -> Pod]] /\ pods[a][old[a]] \in Pod
    BY <1>4 DEF DeletePod, TypeInv, DeletesAreOfOld, TypeOK
  <2>2. /\ p \in Pod /\ p.st = pods[a][old[a]].st /\ p.log = pods[a][old[a]].log
        /\ p.restarts = pods[a][old[a]].restarts
    BY <2>1 DEF Pod
  <2>3. ASSUME SetPod(a, old[a], p) PROVE PodMoves
    <3>. HIDE DEF p
    <3>1. \A b \in Apps, m \in Names :
            /\ pods'[b][m].st = pods[b][m].st /\ pods'[b][m].log = pods[b][m].log
            /\ pods'[b][m].restarts = pods[b][m].restarts
      BY <2>1, <2>2, <2>3, OnePodChanges
    <3> QED BY <1>1, <3>1 DEF PodMoves, LogsAreReadBack, WasRestarted, LogOf
  <2> QED BY <1>3, <1>4, <2>3 DEF DeletePod
<1> QED BY <1>1, <1>2, <1>3, <1>4

\* What a log that is read says was read back.
LEMMA ReadLogsAreProof ==
  ASSUME TypeInv, ProofInv, NEW a \in Apps, NEW n \in Names, ReadLog(a, n)
  PROVE  StepsAreProof'
<1>1. /\ UNCHANGED <<pods, readback, stage, ready, failed, old>>
      /\ a \in ready
  BY DEF ReadLog, cluster, TypeInv, TypeOK
<1>2. CASE done' \ stepFailed' \subseteq done \ stepFailed
  <2>1. stage \in {"restart", "reschedule"}
    BY DEF ReadLog, ProofInv, StepsAreProof
  <2> QED BY <1>1, <1>2, <2>1 DEF ProofInv, StepsAreProof, Restarted, Replaced
<1>3. CASE /\ Listed(a, n) /\ pods[a][n].log = "found"
           /\ done' = done \cup {a} /\ stepFailed' = stepFailed
  <2>1. <<a, n, LogOf(pods[a][n])>> \in readback /\ <<a, n>> \in view
    BY <1>3 DEF ProofInv, LogsAreReadBack, ReadLog
  <2>2. stage = "restart" => LogOf(pods[a][n]) > 0
    BY <1>3, <2>1 DEF ProofInv, ViewIsRight, WasRestarted, Listed
  <2>3. stage = "reschedule" => n # old[a]
    BY <2>1 DEF ProofInv, ViewIsRight
  <2>4. stage = "restart" => Restarted(a)
    BY <2>1, <2>2 DEF Restarted
  <2>5. stage = "reschedule" => Replaced(a)
    BY <2>1, <2>3 DEF Replaced
  <2>6. stage \in {"restart", "reschedule"}
    BY <2>1 DEF ProofInv, StepsAreProof
  <2> QED BY <1>1, <1>3, <2>4, <2>5, <2>6 DEF ProofInv, StepsAreProof, Restarted, Replaced
<1> QED BY <1>2, <1>3 DEF ReadLog

LEMMA ProofStays ==
  ASSUME TypeInv, ProofInv, [Next]_vars
  PROVE  ProofInv'
<1>0. TypeOK /\ LogsAreReadBack /\ ViewIsRight /\ StepsAreProof
  BY DEF TypeInv, ProofInv
<1>1. CASE UNCHANGED vars
  BY <1>0, <1>1 DEF vars, cluster, ProofInv, LogsAreReadBack, ViewIsRight, StepsAreProof,
                    Restarted, Replaced
<1>2. CASE Cluster
  <2>1. PodMoves
    BY <1>0, <1>2, ClusterMovesPods
  <2>2. UNCHANGED <<stage, ready, failed, view, done, stepFailed, old>>
    BY <1>2, ClusterLeavesTheDriver
  <2>3. \A a : (Restarted(a) => Restarted(a)') /\ (Replaced(a) => Replaced(a)')
    BY <2>1, <2>2 DEF PodMoves, Restarted, Replaced
  <2>4. LogsAreReadBack'
    BY <2>1 DEF PodMoves, LogsAreReadBack
  <2>5. ViewIsRight'
    BY <1>0, <2>1, <2>2 DEF PodMoves, ViewIsRight
  <2>6. StepsAreProof'
    BY <1>0, <2>2, <2>3 DEF StepsAreProof
  <2> QED BY <2>4, <2>5, <2>6 DEF ProofInv
<1>3. CASE Driver
  <2>1. PodMoves /\ readback' = readback
    BY <1>0, <1>3, DriverMovesPods
  <2>2. LogsAreReadBack'
    BY <2>1 DEF PodMoves, LogsAreReadBack
  <2>. DEFINE Kept == ViewIsRight' /\ StepsAreProof'
  <2>3. CASE \/ CreateService \/ RampEnds \/ LookReady \/ ReadyEnds
             \/ \E a \in Apps : CreateApp(a) \/ CreateRefused(a) \/ CreateLost(a)
    <3>1. /\ stage \in {"service", "ramp", "ready"}
          /\ stage' \in {"service", "ramp", "ready", "front"}
          /\ view' = view /\ done' = done
      BY <2>3 DEF CreateService, RampEnds, LookReady, ReadyEnds, CreateApp, CreateRefused,
                  CreateLost, Ramp
    <3>2. Kept
      BY <1>0, <3>1 DEF ViewIsRight, StepsAreProof
    <3> QED BY <2>2, <3>2 DEF ProofInv
  <2>4. CASE CheckService
    <3>1. Kept
      BY <1>0, <2>4 DEF CheckService, ViewIsRight, StepsAreProof, TypeOK
    <3> QED BY <2>2, <3>1 DEF ProofInv
  <2>5. CASE LookStep
    <3>1. /\ UNCHANGED <<pods, readback, stage, ready, failed, done, stepFailed, old>>
          /\ stage \in {"restart", "reschedule"} /\ view' = Candidates
      BY <2>5 DEF LookStep, cluster
    <3>2. StepsAreProof'
      BY <1>0, <3>1 DEF StepsAreProof, Restarted, Replaced
    <3>3. ASSUME NEW a \in Apps, NEW n \in Names, <<a, n>> \in Candidates, stage = "restart"
          PROVE  WasRestarted(pods[a][n])
      <4>1. pods[a][n].st = "ready" /\ pods[a][n].restarts > 0
        BY <3>3 DEF Candidates, Qualifies
      <4> QED BY <4>1 DEF WasRestarted, LogOf
    <3>4. ASSUME NEW a \in Apps, NEW n \in Names, <<a, n>> \in Candidates, stage = "reschedule"
          PROVE  a \in DOMAIN old /\ n # old[a]
      BY <3>4 DEF Candidates, Qualifies, Awaited
    <3>5. ViewIsRight'
      BY <3>1, <3>3, <3>4 DEF ViewIsRight
    <3> QED BY <2>2, <3>2, <3>5 DEF ProofInv
  <2>6. ASSUME NEW a \in Apps, NEW n \in Names, ReadLog(a, n) PROVE ProofInv'
    <3>1. ViewIsRight'
      BY <1>0, <2>6 DEF ReadLog, ViewIsRight, cluster
    <3> QED BY <2>2, <2>6, <3>1, ReadLogsAreProof DEF ProofInv
  <2>7. CASE RestartEnds
    <3>1. Kept
      BY <1>0, <2>1, <2>7 DEF RestartEnds, StepEnds, FailedInStep, Awaited, ViewIsRight,
                              StepsAreProof, Restarted
    <3> QED BY <2>2, <3>1 DEF ProofInv
  <2>8. CASE ListForDelete
    <3>1. Kept
      BY <1>0, <2>1, <2>8 DEF ListForDelete, ViewIsRight, StepsAreProof, Restarted
    <3> QED BY <2>2, <3>1 DEF ProofInv
  <2>9. CASE DeletesEnd \/ \E a \in Apps : DeletePod(a)
    <3>1. Kept
      BY <1>0, <2>1, <2>9 DEF DeletesEnd, DeletePod, ViewIsRight, StepsAreProof, Restarted,
                              cluster
    <3> QED BY <2>2, <3>1 DEF ProofInv
  <2>10. CASE RescheduleEnds
    <3>1. Kept
      BY <1>0, <2>1, <2>10 DEF RescheduleEnds, StepEnds, FailedInStep, Awaited, ViewIsRight,
                               StepsAreProof, Restarted, Replaced
    <3> QED BY <2>2, <3>1 DEF ProofInv
  <2> QED BY <1>3, <2>3, <2>4, <2>5, <2>6, <2>7, <2>8, <2>9, <2>10 DEF Driver
<1> QED BY <1>1, <1>2, <1>3 DEF Next

LEMMA ProofHolds == Spec => []ProofInv
<1>1. Init => ProofInv
  <2>1. NoPod.log = "empty"
    BY DEF NoPod
  <2> QED BY <2>1 DEF Init, ProofInv, LogsAreReadBack, ViewIsRight, StepsAreProof
<1> QED BY <1>1, TypesHold, ProofStays, PTL DEF Spec

\* A wave that did not fail has read, for every app, its claim back from a
\* container that was restarted in place, and for every Pod it deleted from
\* one that replaced it - though it lists first and reads logs later, and the
\* cluster goes on in between (containers.rs hold).
THEOREM PassedWavesAreProof == Spec => []PassIsProof
<1>1. TypeInv /\ Accounted /\ ProofInv => PassIsProof
  <2> SUFFICES ASSUME TypeInv, Accounted, ProofInv, stage = "done", failed = {}
               PROVE  /\ \A a \in Apps : Restarted(a)
                      /\ \A a \in DOMAIN old : Replaced(a)
    BY DEF PassIsProof, Restarted, Replaced
  <2>1. Apps \subseteq ready
    BY DEF Accounted
  <2> QED BY <2>1 DEF ProofInv, StepsAreProof
<1> QED BY <1>1, AccountsHold, ProofHolds, PTL

-----------------------------------------------------------------------------
(* What a passed wave has rescheduled *)

BeforeDeletes == stage \in {"service", "ramp", "ready", "front", "restart", "list"}

\* Until the driver deletes Pods none is going, and a Ready app has one; and
\* then, if its list was answered, it has each app's that has not failed.
AllAreDeleted ==
  /\ BeforeDeletes =>
       /\ \A a \in Apps, n \in Names : ~pods[a][n].term
       /\ \A a \in ready : \E n \in Names : Listed(a, n)
  /\ ~BeforeDeletes /\ faults = Faults => ready \ failed \subseteq DOMAIN old

LEMMA NoPodGoes ==
  ASSUME TypeInv, \A a \in Apps, n \in Names : ~pods[a][n].term, Cluster
  PROVE  \A a \in Apps, n \in Names : ~pods'[a][n].term /\ (Listed(a, n) => Listed(a, n)')
<1>1. pods \in [Apps -> [Names -> Pod]]
  BY DEF TypeInv, TypeOK
<1>2. PICK a \in Apps : \/ Harm(a)
                        \/ \E n \in Names : PodStep(a, n)
  BY DEF Cluster, PodStep
<1>3. CASE Harm(a)
  BY <1>3 DEF Harm, Listed
<1>4. ASSUME NEW n \in Names, PodStep(a, n)
      PROVE  \A b \in Apps, m \in Names : ~pods'[b][m].term /\ (Listed(b, m) => Listed(b, m)')
  <2>. DEFINE p == pods[a][n]
              q == pods'[a][n]
  <2>1. p \in Pod /\ ~p.term
    BY <1>1
  <2>2. \A b \in Apps, m \in Names : <<b, m>> # <<a, n>> => pods'[b][m] = pods[b][m]
    BY <1>1, <1>4 DEF PodStep, MakePod, Start, BecomeReady, ExitOnce, RemovePod, SetPod
  <2>3. ASSUME NEW r, SetPod(a, n, r) PROVE q = r
    BY <1>1, <2>3 DEF SetPod
  <2>4. ~q.term /\ q.st \in {"waiting", "up", "ready"}
    <3>1. CASE MakePod(a, n)
      <4>1. q = [NoPod EXCEPT !.st = "waiting"]
        BY <2>3, <3>1 DEF MakePod
      <4> QED BY <4>1 DEF NoPod
    <3>2. CASE Start(a, n)
      <4>1. q = [p EXCEPT !.st = "up", !.log = CheckOrWrite(a), !.exits = a \notin marker]
        BY <2>3, <3>2 DEF Start
      <4> QED BY <2>1, <4>1 DEF Pod
    <3>3. CASE BecomeReady(a, n)
      <4>1. q = [p EXCEPT !.st = "ready"]
        BY <2>3, <3>3 DEF BecomeReady
      <4> QED BY <2>1, <4>1 DEF Pod
    <3>4. CASE ExitOnce(a, n)
      <4>1. q = [p EXCEPT !.st = "waiting", !.restarts = @ + 1]
        BY <2>3, <3>4 DEF ExitOnce
      <4> QED BY <2>1, <4>1 DEF Pod
    <3>5. CASE RemovePod(a, n)
      BY <2>1, <3>5 DEF RemovePod
    <3> QED BY <1>4, <3>1, <3>2, <3>3, <3>4, <3>5 DEF PodStep
  <2>. HIDE DEF p, q
  <2>5. ASSUME NEW b \in Apps, NEW m \in Names
        PROVE  ~pods'[b][m].term /\ (Listed(b, m) => Listed(b, m)')
    <3>1. CASE <<b, m>> = <<a, n>>
      BY <2>4, <3>1 DEF q, Listed
    <3>2. CASE <<b, m>> # <<a, n>>
      BY <2>2, <3>2 DEF Listed
    <3> QED BY <3>1, <3>2
  <2> QED BY <2>5
<1> QED BY <1>2, <1>3, <1>4

LEMMA AllStayDeleted ==
  ASSUME TypeInv, AllAreDeleted, [Next]_vars
  PROVE  AllAreDeleted'
<1>. USE DEF BeforeDeletes
<1>0. TypeOK /\ faults \in Nat /\ Faults \in Nat /\ faults <= Faults
  BY HoldAssumption DEF TypeInv, TypeOK
<1>1. CASE UNCHANGED vars
  BY <1>1 DEF vars, cluster, AllAreDeleted, Listed
<1>2. CASE Cluster
  <2>1. UNCHANGED <<faults, stage, ready, failed, old>> /\ ready \subseteq Apps
    BY <1>0, <1>2, ClusterLeavesTheDriver DEF TypeOK
  <2>2. CASE BeforeDeletes
    <3>1. \A a \in Apps, n \in Names : ~pods'[a][n].term /\ (Listed(a, n) => Listed(a, n)')
      BY <1>2, <2>2, NoPodGoes DEF AllAreDeleted
    <3> QED BY <2>1, <2>2, <3>1 DEF AllAreDeleted
  <2>3. CASE ~BeforeDeletes
    BY <2>1, <2>3 DEF AllAreDeleted
  <2> QED BY <2>2, <2>3
<1>3. CASE \/ CreateService \/ RampEnds \/ ReadyEnds \/ CheckService \/ LookStep
           \/ RestartEnds \/ \E a \in Apps : CreateApp(a) \/ CreateRefused(a) \/ CreateLost(a)
  <2>1. \/ UNCHANGED <<pods, ready>> /\ BeforeDeletes /\ BeforeDeletes'
        \/ UNCHANGED <<pods, ready, stage, faults, failed, old>>
    BY <1>3 DEF CreateService, RampEnds, ReadyEnds, CheckService, LookStep, RestartEnds,
                StepEnds, CreateApp, CreateRefused, CreateLost, Ramp, cluster
  <2> QED BY <2>1 DEF AllAreDeleted, Listed
<1>4. CASE LookReady
  BY <1>4 DEF LookReady, AllAreDeleted, Listed, cluster
<1>5. ASSUME NEW a \in Apps, NEW n \in Names, ReadLog(a, n) PROVE AllAreDeleted'
  BY <1>0, <1>5 DEF ReadLog, Fault, AllAreDeleted, Listed, cluster
<1>6. CASE ListForDelete
  <2>1. /\ stage = "list" /\ stage' = "delete" /\ UNCHANGED <<ready, failed>>
        /\ ready \subseteq Apps
    BY <1>0, <1>6 DEF ListForDelete, TypeOK
  <2>2. faults' = Faults => ~Fault
    BY <1>0 DEF Fault
  <2>3. faults' = Faults =>
          DOMAIN old' = { a \in ready \ failed :
                            \E n \in Names : Listed(a, n) /\ ~pods[a][n].term }
    BY <1>6, <2>2 DEF ListForDelete
  <2>4. \A a \in ready : \E n \in Names : Listed(a, n) /\ ~pods[a][n].term
    BY <2>1 DEF AllAreDeleted
  <2>5. faults' = Faults => ready \ failed \subseteq DOMAIN old'
    BY <2>3, <2>4
  <2> QED BY <2>1, <2>5 DEF AllAreDeleted
<1>7. ASSUME NEW a \in Apps, DeletePod(a) PROVE AllAreDeleted'
  BY <1>0, <1>7 DEF DeletePod, Fault, AllAreDeleted
<1>8. CASE DeletesEnd
  BY <1>8 DEF DeletesEnd, AllAreDeleted, cluster
<1>9. CASE RescheduleEnds
  BY <1>9 DEF RescheduleEnds, StepEnds, AllAreDeleted, cluster
<1> QED BY <1>1, <1>2, <1>3, <1>4, <1>5, <1>6, <1>7, <1>8, <1>9 DEF Next, Driver

LEMMA AllAreDeletedHolds == Spec => []AllAreDeleted
<1>1. Init => AllAreDeleted
  <2>1. ~NoPod.term
    BY DEF NoPod
  <2> QED BY <2>1 DEF Init, AllAreDeleted, BeforeDeletes
<1> QED BY <1>1, TypesHold, AllStayDeleted, PTL DEF Spec

\* A wave that did not fail has rescheduled all of its apps, if every request
\* was answered (containers.rs hold).
THEOREM PassedWavesRescheduleAll == Spec => []PassIsOfAll
<1>1. TypeInv /\ Accounted /\ AllAreDeleted => PassIsOfAll
  <2> SUFFICES ASSUME TypeInv, Accounted, AllAreDeleted, stage = "done", failed = {},
                      faults = Faults
               PROVE  DOMAIN old = Apps
    BY DEF PassIsOfAll
  <2>1. Apps \subseteq ready /\ ready \subseteq Apps /\ DOMAIN old \subseteq ready
    BY DEF Accounted, TypeInv, TypeOK
  <2> QED BY <2>1 DEF AllAreDeleted, BeforeDeletes
<1> QED BY <1>1, AccountsHold, AllAreDeletedHolds, PTL

-----------------------------------------------------------------------------
(* What a passed wave has not overlooked *)

Found(a, n) == pods[a][n].log = "found"

\* Only a Deployment's first Pod is deleted, and the second is made after that.
FirstThenSecond ==
  /\ BeforeDeletes => DOMAIN old = {}
  /\ \A a \in Apps :
       /\ a \in DOMAIN old => old[a] = 1
       /\ pods[a][1].term => a \in DOMAIN old
       /\ ~pods[a][2].term
       /\ pods[a][2].st # "absent" => pods[a][1].term
       /\ \A n \in Names :
            /\ pods[a][n].st = "gone" => pods[a][n].term
            /\ pods[a][n].st \in {"absent", "gone"} => pods[a][n].log = "empty"

\* A container that found its claim's data serves on; a claim with data and no
\* marker is that of a container that will exit, and so put one there.
FoundStays ==
  /\ \A a \in Apps, n \in Names : Found(a, n) => Running(a, n) /\ ~pods[a][n].exits
  /\ \A a \in Apps : data[a] # "nothing" /\ a \notin marker =>
       \E n \in Names : Running(a, n) /\ pods[a][n].exits

\* What was read is what is there: a Pod that was read and not deleted, and
\* the one that replaced it, are those whose containers found their data.
FoundAsRead ==
  /\ \A a \in DOMAIN old : Found(a, 1) \/ pods[a][1].st = "gone"
  /\ stage = "restart" => \A a \in done \ stepFailed : Found(a, 1)
  /\ stage \in {"list", "delete", "reschedule", "done"} =>
       \A a \in ready \ failed : Found(a, 1) \/ pods[a][1].st = "gone"
  /\ stage = "reschedule" => \A a \in done \ stepFailed : Found(a, 2)
  /\ stage = "done" => \A a \in DOMAIN old \ failed : Found(a, 2)

FoundInv == FirstThenSecond /\ FoundStays /\ FoundAsRead

\* What a step of a Pod makes of it.
PodMove(a, n, p, q) ==
  \/ /\ p.st = "absent" /\ q.st = "waiting" /\ q.log = "empty" /\ ~q.term
     /\ n = 2 => pods[a][1].term
     /\ UNCHANGED <<data, marker>>
  \/ /\ p.st = "waiting" /\ q.st = "up" /\ ~p.term /\ ~q.term
     /\ q.log = CheckOrWrite(a) /\ q.exits = (a \notin marker)
     /\ UNCHANGED marker
     /\ \A b \in Apps : IF b = a THEN data'[b] # "nothing" ELSE data'[b] = data[b]
  \/ /\ p.st = "up" /\ q.st = "ready" /\ q.log = p.log /\ q.term = p.term /\ q.exits = p.exits
     /\ UNCHANGED <<data, marker>>
  \/ /\ p.st \in {"up", "ready"} /\ p.exits
     /\ q.st = "waiting" /\ q.log = p.log /\ q.term = p.term
     /\ marker' = marker \cup {a} /\ UNCHANGED data
  \/ /\ p.term /\ p.st \notin {"absent", "gone"}
     /\ q.st = "gone" /\ q.term /\ q.log = "empty"
     /\ UNCHANGED <<data, marker>>

LEMMA PodsMove ==
  ASSUME TypeInv, NEW a \in Apps, NEW n \in Names, PodStep(a, n)
  PROVE  /\ PodMove(a, n, pods[a][n], pods'[a][n])
         /\ \A b \in Apps, m \in Names : <<b, m>> # <<a, n>> => pods'[b][m] = pods[b][m]
<1>. DEFINE p == pods[a][n]
            q == pods'[a][n]
<1>0. /\ pods \in [Apps -> [Names -> Pod]] /\ p \in Pod
      /\ data \in [Apps -> {"nothing", "kept", "garbled"}]
  BY DEF TypeInv, TypeOK
<1>1. \A b \in Apps, m \in Names : <<b, m>> # <<a, n>> => pods'[b][m] = pods[b][m]
  BY <1>0 DEF PodStep, MakePod, Start, BecomeReady, ExitOnce, RemovePod, SetPod
<1>2. ASSUME NEW r, SetPod(a, n, r) PROVE q = r
  BY <1>0, <1>2 DEF SetPod
<1>3. ASSUME MakePod(a, n) PROVE PodMove(a, n, p, q)
  <2>1. q = [NoPod EXCEPT !.st = "waiting"]
    BY <1>2, <1>3 DEF MakePod
  <2>2. q.st = "waiting" /\ q.log = "empty" /\ ~q.term
    BY <2>1 DEF NoPod
  <2>3. n = 2 => pods[a][1].term
    BY <1>3 DEF MakePod, Names
  <2> QED BY <1>3, <2>2, <2>3 DEF MakePod, PodMove
<1>4. ASSUME Start(a, n) PROVE PodMove(a, n, p, q)
  <2>. DEFINE said == CheckOrWrite(a)
  <2>1. q = [p EXCEPT !.st = "up", !.log = said, !.exits = a \notin marker]
    BY <1>2, <1>4 DEF Start
  <2>2. q.st = "up" /\ q.log = said /\ q.term = p.term /\ q.exits = (a \notin marker)
    BY <1>0, <2>1 DEF Pod
  <2>3. \A b \in Apps : IF b = a THEN data'[b] # "nothing" ELSE data'[b] = data[b]
    BY <1>0, <1>4 DEF Start, CheckOrWrite
  <2>4. p.st = "waiting" /\ ~p.term /\ marker' = marker
    BY <1>4 DEF Start
  <2> QED BY <2>2, <2>3, <2>4 DEF PodMove
<1>5. ASSUME BecomeReady(a, n) PROVE PodMove(a, n, p, q)
  <2>1. q = [p EXCEPT !.st = "ready"]
    BY <1>2, <1>5 DEF BecomeReady
  <2>2. q.st = "ready" /\ q.log = p.log /\ q.term = p.term /\ q.exits = p.exits
    BY <1>0, <2>1 DEF Pod
  <2> QED BY <1>5, <2>2 DEF BecomeReady, PodMove
<1>6. ASSUME ExitOnce(a, n) PROVE PodMove(a, n, p, q)
  <2>1. q = [p EXCEPT !.st = "waiting", !.restarts = @ + 1]
    BY <1>2, <1>6 DEF ExitOnce
  <2>2. q.st = "waiting" /\ q.log = p.log /\ q.term = p.term
    BY <1>0, <2>1 DEF Pod
  <2> QED BY <1>6, <2>2 DEF ExitOnce, Running, PodMove
<1>7. ASSUME RemovePod(a, n) PROVE PodMove(a, n, p, q)
  <2>1. q = [NoPod EXCEPT !.st = "gone", !.term = TRUE]
    BY <1>2, <1>7 DEF RemovePod
  <2>2. q.st = "gone" /\ q.log = "empty" /\ q.term
    BY <2>1 DEF NoPod
  <2> QED BY <1>7, <2>2 DEF RemovePod, PodMove
<1> QED BY <1>1, <1>3, <1>4, <1>5, <1>6, <1>7 DEF PodStep

\* A Pod that is deleted is only marked.
LEMMA DeletesMark ==
  ASSUME TypeInv, NEW a \in Apps, DeletePod(a)
  PROVE  /\ a \in DOMAIN old
         /\ \A b \in Apps, m \in Names :
              /\ pods'[b][m].st = pods[b][m].st /\ pods'[b][m].log = pods[b][m].log
              /\ pods'[b][m].exits = pods[b][m].exits
              /\ <<b, m>> # <<a, old[a]>> => pods'[b][m].term = pods[b][m].term
              /\ pods[b][m].term => pods'[b][m].term
<1>. DEFINE p == [pods[a][old[a]] EXCEPT !.term = TRUE]
<1>1. /\ a \in DOMAIN old /\ old[a] \in Names
      /\ pods \in [Apps -> [Names -> Pod]] /\ pods[a][old[a]] \in Pod
  BY DEF DeletePod, TypeInv, DeletesAreOfOld, TypeOK
<1>2. /\ p \in Pod /\ p.st = pods[a][old[a]].st /\ p.log = pods[a][old[a]].log
      /\ p.exits = pods[a][old[a]].exits /\ p.term
  BY <1>1 DEF Pod
<1>3. pods' = pods \/ SetPod(a, old[a], p)
  BY DEF DeletePod
<1>. HIDE DEF p
<1>4. CASE pods' = pods
  BY <1>1, <1>4
<1>5. CASE SetPod(a, old[a], p)
  <2>1. pods'[a][old[a]] = p
    BY <1>1, <1>2, <1>5, OnePodChanges
  <2>2. \A b \in Apps, m \in Names : <<b, m>> # <<a, old[a]>> => pods'[b][m] = pods[b][m]
    BY <1>1, <1>2, <1>5, OnePodChanges
  <2>3. ASSUME NEW b \in Apps, NEW m \in Names
        PROVE  /\ pods'[b][m].st = pods[b][m].st /\ pods'[b][m].log = pods[b][m].log
               /\ pods'[b][m].exits = pods[b][m].exits
               /\ <<b, m>> # <<a, old[a]>> => pods'[b][m].term = pods[b][m].term
               /\ pods[b][m].term => pods'[b][m].term
    <3>1. CASE <<b, m>> = <<a, old[a]>>
      BY <1>2, <2>1, <3>1
    <3>2. CASE <<b, m>> # <<a, old[a]>>
      BY <2>2, <3>2
    <3> QED BY <3>1, <3>2
  <2> QED BY <1>1, <2>3
<1> QED BY <1>3, <1>4, <1>5

\* The cluster's steps.
LEMMA ClusterKeepsFound ==
  ASSUME TypeInv, FoundInv, Cluster
  PROVE  FoundInv'
<1>0. /\ UNCHANGED <<stage, ready, failed, done, stepFailed, old>>
      /\ ready \subseteq Apps /\ DOMAIN old \subseteq Apps /\ done \subseteq Apps
      /\ data \in [Apps -> {"nothing", "kept", "garbled"}]
  BY ClusterLeavesTheDriver DEF TypeInv, TypeOK
<1>1. PICK a \in Apps : \/ Harm(a)
                        \/ \E n \in Names : PodStep(a, n)
  BY DEF Cluster, PodStep
<1>2. CASE Harm(a)
  <2>1. pods' = pods
    BY <1>2 DEF Harm
  <2>2. FirstThenSecond' /\ FoundAsRead'
    BY <1>0, <2>1 DEF FoundInv, FirstThenSecond, FoundAsRead, Found, BeforeDeletes
  <2>3. \A n \in Names : ~Running(a, n)
    BY <1>2 DEF Harm
  <2>4. \/ data'[a] = "nothing"
        \/ marker' = marker /\ data[a] # "nothing"
    BY <1>0, <1>2 DEF Harm
  <2>5. \A b \in Apps : b # a => data'[b] = data[b] /\ (b \in marker <=> b \in marker')
    BY <1>0, <1>2 DEF Harm
  <2>6. \A n \in Names, b \in Apps : (Running(b, n) <=> Running(b, n)') /\ (Found(b, n) <=> Found(b, n)')
    BY <2>1 DEF Running, Found
  <2>7. FoundStays'
    BY <2>1, <2>3, <2>4, <2>5, <2>6 DEF FoundInv, FoundStays
  <2> QED BY <2>2, <2>7 DEF FoundInv
<1>3. ASSUME NEW n \in Names, PodStep(a, n) PROVE FoundInv'
  <2>. DEFINE p == pods[a][n]
              q == pods'[a][n]
  <2>1. PodMove(a, n, p, q)
    BY <1>3, PodsMove
  <2>2. \A b \in Apps, m \in Names : <<b, m>> # <<a, n>> => pods'[b][m] = pods[b][m]
    BY <1>3, PodsMove
  <2>3. n \in {1, 2} /\ 1 \in Names /\ 2 \in Names /\ \A m \in Names : m \in {1, 2}
    BY DEF Names
  <2>9. p.st \in {"absent", "waiting"} => ~p.term
    BY <2>3 DEF FoundInv, FirstThenSecond, FoundAsRead, FoundStays, Found, Running
  <2>4. \/ p.log = "found" => q.log = "found"
        \/ n = 1 /\ q.st = "gone"
    BY <2>1, <2>3 DEF PodMove, FoundInv, FirstThenSecond, FoundStays, Found, Running
  <2>5. p.st = "gone" => q.st = "gone"
    BY <2>1 DEF PodMove
  <2>6. FoundAsRead'
    <3>1. \A b \in Apps, m \in Names :
            /\ Found(b, m) => \/ Found(b, m)'
                              \/ m = 1 /\ pods'[b][m].st = "gone"
            /\ pods[b][m].st = "gone" => pods'[b][m].st = "gone"
      BY <2>2, <2>4, <2>5 DEF Found
    <3>2. \A b \in Apps : BeforeDeletes /\ Found(b, 1) => Found(b, 1)'
      <4>1. BeforeDeletes => ~pods[a][1].term
        BY DEF FoundInv, FirstThenSecond
      <4>2. BeforeDeletes /\ n = 1 /\ p.log = "found" => q.log = "found"
        BY <2>1, <4>1 DEF PodMove, FoundInv, FoundStays, Found, Running
      <4> QED BY <2>2, <2>3, <4>2 DEF Found
    <3> QED BY <1>0, <2>3, <3>1, <3>2 DEF FoundInv, FoundAsRead, BeforeDeletes
  <2>7. FirstThenSecond'
    <3>1. /\ q.term => p.term \/ q.st = "gone"
          /\ q.st = "gone" => q.term /\ p.term
          /\ p.term => q.term
          /\ p.st # "absent" => q.st # "absent"
          /\ q.st \in {"absent", "gone"} => q.log = "empty"
      BY <2>1, <2>9 DEF PodMove, FoundInv, FirstThenSecond
    <3>2. n = 2 => pods[a][1].term
      BY <2>1, <2>3 DEF PodMove, FoundInv, FirstThenSecond
    <3>3. ASSUME NEW b \in Apps
          PROVE  /\ b \in DOMAIN old => old[b] = 1
                 /\ pods'[b][1].term => b \in DOMAIN old
                 /\ ~pods'[b][2].term
                 /\ pods'[b][2].st # "absent" => pods'[b][1].term
                 /\ \A m \in Names :
                      /\ pods'[b][m].st = "gone" => pods'[b][m].term
                      /\ pods'[b][m].st \in {"absent", "gone"} => pods'[b][m].log = "empty"
      <4>1. CASE b # a
        BY <2>2, <2>3, <4>1 DEF FoundInv, FirstThenSecond
      <4>2. CASE b = a
        BY <2>2, <2>3, <3>1, <3>2, <4>2 DEF FoundInv, FirstThenSecond
      <4> QED BY <4>1, <4>2
    <3> QED BY <1>0, <3>3 DEF FoundInv, FirstThenSecond, BeforeDeletes
  <2>8. FoundStays'
    <3>1. q.log = "found" => q.st \in {"up", "ready"} /\ ~q.exits
      <4>1. CASE p.st = "waiting" /\ q.log = "found"
        <5>1. /\ ~p.term /\ CheckOrWrite(a) = "found" /\ q.st = "up"
              /\ q.exits = (a \notin marker)
          BY <2>1, <4>1 DEF PodMove, FoundInv, FirstThenSecond
        <5>2. data[a] # "nothing"
          BY <5>1 DEF CheckOrWrite
        <5>3. ASSUME a \notin marker PROVE FALSE
          <6>1. PICK m \in Names : Running(a, m) /\ pods[a][m].exits
            BY <5>2, <5>3 DEF FoundInv, FoundStays
          <6>2. m # n /\ pods[a][m].st \notin {"absent", "gone"}
            BY <4>1, <6>1 DEF Running
          <6>3. n = 2 /\ m = 1
            BY <2>3, <4>1, <5>1, <6>2 DEF FoundInv, FirstThenSecond
          <6>4. Found(a, 1) \/ pods[a][1].st = "gone"
            BY <4>1, <6>3 DEF FoundInv, FirstThenSecond, FoundAsRead
          <6> QED BY <2>3, <6>1, <6>2, <6>3, <6>4 DEF FoundInv, FoundStays
        <5> QED BY <5>1, <5>3
      <4>2. CASE p.st # "waiting"
        BY <2>1, <4>2 DEF PodMove, FoundInv, FoundStays, Found, Running
      <4> QED BY <4>1, <4>2
    <3>2. \A b \in Apps, m \in Names : Found(b, m)' => Running(b, m)' /\ ~pods'[b][m].exits
      BY <2>2, <3>1 DEF FoundInv, FoundStays, Found, Running
    <3>3. ASSUME data'[a] # "nothing", a \notin marker'
          PROVE  \E m \in Names : Running(a, m)' /\ pods'[a][m].exits
      <4>1. a \notin marker
        BY <2>1, <3>3 DEF PodMove
      <4>2. CASE p.st = "waiting"
        <5>1. q.st = "up" /\ q.exits
          BY <2>1, <2>9, <4>1, <4>2 DEF PodMove
        <5> QED BY <5>1 DEF Running
      <4>3. CASE p.st # "waiting"
        <5>1. data[a] # "nothing"
          BY <2>1, <3>3, <4>3 DEF PodMove
        <5>2. PICK m \in Names : Running(a, m) /\ pods[a][m].exits
          BY <4>1, <5>1 DEF FoundInv, FoundStays
        <5>3. CASE m # n
          BY <2>2, <5>2, <5>3 DEF Running
        <5>4. CASE m = n
          <6>1. ~p.term
            <7>1. ASSUME p.term PROVE FALSE
              <8>1. n = 1 /\ a \in DOMAIN old
                BY <2>3, <7>1 DEF FoundInv, FirstThenSecond
              <8>2. Found(a, n)
                BY <5>2, <5>4, <8>1 DEF FoundInv, FoundAsRead, Running
              <8> QED BY <5>2, <5>4, <8>2 DEF FoundInv, FoundStays
            <7> QED BY <7>1
          <6>2. q.st \in {"up", "ready"} /\ q.exits
            BY <2>1, <3>3, <4>3, <5>2, <5>4, <6>1 DEF PodMove, Running
          <6> QED BY <5>4, <6>2 DEF Running
        <5> QED BY <5>3, <5>4
      <4> QED BY <4>2, <4>3
    <3>4. ASSUME NEW b \in Apps, b # a, data'[b] # "nothing", b \notin marker'
          PROVE  \E m \in Names : Running(b, m)' /\ pods'[b][m].exits
      <4>1. data[b] # "nothing" /\ b \notin marker
        BY <2>1, <3>4 DEF PodMove
      <4>2. PICK m \in Names : Running(b, m) /\ pods[b][m].exits
        BY <4>1 DEF FoundInv, FoundStays
      <4> QED BY <2>2, <3>4, <4>2 DEF Running
    <3> QED BY <3>2, <3>3, <3>4 DEF FoundStays
  <2> QED BY <2>6, <2>7, <2>8 DEF FoundInv
<1> QED BY <1>1, <1>2, <1>3

\* The driver's steps.
LEMMA DriverKeepsFound ==
  ASSUME TypeInv, ProofInv, FoundInv, Driver
  PROVE  FoundInv'
<1>0. /\ ready \subseteq Apps /\ DOMAIN old \subseteq ready
      /\ 1 \in Names /\ 2 \in Names /\ \A m \in Names : m \in {1, 2}
      /\ stage \notin {"restart", "reschedule"} => done = {}
  BY DEF TypeInv, TypeOK, Names, ProofInv, StepsAreProof
<1>1. ASSUME pods' = pods, data' = data, marker' = marker PROVE FoundStays'
  BY <1>1 DEF FoundInv, FoundStays, Found, Running
<1>2. ASSUME pods' = pods, old' = old, BeforeDeletes' => BeforeDeletes PROVE FirstThenSecond'
  BY <1>2 DEF FoundInv, FirstThenSecond, BeforeDeletes
<1>3. CASE \/ CreateService \/ RampEnds \/ LookReady \/ ReadyEnds \/ CheckService
           \/ \E a \in Apps : CreateApp(a) \/ CreateRefused(a) \/ CreateLost(a)
  <2>1. /\ UNCHANGED <<pods, data, marker, old, done, stepFailed>>
        /\ stage \in {"service", "ramp", "ready", "front"}
        /\ stage' \in {"service", "ramp", "ready", "front", "restart"}
    BY <1>3 DEF CreateService, RampEnds, LookReady, ReadyEnds, CheckService, CreateApp,
                CreateRefused, CreateLost, Ramp, cluster
  <2>2. FoundAsRead'
    BY <1>0, <2>1 DEF FoundInv, FoundAsRead, Found
  <2>3. FirstThenSecond'
    BY <1>2, <2>1 DEF BeforeDeletes
  <2> QED BY <1>1, <2>1, <2>2, <2>3 DEF FoundInv
<1>4. CASE LookStep
  <2>1. UNCHANGED <<cluster, stage, ready, failed, done, stepFailed, old>>
    BY <1>4 DEF LookStep
  <2>2. FoundAsRead'
    BY <2>1 DEF FoundInv, FoundAsRead, Found, cluster
  <2>3. FirstThenSecond' /\ FoundStays'
    BY <1>1, <1>2, <2>1 DEF cluster, BeforeDeletes
  <2> QED BY <2>2, <2>3 DEF FoundInv
<1>5. ASSUME NEW a \in Apps, NEW n \in Names, ReadLog(a, n) PROVE FoundInv'
  <2>1. UNCHANGED <<cluster, stage, ready, failed, old>> /\ <<a, n>> \in view
    BY <1>5 DEF ReadLog
  <2>2. \/ done' \ stepFailed' \subseteq done \ stepFailed
        \/ /\ Found(a, n)
           /\ done' = done \cup {a} /\ stepFailed' = stepFailed
    BY <1>5 DEF ReadLog, Found
  <2>3. stage = "restart" /\ Found(a, n) => n = 1
    BY <1>0 DEF FoundInv, FirstThenSecond, Found, BeforeDeletes
  <2>4. stage = "reschedule" => n = 2
    BY <1>0, <2>1 DEF FoundInv, FirstThenSecond, ProofInv, ViewIsRight
  <2>5. FoundAsRead'
    BY <2>1, <2>2, <2>3, <2>4 DEF FoundInv, FoundAsRead, Found, cluster
  <2>6. FirstThenSecond' /\ FoundStays'
    BY <1>1, <1>2, <2>1 DEF cluster, BeforeDeletes
  <2> QED BY <2>5, <2>6 DEF FoundInv
<1>6. CASE RestartEnds
  <2>1. /\ UNCHANGED <<cluster, ready, old>> /\ stage = "restart" /\ stage' = "list"
        /\ done' = {} /\ failed' = failed \cup stepFailed \cup (ready \ done)
    BY <1>6 DEF RestartEnds, StepEnds, FailedInStep, Awaited
  <2>2. FoundAsRead'
    BY <2>1 DEF FoundInv, FoundAsRead, Found, cluster
  <2>3. FirstThenSecond' /\ FoundStays'
    BY <1>1, <1>2, <2>1 DEF cluster, BeforeDeletes
  <2> QED BY <2>2, <2>3 DEF FoundInv
<1>7. CASE ListForDelete
  <2>1. /\ UNCHANGED <<cluster, ready, failed, done, stepFailed>>
        /\ stage = "list" /\ stage' = "delete"
    BY <1>7 DEF ListForDelete
  <2>2. DOMAIN old = {} /\ \A a \in Apps : ~pods[a][1].term
    BY <2>1 DEF FoundInv, FirstThenSecond, BeforeDeletes
  <2>3. /\ DOMAIN old' \subseteq ready \ failed
        /\ \A a \in DOMAIN old' : old'[a] \in Names /\ Listed(a, old'[a])
    BY <1>7, <2>2 DEF ListForDelete
  <2>4. ASSUME NEW a \in DOMAIN old' PROVE old'[a] = 1
    <3>1. a \in Apps /\ old'[a] \in {1, 2} /\ pods[a][old'[a]].st # "absent"
      BY <1>0, <2>3 DEF Listed
    <3> QED BY <2>2, <3>1 DEF FoundInv, FirstThenSecond
  <2>5. FirstThenSecond'
    BY <2>1, <2>2, <2>4 DEF FoundInv, FirstThenSecond, BeforeDeletes, cluster
  <2>6. FoundAsRead'
    BY <2>1, <2>3 DEF FoundInv, FoundAsRead, Found, cluster
  <2> QED BY <1>1, <2>1, <2>5, <2>6 DEF FoundInv, cluster
<1>8. ASSUME NEW a \in Apps, DeletePod(a) PROVE FoundInv'
  <2>1. /\ UNCHANGED <<data, marker, stage, ready, failed, done, stepFailed, old>>
        /\ stage = "delete"
    BY <1>8 DEF DeletePod
  <2>2. /\ a \in DOMAIN old /\ old[a] = 1
        /\ \A b \in Apps, m \in Names :
             /\ pods'[b][m].st = pods[b][m].st /\ pods'[b][m].log = pods[b][m].log
             /\ pods'[b][m].exits = pods[b][m].exits
             /\ <<b, m>> # <<a, 1>> => pods'[b][m].term = pods[b][m].term
             /\ pods[b][m].term => pods'[b][m].term
    BY <1>8, DeletesMark DEF FoundInv, FirstThenSecond
  <2>3. FoundAsRead'
    BY <1>0, <2>1, <2>2 DEF FoundInv, FoundAsRead, Found
  <2>4. FoundStays'
    BY <2>1, <2>2 DEF FoundInv, FoundStays, Found, Running
  <2>5. ASSUME NEW b \in Apps
        PROVE  /\ b \in DOMAIN old => old[b] = 1
               /\ pods'[b][1].term => b \in DOMAIN old
               /\ ~pods'[b][2].term
               /\ pods'[b][2].st # "absent" => pods'[b][1].term
               /\ \A m \in Names :
                    /\ pods'[b][m].st = "gone" => pods'[b][m].term
                    /\ pods'[b][m].st \in {"absent", "gone"} => pods'[b][m].log = "empty"
    BY <1>0, <2>2 DEF FoundInv, FirstThenSecond
  <2>6. FirstThenSecond'
    BY <2>1, <2>5 DEF FirstThenSecond, BeforeDeletes
  <2> QED BY <2>3, <2>4, <2>6 DEF FoundInv
<1>9. CASE DeletesEnd
  <2>1. /\ UNCHANGED <<cluster, ready, failed, done, stepFailed, old>>
        /\ stage = "delete" /\ stage' = "reschedule"
    BY <1>9 DEF DeletesEnd
  <2>2. FoundAsRead'
    BY <1>0, <2>1 DEF FoundInv, FoundAsRead, Found, cluster
  <2>3. FirstThenSecond' /\ FoundStays'
    BY <1>1, <1>2, <2>1 DEF cluster, BeforeDeletes
  <2> QED BY <2>2, <2>3 DEF FoundInv
<1>10. CASE RescheduleEnds
  <2>1. /\ UNCHANGED <<cluster, ready, old>> /\ stage = "reschedule" /\ stage' = "done"
        /\ done' = {} /\ failed' = failed \cup stepFailed \cup (DOMAIN old \ done)
    BY <1>10 DEF RescheduleEnds, StepEnds, FailedInStep, Awaited
  <2>2. FoundAsRead'
    BY <2>1 DEF FoundInv, FoundAsRead, Found, cluster
  <2>3. FirstThenSecond' /\ FoundStays'
    BY <1>1, <1>2, <2>1 DEF cluster, BeforeDeletes
  <2> QED BY <2>2, <2>3 DEF FoundInv
<1> QED BY <1>3, <1>4, <1>5, <1>6, <1>7, <1>8, <1>9, <1>10 DEF Driver

LEMMA FoundHolds == Spec => []FoundInv
<1>1. Init => FoundInv
  <2>1. NoPod.st = "absent" /\ NoPod.log = "empty" /\ ~NoPod.term
    BY DEF NoPod
  <2>2. 1 \in Names /\ 2 \in Names
    BY DEF Names
  <2> QED BY <2>1, <2>2 DEF Init, FoundInv, FirstThenSecond, FoundStays, FoundAsRead, Found
<1>2. ASSUME TypeInv, ProofInv, FoundInv, UNCHANGED vars PROVE FoundInv'
  BY <1>2 DEF vars, cluster, FoundInv, FirstThenSecond, FoundStays, FoundAsRead, Found, Running,
              BeforeDeletes
<1>3. TypeInv /\ ProofInv /\ FoundInv /\ [Next]_vars => FoundInv'
  BY <1>2, ClusterKeepsFound, DriverKeepsFound DEF Next
<1> QED BY <1>1, <1>3, TypesHold, ProofHolds, PTL DEF Spec

\* In a wave that did not fail no container has read garbled data: one that
\* found its data serves on, and the others were read (containers.rs hold).
THEOREM GarbledClaimsAreSeen == Spec => []MismatchIsSeen
<1>1. TypeInv /\ Accounted /\ FoundInv => MismatchIsSeen
  <2> SUFFICES ASSUME TypeInv, Accounted, FoundInv, stage = "done", failed = {},
                      NEW a \in Apps, NEW n \in Names
               PROVE  pods[a][n].log # "mismatch"
    BY DEF MismatchIsSeen
  <2>1. a \in ready /\ n \in {1, 2}
    BY DEF Accounted, Names
  <2>2. CASE n = 1
    BY <2>1, <2>2 DEF FoundInv, FoundAsRead, FirstThenSecond, Found
  <2>3. CASE n = 2
    BY <2>3 DEF FoundInv, FoundAsRead, FirstThenSecond, Found
  <2> QED BY <2>1, <2>2, <2>3
<1> QED BY <1>1, AccountsHold, FoundHolds, PTL

-----------------------------------------------------------------------------
(* The failed-start case: types, and what the cluster may do to its VMs *)

\* A line is written over the one its check had.
LEMMA LinesAreWritten ==
  ASSUME NEW check, NEW status, F!Line(check, status)
  PROVE  /\ DOMAIN lines' = DOMAIN lines \cup {check}
         /\ lines'[check] = status
         /\ \A c \in DOMAIN lines : c # check => lines'[c] = lines[c]
         /\ fsFailed' = (fsFailed \/ status # "pass")
  BY DEF F!Line

LEMMA LinesStayTyped ==
  ASSUME F!TypeOK, NEW check \in F!Checks, NEW status \in {"pass", "fail", "infra"},
         F!Line(check, status)
  PROVE  /\ DOMAIN lines' \subseteq F!Checks
         /\ \A c \in DOMAIN lines' : lines'[c] \in {"pass", "fail", "infra"}
         /\ fsFailed' \in BOOLEAN
<1>1. /\ DOMAIN lines' = DOMAIN lines \cup {check}
      /\ lines'[check] = status
      /\ \A c \in DOMAIN lines : c # check => lines'[c] = lines[c]
  BY LinesAreWritten
<1>2. fsFailed' \in BOOLEAN
  BY DEF F!Line
<1> QED BY <1>1, <1>2 DEF F!TypeOK

LEMMA OneVmChanges ==
  ASSUME vm \in [F!Vms -> F!Vm], NEW v \in F!Vms, NEW q \in F!Vm, vm' = [vm EXCEPT ![v] = q]
  PROVE  /\ vm' \in [F!Vms -> F!Vm] /\ vm'[v] = q
         /\ \A w \in F!Vms : w # v => vm'[w] = vm[w]
  OBVIOUS

\* What a VM may become.
LEMMA VmsStayVms ==
  ASSUME NEW p \in F!Vm
  PROVE  /\ \A g \in Nat, w \in BOOLEAN, a \in F!Attempt :
              [p EXCEPT !.gen = g, !.phase = "pending", !.wired = w, !.restart = FALSE,
                        !.last = a] \in F!Vm
         /\ \A f \in {"none", "pending", "failed", "running"} : [p EXCEPT !.phase = f] \in F!Vm
         /\ \A b \in BOOLEAN : /\ [p EXCEPT !.trying = b] \in F!Vm
                               /\ [p EXCEPT !.failing = b] \in F!Vm
                               /\ [p EXCEPT !.made = b] \in F!Vm
         /\ [p EXCEPT !.fixed = TRUE] \in F!Vm
         /\ [p EXCEPT !.restart = TRUE] \in F!Vm
         /\ \A f \in {"failed", "pending"}, a \in F!Attempt :
              [p EXCEPT !.trying = FALSE, !.phase = f, !.last = a] \in F!Vm
         /\ \A g \in Nat, a \in F!Attempt :
              [p EXCEPT !.phase = "pending", !.gen = g, !.last = a] \in F!Vm
  BY DEF F!Vm

\* What a step of the cluster makes of the first VM: its VMI is only followed by
\* another where there is none, and goes only for a restart, between attempts.
AlwaysMove(p, q) ==
  /\ q.fixed = p.fixed
  /\ q.trying => q.phase = "pending"
  /\ \/ /\ p.phase = "none" /\ q.phase = "pending" /\ q.gen = p.gen + 1
        /\ q.wired = p.fixed /\ q.restart = FALSE
     \/ /\ q.gen = p.gen /\ q.wired = p.wired /\ q.restart = p.restart
        /\ p.phase = "none" => q.phase = "none"
        /\ q.phase = "none" => p.phase = "none" \/ p.restart

VmsMove ==
  vm' \in [F!Vms -> F!Vm] /\ AlwaysMove(vm["always"], vm'["always"])

LEMMA OneVmMoves ==
  ASSUME F!TypeOK, vm["always"].trying => vm["always"].phase = "pending",
         NEW v \in F!Vms, NEW q \in F!Vm, vm' = [vm EXCEPT ![v] = q],
         v = "always" => AlwaysMove(vm[v], q)
  PROVE  VmsMove
<1>1. /\ vm' \in [F!Vms -> F!Vm] /\ vm'[v] = q
      /\ \A w \in F!Vms : w # v => vm'[w] = vm[w]
  BY OneVmChanges DEF F!TypeOK
<1>2. "always" \in F!Vms
  BY DEF F!Vms
<1> QED BY <1>1, <1>2 DEF VmsMove, AlwaysMove

LEMMA ClusterMoves ==
  ASSUME F!TypeOK, CaseHarms \in Nat, F!Cluster,
         vm["always"].trying => vm["always"].phase = "pending"
  PROVE  /\ UNCHANGED <<fsFaults, F!driver>> /\ fsHarms' \in 0..CaseHarms
         /\ left' \in [F!Vms -> SUBSET {"volumes", "registrations", "taps"}]
         /\ \A v \in F!Vms : left[v] \subseteq left'[v]
         /\ VmsMove
<1>0. UNCHANGED <<fsFaults, F!driver>> /\ vm \in [F!Vms -> F!Vm]
  BY DEF F!Cluster, F!TypeOK
<1>1. ASSUME NEW v \in F!Vms, F!MakeVmi(v) PROVE VmsMove
  <2>. DEFINE q == [vm[v] EXCEPT !.gen = vm[v].gen + 1, !.phase = "pending",
                                 !.wired = vm[v].fixed, !.restart = FALSE,
                                 !.last = [ n |-> 0, delay |-> 0 ]]
  <2>1. vm[v] \in F!Vm /\ vm[v].gen + 1 \in Nat /\ vm[v].fixed \in BOOLEAN
    BY <1>0 DEF F!Vm
  <2>2. vm' = [vm EXCEPT ![v] = q] /\ vm[v].phase = "none"
    BY <1>0, <1>1, <2>1 DEF F!MakeVmi
  <2>3. [ n |-> 0, delay |-> 0 ] \in F!Attempt
    BY DEF F!Attempt
  <2>4. q \in F!Vm
    BY <2>1, <2>3, VmsStayVms
  <2>5. /\ q.gen = vm[v].gen + 1 /\ q.phase = "pending" /\ q.wired = vm[v].fixed
        /\ q.fixed = vm[v].fixed /\ q.restart = FALSE /\ q.trying = vm[v].trying
    BY <2>1 DEF F!Vm
  <2>. HIDE DEF q
  <2>6. AlwaysMove(vm[v], q)
    BY <2>2, <2>5 DEF AlwaysMove
  <2> QED BY <2>2, <2>4, <2>6, OneVmMoves
<1>2. ASSUME NEW v \in F!Vms, F!StopVmi(v) PROVE VmsMove
  <2>. DEFINE q == [vm[v] EXCEPT !.phase = "none"]
  <2>1. vm[v] \in F!Vm
    BY <1>0
  <2>2. vm' = [vm EXCEPT ![v] = q] /\ vm[v].restart /\ ~vm[v].trying
    BY <1>0, <1>2, <2>1 DEF F!StopVmi
  <2>3. q \in F!Vm
    BY <2>1, VmsStayVms
  <2>4. /\ q.phase = "none" /\ q.gen = vm[v].gen /\ q.wired = vm[v].wired
        /\ q.fixed = vm[v].fixed /\ q.restart = vm[v].restart
        /\ q.trying = vm[v].trying
    BY <2>1 DEF F!Vm
  <2>. HIDE DEF q
  <2>5. AlwaysMove(vm[v], q)
    BY <2>2, <2>4 DEF AlwaysMove
  <2> QED BY <2>2, <2>3, <2>5, OneVmMoves
<1>3. ASSUME NEW v \in F!Vms, F!Try(v) PROVE VmsMove
  <2>. DEFINE q == [vm[v] EXCEPT !.trying = TRUE]
  <2>1. vm[v] \in F!Vm
    BY <1>0
  <2>2. vm' = [vm EXCEPT ![v] = q] /\ vm[v].phase = "pending"
    BY <1>0, <1>3, <2>1 DEF F!Try
  <2>3. q \in F!Vm
    BY <2>1, VmsStayVms
  <2>4. /\ q.phase = vm[v].phase /\ q.gen = vm[v].gen /\ q.wired = vm[v].wired
        /\ q.fixed = vm[v].fixed /\ q.restart = vm[v].restart
    BY <2>1 DEF F!Vm
  <2>. HIDE DEF q
  <2>5. AlwaysMove(vm[v], q)
    BY <2>2, <2>4 DEF AlwaysMove
  <2> QED BY <2>2, <2>3, <2>5, OneVmMoves
<1>4. ASSUME NEW v \in F!Vms, NEW d \in 0..1,
             vm' = [vm EXCEPT ![v].trying = FALSE,
                              ![v].phase = IF v = "once" THEN "failed" ELSE "pending",
                              ![v].last = [ n |-> @.n + 1, delay |-> @.delay + d ]],
             v = "always" => vm[v].phase # "none"
      PROVE  VmsMove
  <2>. DEFINE f == IF v = "once" THEN "failed" ELSE "pending"
              a == [ n |-> vm[v].last.n + 1, delay |-> vm[v].last.delay + d ]
              q == [vm[v] EXCEPT !.trying = FALSE, !.phase = f, !.last = a]
  <2>1. vm[v] \in F!Vm /\ vm[v].last \in F!Attempt
    BY <1>0 DEF F!Vm
  <2>2. vm' = [vm EXCEPT ![v] = q]
    BY <1>0, <1>4, <2>1
  <2>3. a \in F!Attempt
    <3>1. vm[v].last.n \in Nat /\ vm[v].last.delay \in Nat
      BY <2>1 DEF F!Attempt
    <3>2. vm[v].last.n + 1 \in Nat /\ vm[v].last.delay + d \in Nat
      BY <3>1
    <3> QED BY <3>2 DEF F!Attempt
  <2>4. f \in {"failed", "pending"} /\ (v = "always" => f = "pending")
    OBVIOUS
  <2>. HIDE DEF a, f
  <2>5. q \in F!Vm
    BY <2>1, <2>3, <2>4, VmsStayVms
  <2>6. /\ q.phase = f /\ q.gen = vm[v].gen /\ q.wired = vm[v].wired
        /\ q.fixed = vm[v].fixed /\ q.restart = vm[v].restart
        /\ q.trying = FALSE
    BY <2>1 DEF F!Vm
  <2>. HIDE DEF q
  <2>7. v = "always" => AlwaysMove(vm[v], q)
    BY <1>4, <2>4, <2>6 DEF AlwaysMove
  <2> QED BY <2>2, <2>5, <2>7, OneVmMoves
<1>5. ASSUME NEW v \in F!Vms, F!RunVmi(v) PROVE VmsMove
  <2>. DEFINE q == [vm[v] EXCEPT !.phase = "running"]
  <2>1. vm[v] \in F!Vm
    BY <1>0
  <2>2. vm' = [vm EXCEPT ![v] = q] /\ vm[v].phase = "pending" /\ ~vm[v].trying
    BY <1>0, <1>5, <2>1 DEF F!RunVmi
  <2>3. q \in F!Vm
    BY <2>1, VmsStayVms
  <2>4. /\ q.phase = "running" /\ q.gen = vm[v].gen /\ q.wired = vm[v].wired
        /\ q.fixed = vm[v].fixed /\ q.restart = vm[v].restart
        /\ q.trying = vm[v].trying
    BY <2>1 DEF F!Vm
  <2>. HIDE DEF q
  <2>5. AlwaysMove(vm[v], q)
    BY <2>2, <2>4 DEF AlwaysMove
  <2> QED BY <2>2, <2>3, <2>5, OneVmMoves
<1>6. ASSUME NEW v \in F!Vms, F!Report(v) PROVE VmsMove
  <2>. DEFINE b == vm[v].phase \in {"pending", "failed"} /\ vm[v].last.n > 0
              q == [vm[v] EXCEPT !.failing = b]
  <2>1. vm[v] \in F!Vm /\ b \in BOOLEAN
    BY <1>0
  <2>2. vm' = [vm EXCEPT ![v] = q]
    BY <1>0, <1>6, <2>1 DEF F!Report
  <2>. HIDE DEF b
  <2>3. q \in F!Vm
    BY <2>1, VmsStayVms
  <2>4. /\ q.phase = vm[v].phase /\ q.gen = vm[v].gen /\ q.wired = vm[v].wired
        /\ q.fixed = vm[v].fixed /\ q.restart = vm[v].restart
        /\ q.trying = vm[v].trying
    BY <2>1 DEF F!Vm
  <2>. HIDE DEF q
  <2>5. v = "always" => AlwaysMove(vm[v], q)
    BY <2>4 DEF AlwaysMove
  <2> QED BY <2>2, <2>3, <2>5, OneVmMoves
<1>7. ASSUME F!TryOnceAgain PROVE VmsMove
  <2>. DEFINE v == "once"
              q == [vm[v] EXCEPT !.phase = "pending", !.gen = vm[v].gen + 1,
                                 !.last = [ n |-> 0, delay |-> 0 ]]
  <2>1. v \in F!Vms /\ vm[v] \in F!Vm /\ vm[v].gen + 1 \in Nat
    BY <1>0 DEF F!Vms, F!Vm
  <2>2. vm' = [vm EXCEPT ![v] = q]
    BY <1>0, <1>7, <2>1 DEF F!TryOnceAgain
  <2>3. [ n |-> 0, delay |-> 0 ] \in F!Attempt
    BY DEF F!Attempt
  <2>4. q \in F!Vm
    BY <2>1, <2>3, VmsStayVms
  <2>. HIDE DEF q
  <2> QED BY <2>1, <2>2, <2>4, OneVmMoves
<1>8. ASSUME NEW v \in F!Vms, F!TryFails(v)
      PROVE  /\ left' \in [F!Vms -> SUBSET {"volumes", "registrations", "taps"}]
             /\ \A w \in F!Vms : left[w] \subseteq left'[w]
             /\ fsHarms' \in 0..CaseHarms
  <2>1. PICK p \in SUBSET {"volumes", "registrations", "taps"} :
          /\ left' = [left EXCEPT ![v] = @ \cup p]
          /\ UNCHANGED fsHarms \/ F!Harm
    BY <1>8 DEF F!TryFails
  <2>2. left \in [F!Vms -> SUBSET {"volumes", "registrations", "taps"}]
    BY DEF F!TypeOK
  <2>3. fsHarms' \in 0..CaseHarms
    BY <2>1 DEF F!TypeOK, F!Harm
  <2> QED BY <2>1, <2>2, <2>3
<1>9. ASSUME NEW v \in F!Vms, F!TryFails(v) PROVE VmsMove
  <2>1. v = "always" => vm[v].phase = "pending"
    BY <1>9 DEF F!TryFails
  <2> QED BY <1>4, <1>9, <2>1 DEF F!TryFails
<1>10. ASSUME NEW v \in F!Vms, \/ F!MakeVmi(v) \/ F!StopVmi(v) \/ F!Try(v)
                               \/ F!RunVmi(v) \/ F!Report(v)
       PROVE  left' = left /\ (fsHarms' = fsHarms \/ F!Harm)
  BY <1>10 DEF F!MakeVmi, F!StopVmi, F!Try, F!RunVmi, F!Report
<1>11. ASSUME F!TryOnceAgain PROVE left' = left /\ (fsHarms' = fsHarms \/ F!Harm)
  BY <1>11 DEF F!TryOnceAgain
<1>12. ASSUME left' = left, fsHarms' = fsHarms \/ F!Harm
       PROVE  /\ left' \in [F!Vms -> SUBSET {"volumes", "registrations", "taps"}]
              /\ \A w \in F!Vms : left[w] \subseteq left'[w]
              /\ fsHarms' \in 0..CaseHarms
  <2>1. fsHarms' \in 0..CaseHarms
    BY <1>12 DEF F!TypeOK, F!Harm
  <2> QED BY <1>12, <2>1 DEF F!TypeOK
<1> QED BY <1>0, <1>1, <1>2, <1>3, <1>5, <1>6, <1>7, <1>8, <1>9, <1>10, <1>11, <1>12 DEF F!Cluster

\* What a step of the driver makes of the first VM.
Ordered(p, q) ==
  /\ q.gen = p.gen /\ q.phase = p.phase /\ q.wired = p.wired /\ q.trying = p.trying
  /\ q.fixed = p.fixed \/ (pc = "fix" /\ q.fixed = TRUE)
  /\ q.restart = p.restart \/ pc = "restart"

LEMMA OneVmOrdered ==
  ASSUME F!TypeOK, NEW v \in F!Vms, NEW q \in F!Vm, vm' = [vm EXCEPT ![v] = q],
         v = "always" => Ordered(vm[v], q)
  PROVE  vm' \in [F!Vms -> F!Vm] /\ Ordered(vm["always"], vm'["always"])
<1>1. /\ vm' \in [F!Vms -> F!Vm] /\ vm'[v] = q
      /\ \A w \in F!Vms : w # v => vm'[w] = vm[w]
  BY OneVmChanges DEF F!TypeOK
<1>2. "always" \in F!Vms
  BY DEF F!Vms
<1> QED BY <1>1, <1>2 DEF Ordered

LEMMA DriverOrders ==
  ASSUME F!TypeOK, F!Driver
  PROVE  vm' \in [F!Vms -> F!Vm] /\ Ordered(vm["always"], vm'["always"])
<1>. DEFINE Goal == vm' \in [F!Vms -> F!Vm] /\ Ordered(vm["always"], vm'["always"])
<1>0. vm \in [F!Vms -> F!Vm] /\ "always" \in F!Vms /\ "once" \in F!Vms
  BY DEF F!TypeOK, F!Vms
<1>1. ASSUME vm' = vm PROVE Goal
  BY <1>0, <1>1 DEF Ordered
<1>2. ASSUME NEW v \in F!Vms, NEW m \in BOOLEAN, vm' = [vm EXCEPT ![v].made = m] PROVE Goal
  <2>. DEFINE q == [vm[v] EXCEPT !.made = m]
  <2>1. vm[v] \in F!Vm /\ vm' = [vm EXCEPT ![v] = q]
    BY <1>0, <1>2
  <2>2. q \in F!Vm
    BY <2>1, VmsStayVms
  <2>3. Ordered(vm[v], q)
    BY <2>1 DEF F!Vm, Ordered
  <2>. HIDE DEF q
  <2> QED BY <2>1, <2>2, <2>3, OneVmOrdered
<1>3. ASSUME pc = "fix", vm' = [vm EXCEPT !["always"].fixed = TRUE] PROVE Goal
  <2>. DEFINE p == vm["always"]
              q == [p EXCEPT !.fixed = TRUE]
  <2>1. p \in F!Vm /\ vm' = [vm EXCEPT !["always"] = q]
    BY <1>0, <1>3
  <2>2. q \in F!Vm
    BY <2>1, VmsStayVms
  <2>3. Ordered(p, q)
    BY <1>3, <2>1 DEF F!Vm, Ordered
  <2>. HIDE DEF q
  <2> QED BY <1>0, <2>1, <2>2, <2>3, OneVmOrdered
<1>4. ASSUME pc = "restart", vm' = [vm EXCEPT !["always"].restart = TRUE] PROVE Goal
  <2>. DEFINE p == vm["always"]
              q == [p EXCEPT !.restart = TRUE]
  <2>1. p \in F!Vm /\ vm' = [vm EXCEPT !["always"] = q]
    BY <1>0, <1>4
  <2>2. q \in F!Vm
    BY <2>1, VmsStayVms
  <2>3. Ordered(p, q)
    BY <1>4, <2>1 DEF F!Vm, Ordered
  <2>. HIDE DEF q
  <2> QED BY <1>0, <2>1, <2>2, <2>3, OneVmOrdered
<1>5. ASSUME F!CreateAlways \/ F!CreateOnce PROVE Goal
  BY <1>0, <1>2, <1>5 DEF F!CreateAlways, F!CreateOnce, F!Create
<1>6. ASSUME F!FixTemplate \/ F!PutRestart \/ F!RecoveryFails PROVE Goal
  BY <1>1, <1>3, <1>4, <1>6 DEF F!FixTemplate, F!PutRestart, F!RecoveryFails, F!Recovers
<1>7. ASSUME ~(F!CreateAlways \/ F!CreateOnce), ~(F!FixTemplate \/ F!PutRestart \/ F!RecoveryFails)
      PROVE  vm' = vm
  BY <1>7 DEF F!Driver, F!Watch, F!WatchEnds, F!JudgeRetries, F!ReadPlace,
              F!JudgeResidue, F!WaitUp, F!WaitSsh,
              F!SeeFailed, F!NeverFailed, F!HoldEnds, F!ReadStatus, F!LookAgain,
              F!JudgeOnce, F!Drain, F!cluster
<1> QED BY <1>1, <1>5, <1>6, <1>7

\* The driver's variables, of TypeOK.
PcTyped ==
  pc \in {"always", "watch", "judge", "residue", "fix", "restart", "up", "ssh", "once",
          "failed", "hold", "status", "look", "verdict", "drain", "done"}

SeenTyped == seen \in Seq(F!Attempt) /\ Len(seen) <= 3 /\ uid \in Nat

CensusTyped ==
  /\ place \in 1..4 /\ found \subseteq {"volumes", "registrations", "taps"}
  /\ unread \in BOOLEAN /\ leftAtCensus \subseteq {"volumes", "registrations", "taps"}

CaseLinesTyped ==
  /\ DOMAIN lines \subseteq F!Checks
  /\ \A c \in DOMAIN lines : lines[c] \in {"pass", "fail", "infra"}
  /\ fsFailed \in BOOLEAN

FlagsTyped ==
  says \in BOOLEAN /\ same \in BOOLEAN /\ fsFlying \in BOOLEAN /\ upFixed \in BOOLEAN

\* The steps that judge nothing.
LEMMA DriverWritesLines ==
  ASSUME F!Driver
  PROVE  \/ UNCHANGED <<lines, fsFailed>>
         \/ \E check \in F!Checks, status \in {"pass", "fail", "infra"} : F!Line(check, status)
<1>1. CASE F!CreateAlways \/ F!CreateOnce
  BY <1>1 DEF F!CreateAlways, F!CreateOnce, F!Create, F!Checks
<1>2. CASE F!JudgeRetries \/ F!JudgeResidue \/ F!JudgeOnce \/ F!Drain
  BY <1>2 DEF F!JudgeRetries, F!JudgeResidue, F!JudgeOnce, F!Drain, F!Checks
<1>3. CASE F!WaitSsh \/ F!RecoveryFails \/ F!NeverFailed
  BY <1>3 DEF F!WaitSsh, F!RecoveryFails, F!Failure, F!NeverFailed, F!Checks
<1>4. CASE \/ F!Watch \/ F!WatchEnds \/ F!ReadPlace \/ F!FixTemplate \/ F!PutRestart
           \/ F!WaitUp
           \/ F!SeeFailed \/ F!HoldEnds \/ F!ReadStatus \/ F!LookAgain
  BY <1>4 DEF F!Watch, F!WatchEnds, F!ReadPlace, F!FixTemplate, F!PutRestart, F!WaitUp,
              F!SeeFailed,
              F!HoldEnds, F!ReadStatus, F!LookAgain
<1> QED BY <1>1, <1>2, <1>3, <1>4 DEF F!Driver

LEMMA CaseDriverKeepsTypes ==
  ASSUME F!TypeOK, CaseFaults \in Nat, F!Driver
  PROVE  /\ PcTyped' /\ SeenTyped' /\ CensusTyped' /\ CaseLinesTyped' /\ FlagsTyped'
         /\ fsFaults' \in 0..CaseFaults /\ UNCHANGED <<left, fsHarms>>
<1>1. UNCHANGED <<left, fsHarms>>
  BY DEF F!Driver, F!CreateAlways, F!CreateOnce, F!Create, F!Watch, F!WatchEnds,
         F!JudgeRetries, F!ReadPlace,
         F!JudgeResidue, F!FixTemplate, F!PutRestart, F!WaitUp, F!WaitSsh,
         F!RecoveryFails, F!Recovers,
         F!SeeFailed, F!NeverFailed, F!HoldEnds, F!ReadStatus, F!LookAgain, F!JudgeOnce,
         F!Drain, F!cluster
<1>2. fsFaults' = fsFaults \/ F!Fault
  BY DEF F!Driver, F!CreateAlways, F!CreateOnce, F!Create, F!Watch, F!WatchEnds,
         F!JudgeRetries, F!ReadPlace,
         F!JudgeResidue, F!FixTemplate, F!PutRestart, F!WaitUp, F!WaitSsh,
         F!RecoveryFails, F!Recovers,
         F!Failure, F!SeeFailed, F!NeverFailed, F!HoldEnds, F!ReadStatus, F!LookAgain,
         F!JudgeOnce, F!Drain
<1>3. fsFaults' \in 0..CaseFaults
  BY <1>2 DEF F!TypeOK, F!Fault
<1>4. PcTyped'
  <2>1. PcTyped
    BY DEF F!TypeOK, PcTyped
  <2> QED BY <2>1
          DEF F!Driver, F!CreateAlways, F!CreateOnce, F!Create, F!Watch, F!WatchEnds, F!JudgeRetries,
              F!ReadPlace, F!JudgeResidue, F!FixTemplate, F!PutRestart, F!WaitUp,
              F!WaitSsh, F!RecoveryFails,
              F!Recovers, F!SeeFailed, F!NeverFailed, F!HoldEnds, F!ReadStatus,
              F!LookAgain, F!JudgeOnce,
              F!Drain, PcTyped
<1>5. SeenTyped'
  <2>1. SeenTyped
    BY DEF F!TypeOK, SeenTyped
  <2>2. \A v \in F!Vms : vm[v].last \in F!Attempt /\ vm[v].gen \in Nat
    BY DEF F!TypeOK, F!Vm
  <2>3. \/ UNCHANGED <<seen, uid>>
        \/ seen' = << >> /\ uid' = 0
        \/ seen' = seen /\ \E v \in F!Vms : uid' = vm[v].gen
        \/ /\ Len(seen) < 3 /\ seen' = Append(seen, vm["always"].last)
           /\ uid' = vm["always"].gen
    BY DEF F!Driver, F!CreateAlways, F!CreateOnce, F!Create, F!Watch, F!WatchEnds,
           F!JudgeRetries,
           F!ReadPlace, F!JudgeResidue, F!FixTemplate, F!PutRestart, F!WaitUp, F!WaitSsh,
           F!RecoveryFails,
           F!Recovers, F!SeeFailed, F!NeverFailed, F!HoldEnds, F!ReadStatus, F!LookAgain,
           F!JudgeOnce,
           F!Drain, F!Vms
  <2>4. CASE UNCHANGED <<seen, uid>>
    BY <2>1, <2>4 DEF SeenTyped
  <2>5. CASE seen' = << >> /\ uid' = 0
    BY <2>5 DEF SeenTyped
  <2>6. CASE seen' = seen /\ \E v \in F!Vms : uid' = vm[v].gen
    BY <2>1, <2>2, <2>6 DEF SeenTyped
  <2>7. CASE /\ Len(seen) < 3 /\ seen' = Append(seen, vm["always"].last)
             /\ uid' = vm["always"].gen
    <3>1. vm["always"].last \in F!Attempt /\ vm["always"].gen \in Nat
      BY <2>2 DEF F!Vms
    <3> QED BY <2>1, <2>7, <3>1 DEF SeenTyped
  <2> QED BY <2>3, <2>4, <2>5, <2>6, <2>7
<1>6. CensusTyped'
  <2>1. CensusTyped /\ \A v \in F!Vms : left[v] \subseteq {"volumes", "registrations", "taps"}
    BY DEF F!TypeOK, CensusTyped
  <2>2. CASE F!ReadPlace
    <3>1. place \in 1..3 /\ F!Places[place] \in {"volumes", "registrations", "taps"}
      BY <2>1, <2>2 DEF F!ReadPlace, F!Places, CensusTyped
    <3>2. place' \in 1..4 /\ leftAtCensus' = leftAtCensus
      BY <2>2, <3>1 DEF F!ReadPlace
    <3>3. found' \subseteq {"volumes", "registrations", "taps"} /\ unread' \in BOOLEAN
      BY <2>1, <2>2, <3>1 DEF F!ReadPlace, CensusTyped
    <3> QED BY <2>1, <3>2, <3>3 DEF CensusTyped
  <2>3. CASE F!CreateAlways \/ F!CreateOnce \/ F!JudgeRetries \/ F!LookAgain
    <3>1. F!BeginCensus /\ (leftAtCensus' = {} \/ \E v \in F!Vms : leftAtCensus' = left[v])
      BY <2>3 DEF F!CreateAlways, F!CreateOnce, F!Create, F!JudgeRetries, F!LookAgain, F!Vms
    <3>2. place' \in 1..4
      BY <3>1 DEF F!BeginCensus
    <3>3. found' = {} /\ unread' \in BOOLEAN
      BY <3>1 DEF F!BeginCensus
    <3>4. leftAtCensus' \subseteq {"volumes", "registrations", "taps"}
      BY <2>1, <3>1
    <3> QED BY <3>2, <3>3, <3>4 DEF CensusTyped
  <2>4. CASE \/ F!Watch \/ F!WatchEnds \/ F!JudgeResidue \/ F!FixTemplate
             \/ F!PutRestart \/ F!WaitUp
             \/ F!WaitSsh \/ F!RecoveryFails \/ F!SeeFailed \/ F!NeverFailed
             \/ F!HoldEnds \/ F!ReadStatus
             \/ F!JudgeOnce \/ F!Drain
    BY <2>1, <2>4 DEF F!Watch, F!WatchEnds, F!JudgeResidue, F!FixTemplate, F!PutRestart,
                      F!WaitUp, F!WaitSsh,
                      F!RecoveryFails, F!Recovers, F!SeeFailed, F!NeverFailed,
                      F!HoldEnds, F!ReadStatus,
                      F!JudgeOnce, F!Drain, CensusTyped
  <2> QED BY <2>2, <2>3, <2>4 DEF F!Driver
<1>7. CaseLinesTyped'
  <2>1. CaseLinesTyped
    BY DEF F!TypeOK, CaseLinesTyped
  <2>2. CASE UNCHANGED <<lines, fsFailed>>
    BY <2>1, <2>2 DEF CaseLinesTyped
  <2>3. ASSUME NEW check \in F!Checks, NEW status \in {"pass", "fail", "infra"},
               F!Line(check, status)
        PROVE  CaseLinesTyped'
    BY <2>3, LinesStayTyped DEF CaseLinesTyped
  <2> QED BY <2>2, <2>3, DriverWritesLines
<1>8. FlagsTyped'
  <2>1. FlagsTyped /\ \A v \in F!Vms : vm[v].failing \in BOOLEAN /\ vm[v].wired \in BOOLEAN
    BY DEF F!TypeOK, FlagsTyped, F!Vm
  <2>2. CASE F!CreateAlways \/ F!CreateOnce \/ F!WaitUp \/ F!ReadStatus \/ F!LookAgain
    BY <2>1, <2>2 DEF F!CreateAlways, F!CreateOnce, F!Create, F!WaitUp, F!Recovers,
                      F!ReadStatus, F!LookAgain,
                      F!StillFailed, FlagsTyped, F!Vms
  <2>3. CASE \/ F!Watch \/ F!WatchEnds \/ F!JudgeRetries \/ F!ReadPlace
             \/ F!JudgeResidue \/ F!FixTemplate
             \/ F!PutRestart \/ F!WaitSsh \/ F!RecoveryFails \/ F!SeeFailed
             \/ F!NeverFailed \/ F!HoldEnds
             \/ F!JudgeOnce \/ F!Drain
    BY <2>1, <2>3 DEF F!Watch, F!WatchEnds, F!JudgeRetries, F!ReadPlace, F!JudgeResidue,
                      F!FixTemplate,
                      F!PutRestart, F!WaitSsh, F!RecoveryFails, F!Recovers, F!SeeFailed,
                      F!NeverFailed,
                      F!HoldEnds, F!JudgeOnce, F!Drain, FlagsTyped
  <2> QED BY <2>2, <2>3 DEF F!Driver
<1> QED BY <1>1, <1>3, <1>4, <1>5, <1>6, <1>7, <1>8

LEMMA CaseTypesStay ==
  ASSUME F!TypeOK, CaseFaults \in Nat, CaseHarms \in Nat, [F!Next]_(F!vars),
         vm["always"].trying => vm["always"].phase = "pending"
  PROVE  F!TypeOK'
<1>1. CASE F!Cluster
  <2>1. /\ UNCHANGED <<fsFaults, F!driver>> /\ fsHarms' \in 0..CaseHarms
        /\ left' \in [F!Vms -> SUBSET {"volumes", "registrations", "taps"}]
        /\ vm' \in [F!Vms -> F!Vm]
    BY <1>1, ClusterMoves DEF VmsMove
  <2> QED BY <2>1 DEF F!TypeOK, F!driver
<1>2. CASE F!Driver
  <2>1. /\ PcTyped' /\ SeenTyped' /\ CensusTyped' /\ CaseLinesTyped' /\ FlagsTyped'
        /\ fsFaults' \in 0..CaseFaults /\ UNCHANGED <<left, fsHarms>>
    BY <1>2, CaseDriverKeepsTypes
  <2>2. vm' \in [F!Vms -> F!Vm]
    BY <1>2, DriverOrders
  <2> QED BY <2>1, <2>2 DEF F!TypeOK, PcTyped, SeenTyped, CensusTyped, CaseLinesTyped, FlagsTyped
<1>3. CASE UNCHANGED F!vars
  BY <1>3 DEF F!vars, F!cluster, F!driver, F!TypeOK
<1> QED BY <1>1, <1>2, <1>3 DEF F!Next

-----------------------------------------------------------------------------
(* What is seen, recovered, found and told *)

\* The first VM has one VMI until it is restarted, and is restarted on the fixed
\* template: a later VMI has that.
AlwaysIsOne ==
  LET p == vm["always"] IN
    /\ p.trying => p.phase = "pending"
    /\ p.phase # "none" => p.gen >= 1
    /\ ~p.fixed => ~p.restart /\ p.gen <= 1 /\ (p.phase = "none" => p.gen = 0)
    /\ p.gen >= 2 => p.wired
    /\ pc \in {"always", "watch", "judge", "residue"} => ~p.fixed
    /\ pc \in {"restart", "up", "ssh"} => p.fixed

\* The driver has seen attempts of that one VMI, unless the case has failed.
SeenIsFirst ==
  /\ pc \in {"watch", "judge", "residue", "fix", "restart", "up", "ssh"} =>
       uid <= 1 /\ (seen # << >> => uid = 1)
  /\ pc \in {"residue", "fix", "restart", "up", "ssh"} /\ ~fsFailed => seen # << >>
  /\ pc = "ssh" /\ ~fsFailed => upFixed

\* The places a census has read and found nothing in had nothing when it began.
CensusIsProof ==
  /\ pc = "residue" => leftAtCensus \subseteq left["always"]
  /\ pc = "verdict" => leftAtCensus \subseteq left["once"]
  /\ pc \in {"residue", "verdict"} /\ ~unread =>
       \A i \in 1..3 : i < place /\ F!Places[i] \in leftAtCensus => F!Places[i] \in found
  /\ pc \in {"always", "watch", "judge", "residue"} => "no-residue" \notin DOMAIN lines

\* The checks that are behind.
CaseDue ==
  (IF pc \in {"always", "watch", "judge"} THEN {} ELSE {"retried"})
    \cup (IF pc \in {"always", "watch", "judge", "residue"} THEN {} ELSE {"no-residue"})
    \cup (IF pc \in {"once", "failed", "hold", "status", "look", "verdict", "drain", "done"}
          THEN {"recovered"} ELSE {})
    \cup (IF pc \in {"drain", "done"} THEN {"once"} ELSE {})
    \cup (IF pc = "done" THEN {"drain"} ELSE {})

\* A case that has not failed has passed them, and has no create in flight.
CaseTold ==
  /\ fsFlying => fsFailed
  /\ ~fsFailed => CaseDue \subseteq DOMAIN lines /\ \A c \in DOMAIN lines : lines[c] = "pass"

CaseInv == F!TypeOK /\ AlwaysIsOne /\ SeenIsFirst /\ CensusIsProof /\ CaseTold

\* A step keeps to the first half of the case or not, and its VM to one VMI.
LEMMA AlwaysStaysOne ==
  ASSUME F!TypeOK, F!TypeOK', CaseHarms \in Nat, AlwaysIsOne, [F!Next]_(F!vars)
  PROVE  AlwaysIsOne'
<1>. DEFINE p == vm["always"]
            q == vm'["always"]
<1>0. /\ p \in F!Vm /\ q \in F!Vm /\ p.gen \in Nat /\ q.gen \in Nat
      /\ q.phase \in {"none", "pending", "failed", "running"}
  BY DEF F!TypeOK, F!Vms, F!Vm
<1>1. CASE F!Cluster
  <2>1. pc' = pc /\ AlwaysMove(p, q)
    BY <1>1, ClusterMoves DEF VmsMove, F!driver, AlwaysIsOne
  <2> QED BY <1>0, <2>1 DEF AlwaysIsOne, AlwaysMove
<1>2. CASE F!Driver
  <2>1. Ordered(p, q)
    BY <1>2, DriverOrders
  <2>2. ASSUME F!FixTemplate PROVE q.fixed = TRUE
    BY <2>2 DEF F!FixTemplate, F!TypeOK, F!Vms, F!Vm
  <2>. DEFINE Before == {"always", "watch", "judge", "residue"}
              Goal == /\ pc' \in Before => pc \in Before
                      /\ pc' \in {"restart", "up", "ssh"} =>
                           pc \in {"restart", "up"} \/ q.fixed = TRUE
  <2>3. ASSUME F!CreateAlways \/ F!Watch \/ F!WatchEnds \/ F!JudgeRetries \/ F!JudgeResidue
        PROVE  Goal
    <3>1. pc \in Before /\ pc' \notin {"restart", "up", "ssh"}
      BY <2>3 DEF F!CreateAlways, F!Create, F!Watch, F!WatchEnds, F!JudgeRetries,
                  F!JudgeResidue
    <3> QED BY <3>1
  <2>4. ASSUME F!ReadPlace PROVE Goal
    <3>1. pc' = pc /\ pc \in {"residue", "verdict"}
      BY <2>4 DEF F!ReadPlace
    <3> QED BY <3>1
  <2>5. ASSUME F!FixTemplate \/ F!PutRestart \/ F!WaitUp \/ F!WaitSsh
                             \/ F!RecoveryFails PROVE Goal
    <3>1. /\ pc' \in {"restart", "up", "ssh", "once"}
          /\ pc' \in {"restart", "up", "ssh"} => pc \in {"restart", "up"} \/ pc = "fix"
          /\ pc = "fix" => F!FixTemplate \/ pc' = "once"
      BY <2>5 DEF F!PutRestart, F!WaitUp, F!WaitSsh, F!RecoveryFails, F!Recovers,
                  F!FixTemplate
    <3> QED BY <2>2, <3>1
  <2>6. ASSUME \/ F!CreateOnce \/ F!SeeFailed \/ F!NeverFailed \/ F!HoldEnds
               \/ F!ReadStatus \/ F!LookAgain
               \/ F!JudgeOnce \/ F!Drain
        PROVE  Goal
    <3>1. pc' \in {"failed", "drain", "hold", "status", "look", "verdict", "done"}
      BY <2>6 DEF F!CreateOnce, F!Create, F!SeeFailed, F!NeverFailed, F!HoldEnds,
                  F!ReadStatus, F!LookAgain,
                  F!JudgeOnce, F!Drain
    <3> QED BY <3>1
  <2>7. Goal
    BY <1>2, <2>3, <2>4, <2>5, <2>6 DEF F!Driver
  <2> QED BY <1>0, <2>1, <2>2, <2>7 DEF AlwaysIsOne, Ordered
<1>3. CASE UNCHANGED F!vars
  BY <1>3 DEF F!vars, F!cluster, F!driver, AlwaysIsOne
<1> QED BY <1>1, <1>2, <1>3 DEF F!Next

\* What a check that did not pass does to the case.
LEMMA LinesFail ==
  ASSUME NEW check, NEW status, F!Line(check, status), fsFailed \in BOOLEAN, ~fsFailed'
  PROVE  ~fsFailed /\ status = "pass"
  BY DEF F!Line

LEMMA SeenStaysFirst ==
  ASSUME F!TypeOK, AlwaysIsOne, SeenIsFirst, [F!Next]_(F!vars)
  PROVE  SeenIsFirst'
<1>. DEFINE p == vm["always"]
            Looking == {"watch", "judge", "residue", "fix", "restart", "up", "ssh"}
            Past == {"residue", "fix", "restart", "up", "ssh"}
<1>0. p.gen \in Nat /\ fsFailed \in BOOLEAN /\ uid \in Nat /\ seen \in Seq(F!Attempt)
  BY DEF F!TypeOK, F!Vms, F!Vm
<1>1. CASE F!Cluster \/ UNCHANGED F!vars
  <2>1. UNCHANGED F!driver
    BY <1>1 DEF F!Cluster, F!vars
  <2> QED BY <2>1 DEF F!driver, SeenIsFirst
<1>2. CASE F!CreateAlways \/ F!CreateOnce
  <2>1. seen' = << >> /\ uid' = 0 /\ pc' \notin Past
    BY <1>2 DEF F!CreateAlways, F!CreateOnce, F!Create
  <2> QED BY <2>1 DEF SeenIsFirst
<1>3. CASE F!Watch
  <2>1. p.gen = 1 /\ uid' = p.gen /\ pc' \in {"watch", "judge"}
    BY <1>0, <1>3 DEF F!Watch, AlwaysIsOne
  <2> QED BY <2>1 DEF SeenIsFirst
<1>4. CASE F!WatchEnds
  BY <1>4 DEF F!WatchEnds, SeenIsFirst
<1>5. CASE F!JudgeRetries
  <2>1. UNCHANGED <<seen, uid>> /\ pc = "judge" /\ pc' \in {"residue", "fix"}
    BY <1>5 DEF F!JudgeRetries
  <2>2. ~fsFailed' => F!Backoff
    BY <1>0, <1>5, LinesFail DEF F!JudgeRetries
  <2>3. F!Backoff => seen # << >>
    BY <1>0 DEF F!Backoff
  <2> QED BY <2>1, <2>2, <2>3 DEF SeenIsFirst
<1>6. CASE F!ReadPlace
  BY <1>6 DEF F!ReadPlace, SeenIsFirst
<1>7. CASE F!JudgeResidue
  <2>1. UNCHANGED <<seen, uid>> /\ pc = "residue" /\ pc' = "fix" /\ (~fsFailed' => ~fsFailed)
    BY <1>0, <1>7, LinesFail DEF F!JudgeResidue
  <2> QED BY <2>1 DEF SeenIsFirst
<1>8. CASE F!FixTemplate \/ F!PutRestart
  BY <1>8 DEF F!FixTemplate, F!PutRestart, F!Recovers, SeenIsFirst
<1>9. CASE F!WaitUp
  <2>1. /\ UNCHANGED <<seen, uid, fsFailed>> /\ pc = "up" /\ pc' = "ssh" /\ upFixed' = p.wired
        /\ p.phase = "running" /\ (uid = 0 \/ p.gen # uid)
    BY <1>9 DEF F!WaitUp, F!Recovers, F!IsNew
  <2>2. ~fsFailed => uid = 1
    BY <2>1 DEF SeenIsFirst
  <2>3. ~fsFailed => p.gen >= 2
    BY <1>0, <2>1, <2>2 DEF AlwaysIsOne
  <2>4. ~fsFailed => p.wired
    BY <2>3 DEF AlwaysIsOne
  <2> QED BY <2>1, <2>4 DEF SeenIsFirst
<1>10. CASE F!WaitSsh \/ F!RecoveryFails
  <2>1. pc' = "once"
    BY <1>10 DEF F!WaitSsh, F!RecoveryFails, F!Recovers
  <2> QED BY <2>1 DEF SeenIsFirst
<1>11. CASE \/ F!SeeFailed \/ F!NeverFailed \/ F!HoldEnds \/ F!ReadStatus \/ F!LookAgain
            \/ F!JudgeOnce \/ F!Drain
  <2>1. pc' \in {"hold", "drain", "status", "look", "verdict", "done"}
    BY <1>11 DEF F!SeeFailed, F!NeverFailed, F!HoldEnds, F!ReadStatus, F!LookAgain,
                 F!JudgeOnce, F!Drain
  <2> QED BY <2>1 DEF SeenIsFirst
<1> QED BY <1>1, <1>2, <1>3, <1>4, <1>5, <1>6, <1>7, <1>8, <1>9, <1>10, <1>11 DEF F!Next, F!Driver

LEMMA CensusStaysProof ==
  ASSUME F!TypeOK, CaseHarms \in Nat, AlwaysIsOne, CensusIsProof, [F!Next]_(F!vars)
  PROVE  CensusIsProof'
<1>0. "always" \in F!Vms /\ "once" \in F!Vms /\ place \in 1..4
  BY DEF F!Vms, F!TypeOK
<1>1. CASE F!Cluster
  <2>1. UNCHANGED F!driver /\ \A v \in F!Vms : left[v] \subseteq left'[v]
    BY <1>1, ClusterMoves DEF AlwaysIsOne
  <2> QED BY <1>0, <2>1 DEF F!driver, CensusIsProof
<1>2. CASE UNCHANGED F!vars
  BY <1>2 DEF F!vars, F!cluster, F!driver, CensusIsProof
<1>3. CASE F!CreateAlways \/ F!CreateOnce
  <2>1. /\ pc \in {"always", "once"}
        /\ (pc = "always" /\ pc' \in {"watch", "once"}) \/ pc' \in {"failed", "drain"}
        /\ pc' = "watch" => lines' = lines
    BY <1>3 DEF F!CreateAlways, F!CreateOnce, F!Create
  <2> QED BY <2>1 DEF CensusIsProof
<1>4. CASE F!Watch \/ F!WatchEnds
  <2>1. pc = "watch" /\ pc' \in {"watch", "judge"} /\ lines' = lines
    BY <1>4 DEF F!Watch, F!WatchEnds
  <2> QED BY <2>1 DEF CensusIsProof
<1>5. CASE F!JudgeRetries
  <2>1. /\ pc = "judge" /\ pc' \in {"residue", "fix"} /\ place' = 1
        /\ leftAtCensus' = left["always"] /\ left' = left
    BY <1>5 DEF F!JudgeRetries, F!BeginCensus, F!cluster
  <2>2. DOMAIN lines' = DOMAIN lines \cup {"retried"}
    BY <1>5, LinesAreWritten DEF F!JudgeRetries
  <2>3. "no-residue" \notin DOMAIN lines'
    BY <2>1, <2>2 DEF CensusIsProof
  <2>4. pc' # "verdict" /\ \A i \in 1..3 : ~(i < place')
    BY <2>1
  <2> QED BY <2>1, <2>3, <2>4 DEF CensusIsProof
<1>6. CASE F!ReadPlace
  <2>1. /\ pc' = pc /\ pc \in {"residue", "verdict"} /\ place' = place + 1
        /\ UNCHANGED <<left, lines, leftAtCensus>>
    BY <1>6 DEF F!ReadPlace, F!cluster
  <2>2. ASSUME ~unread', NEW i \in 1..3, i < place', F!Places[i] \in leftAtCensus
        PROVE  F!Places[i] \in found'
    <3>1. /\ ~unread
          /\ found' = found \cup { q \in {F!Places[place]} : \E v \in F!Vms : F!OnNode(v, q) }
      BY <1>6, <2>2 DEF F!ReadPlace
    <3>2. CASE i < place
      BY <2>1, <2>2, <3>1, <3>2 DEF CensusIsProof
    <3>3. CASE i = place
      <4>1. \E v \in F!Vms : F!Places[i] \in left[v]
        BY <1>0, <2>1, <2>2 DEF CensusIsProof
      <4> QED BY <3>1, <3>3, <4>1 DEF F!OnNode
    <3> QED BY <1>0, <2>1, <2>2, <3>2, <3>3
  <2> QED BY <2>1, <2>2 DEF CensusIsProof
<1>7. CASE F!LookAgain
  <2>1. pc' = "verdict" /\ place' = 1 /\ leftAtCensus' = left["once"] /\ left' = left
    BY <1>7 DEF F!LookAgain, F!BeginCensus, F!cluster
  <2>2. \A i \in 1..3 : ~(i < place')
    BY <2>1
  <2> QED BY <2>1, <2>2 DEF CensusIsProof
<1>8. CASE \/ F!JudgeResidue \/ F!FixTemplate \/ F!PutRestart \/ F!WaitUp \/ F!WaitSsh
           \/ F!RecoveryFails
           \/ F!SeeFailed \/ F!NeverFailed \/ F!HoldEnds \/ F!ReadStatus \/ F!JudgeOnce
           \/ F!Drain
  <2>1. pc' \in {"fix", "restart", "up", "ssh", "once", "failed", "hold", "status", "look",
                 "drain", "done"}
    BY <1>8 DEF F!JudgeResidue, F!FixTemplate, F!PutRestart, F!WaitUp, F!WaitSsh,
                F!RecoveryFails, F!Recovers,
                F!SeeFailed, F!NeverFailed, F!HoldEnds, F!ReadStatus, F!JudgeOnce, F!Drain
  <2> QED BY <2>1 DEF CensusIsProof
<1> QED BY <1>1, <1>2, <1>3, <1>4, <1>5, <1>6, <1>7, <1>8 DEF F!Next, F!Driver

LEMMA CaseToldStays ==
  ASSUME F!TypeOK, SeenIsFirst, CaseTold, [F!Next]_(F!vars)
  PROVE  CaseTold'
<1>0. fsFailed \in BOOLEAN /\ fsFlying \in BOOLEAN
  BY DEF F!TypeOK
<1>1. CASE F!Cluster \/ UNCHANGED F!vars
  <2>1. UNCHANGED F!driver
    BY <1>1 DEF F!Cluster, F!vars
  <2> QED BY <2>1 DEF F!driver, CaseTold, CaseDue
<1>2. ASSUME NEW check, NEW status, F!Line(check, status), fsFlying' => fsFlying \/ fsFailed',
             ~fsFailed' => CaseDue' \subseteq CaseDue \cup {check}
      PROVE  CaseTold'
  <2>1. ~fsFailed' => ~fsFailed /\ status = "pass"
    BY <1>0, <1>2, LinesFail
  <2>2. /\ DOMAIN lines' = DOMAIN lines \cup {check} /\ lines'[check] = status
        /\ \A c \in DOMAIN lines : c # check => lines'[c] = lines[c]
    BY <1>2, LinesAreWritten
  <2> QED BY <1>2, <2>1, <2>2 DEF CaseTold
<1>3. ASSUME UNCHANGED <<lines, fsFailed, fsFlying>>, ~fsFailed => CaseDue' \subseteq CaseDue
      PROVE  CaseTold'
  BY <1>3 DEF CaseTold
<1>4. CASE F!CreateAlways
  <2>1. CASE UNCHANGED <<lines, fsFailed, fsFlying>> /\ pc = "always" /\ pc' = "watch"
    BY <1>3, <2>1 DEF CaseDue
  <2>2. CASE F!Line("retried", "fail")
    <3>1. fsFailed'
      BY <2>2 DEF F!Line
    <3> QED BY <1>2, <2>2, <3>1
  <2> QED BY <1>4, <2>1, <2>2 DEF F!CreateAlways, F!Create
<1>5. CASE F!CreateOnce
  <2>1. CASE UNCHANGED <<lines, fsFailed, fsFlying>> /\ pc = "once" /\ pc' = "failed"
    BY <1>3, <2>1 DEF CaseDue
  <2>2. CASE F!Line("once", "fail")
    <3>1. fsFailed'
      BY <2>2 DEF F!Line
    <3> QED BY <1>2, <2>2, <3>1
  <2> QED BY <1>5, <2>1, <2>2 DEF F!CreateOnce, F!Create
<1>6. CASE F!Watch \/ F!WatchEnds
  <2>1. /\ UNCHANGED <<lines, fsFailed, fsFlying>>
        /\ pc = "watch" /\ pc' \in {"watch", "judge"}
    BY <1>6 DEF F!Watch, F!WatchEnds
  <2> QED BY <1>3, <2>1 DEF CaseDue
<1>7. CASE F!JudgeRetries
  <2>1. PICK status : F!Line("retried", status) /\ (status = "pass" => F!Backoff)
    BY <1>7 DEF F!JudgeRetries
  <2>2. /\ fsFlying' = fsFlying /\ pc = "judge"
        /\ pc' = IF seen = << >> THEN "fix" ELSE "residue"
    BY <1>7 DEF F!JudgeRetries
  <2>3. F!Backoff => seen # << >>
    BY DEF F!Backoff, F!TypeOK
  <2>4. ~fsFailed' => pc' = "residue"
    BY <1>0, <2>1, <2>2, <2>3, LinesFail
  <2>5. ~fsFailed' => CaseDue' \subseteq CaseDue \cup {"retried"}
    BY <2>2, <2>4 DEF CaseDue
  <2> QED BY <1>2, <2>1, <2>2, <2>5
<1>8. CASE F!ReadPlace \/ F!HoldEnds \/ F!ReadStatus \/ F!LookAgain \/ F!SeeFailed
  <2>1. /\ UNCHANGED <<lines, fsFailed, fsFlying>>
        /\ \/ pc' = pc
           \/ /\ pc \in {"failed", "hold", "status", "look"}
              /\ pc' \in {"hold", "status", "look", "verdict"}
    BY <1>8 DEF F!ReadPlace, F!HoldEnds, F!ReadStatus, F!LookAgain, F!SeeFailed
  <2> QED BY <1>3, <2>1 DEF CaseDue
<1>9. CASE F!FixTemplate \/ F!PutRestart \/ F!WaitUp
  <2>1. /\ UNCHANGED <<lines, fsFailed, fsFlying>>
        /\ pc \in {"fix", "restart", "up"} /\ pc' \in {"restart", "up", "ssh"}
    BY <1>9 DEF F!FixTemplate, F!PutRestart, F!WaitUp, F!Recovers
  <2> QED BY <1>3, <2>1 DEF CaseDue
<1>10. CASE F!JudgeResidue
  <2>1. /\ \E status : F!Line("no-residue", status)
        /\ fsFlying' = fsFlying /\ pc = "residue" /\ pc' = "fix"
    BY <1>10 DEF F!JudgeResidue
  <2>2. CaseDue' \subseteq CaseDue \cup {"no-residue"}
    BY <2>1 DEF CaseDue
  <2> QED BY <1>2, <2>1, <2>2
<1>11. CASE F!WaitSsh \/ F!RecoveryFails
  <2>1. /\ \E status : F!Line("recovered", status)
        /\ fsFlying' = fsFlying /\ pc \in {"fix", "restart", "up", "ssh"} /\ pc' = "once"
    BY <1>11 DEF F!WaitSsh, F!RecoveryFails, F!Failure, F!Recovers
  <2>2. CaseDue' \subseteq CaseDue \cup {"recovered"}
    BY <2>1 DEF CaseDue
  <2> QED BY <1>2, <2>1, <2>2
<1>12. CASE F!NeverFailed \/ F!JudgeOnce
  <2>1. /\ \E status : F!Line("once", status)
        /\ fsFlying' = fsFlying /\ pc \in {"failed", "verdict"} /\ pc' = "drain"
    BY <1>12 DEF F!NeverFailed, F!JudgeOnce
  <2>2. CaseDue' \subseteq CaseDue \cup {"once"}
    BY <2>1 DEF CaseDue
  <2> QED BY <1>2, <2>1, <2>2
<1>13. CASE F!Drain
  <2>1. /\ \E status : F!Line("drain", status)
        /\ fsFlying' = fsFlying /\ pc = "drain" /\ pc' = "done"
    BY <1>13 DEF F!Drain
  <2>2. CaseDue' \subseteq CaseDue \cup {"drain"}
    BY <2>1 DEF CaseDue
  <2> QED BY <1>2, <2>1, <2>2
<1> QED BY <1>1, <1>4, <1>5, <1>6, <1>7, <1>8, <1>9, <1>10, <1>11, <1>12, <1>13 DEF F!Next, F!Driver

LEMMA CaseInitially == ASSUME CaseFaults \in Nat, CaseHarms \in Nat PROVE F!Init => CaseInv
<1> SUFFICES ASSUME F!Init PROVE CaseInv
  OBVIOUS
<1>. DEFINE v0 == [ made |-> FALSE, fixed |-> FALSE, restart |-> FALSE,
                    failing |-> FALSE, gen |-> 0, phase |-> "none", wired |-> FALSE,
                    trying |-> FALSE, last |-> [ n |-> 0, delay |-> 0 ] ]
<1>1. [ n |-> 0, delay |-> 0 ] \in F!Attempt
  BY DEF F!Attempt
<1>2. v0 \in F!Vm
  BY <1>1 DEF F!Vm
<1>3. vm = [v \in F!Vms |-> v0]
  BY DEF F!Init
<1>4. /\ v0.trying = FALSE /\ v0.phase = "none" /\ v0.fixed = FALSE /\ v0.restart = FALSE
      /\ v0.gen = 0
  OBVIOUS
<1>. HIDE DEF v0
<1>5. vm \in [F!Vms -> F!Vm] /\ vm["always"] = v0
  BY <1>2, <1>3 DEF F!Vms
<1>6. SeenTyped /\ PcTyped /\ fsFaults \in 0..CaseFaults /\ fsHarms \in 0..CaseHarms
  BY DEF F!Init, SeenTyped, PcTyped
<1>7. left \in [F!Vms -> SUBSET {"volumes", "registrations", "taps"}]
  BY DEF F!Init
<1>8. place \in 1..4
  BY DEF F!Init
<1>9. CensusTyped /\ FlagsTyped
  BY <1>8 DEF F!Init, CensusTyped, FlagsTyped
<1>10. CaseLinesTyped /\ DOMAIN lines = {}
  <2>1. lines = << >> /\ fsFailed = FALSE
    BY DEF F!Init
  <2>2. DOMAIN lines = {}
    BY <2>1
  <2>3. fsFailed \in BOOLEAN
    BY <2>1
  <2> QED BY <2>2, <2>3 DEF CaseLinesTyped
<1>11. F!TypeOK
  BY <1>5, <1>6, <1>7, <1>9, <1>10
     DEF F!TypeOK, PcTyped, SeenTyped, CensusTyped, CaseLinesTyped, FlagsTyped
<1>12. AlwaysIsOne
  BY <1>4, <1>5 DEF F!Init, AlwaysIsOne
<1>13. SeenIsFirst /\ CensusIsProof /\ CaseTold
  BY <1>10 DEF F!Init, SeenIsFirst, CensusIsProof, CaseTold, CaseDue
<1> QED BY <1>11, <1>12, <1>13 DEF CaseInv

LEMMA CaseStep ==
  ASSUME CaseFaults \in Nat, CaseHarms \in Nat
  PROVE  CaseInv /\ [F!Next]_(F!vars) => CaseInv'
<1> SUFFICES ASSUME CaseInv, [F!Next]_(F!vars) PROVE CaseInv'
  OBVIOUS
<1>1. F!TypeOK /\ AlwaysIsOne /\ SeenIsFirst /\ CensusIsProof /\ CaseTold
  BY DEF CaseInv
<1>2. F!TypeOK'
  BY <1>1, CaseTypesStay DEF AlwaysIsOne
<1> QED BY <1>1, <1>2, AlwaysStaysOne, SeenStaysFirst, CensusStaysProof, CaseToldStays DEF CaseInv

\* What the case passed, at the point where it is judged.
CaseProof == F!NoResidueIsProof /\ F!RecoveredIsFixed /\ F!FailureIsTold

LEMMA ResidueStaysProof ==
  ASSUME F!TypeOK, CensusIsProof, F!NoResidueIsProof, [F!Next]_(F!vars)
  PROVE  F!NoResidueIsProof'
<1>. DEFINE P == F!NoResidueIsProof'
<1>0. place \in 1..4 /\ leftAtCensus \subseteq {"volumes", "registrations", "taps"}
  BY DEF F!TypeOK
<1>1. ASSUME pc' \notin {"fix", "drain"} PROVE P
  BY <1>1 DEF F!NoResidueIsProof
<1>2. CASE F!Cluster \/ UNCHANGED F!vars
  <2>1. UNCHANGED F!driver
    BY <1>2 DEF F!Cluster, F!vars
  <2> QED BY <2>1 DEF F!driver, F!NoResidueIsProof, F!Passed
\* A census that found nothing, and read its three places.
<1>3. ASSUME pc \in {"residue", "verdict"}, place > 3, F!NothingFound, ~unread
      PROVE  leftAtCensus = {}
  <2>1. /\ F!Places[1] = "volumes" /\ F!Places[2] = "registrations" /\ F!Places[3] = "taps"
    BY DEF F!Places
  <2>2. \A i \in 1..3 : F!Places[i] \notin leftAtCensus
    BY <1>0, <1>3 DEF CensusIsProof, F!NothingFound
  <2> QED BY <1>0, <2>1, <2>2
<1>4. CASE F!JudgeRetries
  <2>1. DOMAIN lines' = DOMAIN lines \cup {"retried"} /\ pc = "judge" /\ pc' \in {"residue", "fix"}
    BY <1>4, LinesAreWritten DEF F!JudgeRetries
  <2> QED BY <2>1 DEF F!NoResidueIsProof, CensusIsProof, F!Passed
<1>5. CASE F!JudgeResidue
  <2>1. /\ pc = "residue" /\ pc' = "fix" /\ place > 3 /\ UNCHANGED <<unread, leftAtCensus>>
        /\ F!Line("no-residue", IF F!NothingFound THEN "pass" ELSE "fail")
    BY <1>5 DEF F!JudgeResidue, F!Places
  <2>2. lines'["no-residue"] = IF F!NothingFound THEN "pass" ELSE "fail"
    BY <2>1, LinesAreWritten
  <2> QED BY <1>3, <2>1, <2>2 DEF F!NoResidueIsProof, F!Passed
<1>6. CASE F!JudgeOnce
  <2>1. /\ pc = "verdict" /\ pc' = "drain" /\ place > 3 /\ UNCHANGED <<unread, leftAtCensus>>
        /\ F!Line("once", IF same /\ says /\ F!NothingFound THEN "pass" ELSE "fail")
    BY <1>6 DEF F!JudgeOnce, F!Places
  <2>2. lines'["once"] = IF same /\ says /\ F!NothingFound THEN "pass" ELSE "fail"
    BY <2>1, LinesAreWritten
  <2> QED BY <1>3, <2>1, <2>2 DEF F!NoResidueIsProof, F!Passed
<1>7. CASE F!NeverFailed \/ F!CreateOnce
  <2>1. pc' \in {"drain", "failed"} /\ (pc' = "drain" => F!Line("once", "fail"))
    BY <1>7 DEF F!NeverFailed, F!CreateOnce, F!Create
  <2>2. pc' = "drain" => lines'["once"] = "fail"
    BY <2>1, LinesAreWritten
  <2> QED BY <2>1, <2>2 DEF F!NoResidueIsProof, F!Passed
<1>8. CASE F!ReadPlace
  <2>1. pc' \in {"residue", "verdict"}
    BY <1>8 DEF F!ReadPlace
  <2> QED BY <1>1, <2>1
<1>9. CASE \/ F!CreateAlways \/ F!Watch \/ F!WatchEnds \/ F!FixTemplate \/ F!PutRestart
           \/ F!WaitUp \/ F!WaitSsh
           \/ F!RecoveryFails \/ F!SeeFailed \/ F!HoldEnds \/ F!ReadStatus
           \/ F!LookAgain \/ F!Drain
  <2>1. pc' \notin {"fix", "drain"}
    BY <1>9 DEF F!CreateAlways, F!Create, F!Watch, F!WatchEnds, F!FixTemplate,
                F!PutRestart, F!WaitUp, F!WaitSsh,
                F!RecoveryFails, F!Recovers, F!SeeFailed, F!HoldEnds, F!ReadStatus,
                F!LookAgain, F!Drain
  <2> QED BY <1>1, <2>1
<1> QED BY <1>2, <1>4, <1>5, <1>6, <1>7, <1>8, <1>9 DEF F!Next, F!Driver

\* Where a case that has not failed begins with the second VM, it has recovered.
LEMMA RecoveredStaysFixed ==
  ASSUME F!TypeOK, SeenIsFirst, F!RecoveredIsFixed, [F!Next]_(F!vars)
  PROVE  F!RecoveredIsFixed'
<1>0. fsFailed \in BOOLEAN
  BY DEF F!TypeOK
<1>1. CASE F!Cluster \/ UNCHANGED F!vars
  <2>1. UNCHANGED F!driver
    BY <1>1 DEF F!Cluster, F!vars
  <2> QED BY <2>1 DEF F!driver, F!RecoveredIsFixed
<1>2. CASE F!CreateAlways \/ F!RecoveryFails
  <2>1. pc' = "once" => \/ F!Line("retried", "fail") \/ F!Line("recovered", "fail")
                        \/ F!Line("recovered", "infra")
    BY <1>2 DEF F!CreateAlways, F!Create, F!RecoveryFails, F!Failure
  <2>2. pc' = "once" => fsFailed'
    BY <1>0, <2>1, LinesFail
  <2> QED BY <2>2 DEF F!RecoveredIsFixed
<1>3. CASE F!WaitSsh
  <2>1. F!Line("recovered", "pass") /\ pc = "ssh" /\ upFixed' = upFixed
    BY <1>3 DEF F!WaitSsh, F!Recovers
  <2>2. ~fsFailed' => ~fsFailed
    BY <1>0, <2>1, LinesFail
  <2> QED BY <2>1, <2>2 DEF F!RecoveredIsFixed, SeenIsFirst
<1>4. CASE F!Driver /\ ~(F!CreateAlways \/ F!RecoveryFails) /\ ~F!WaitSsh
  <2>1. pc' # "once"
    BY <1>4 DEF F!Driver, F!CreateOnce, F!Create, F!Watch, F!WatchEnds, F!JudgeRetries,
                F!ReadPlace,
                F!JudgeResidue, F!FixTemplate, F!PutRestart, F!WaitUp, F!Recovers,
                F!SeeFailed, F!NeverFailed,
                F!HoldEnds, F!ReadStatus, F!LookAgain, F!JudgeOnce, F!Drain
  <2> QED BY <2>1 DEF F!RecoveredIsFixed
<1> QED BY <1>1, <1>2, <1>3, <1>4 DEF F!Next

LEMMA CaseStaysProof ==
  ASSUME CaseFaults \in Nat, CaseHarms \in Nat
  PROVE  CaseInv /\ CaseProof /\ [F!Next]_(F!vars) => CaseProof'
<1> SUFFICES ASSUME CaseInv, CaseProof, [F!Next]_(F!vars) PROVE CaseProof'
  OBVIOUS
<1>1. CaseInv'
  BY CaseStep
<1>2. F!NoResidueIsProof' /\ F!RecoveredIsFixed'
  BY ResidueStaysProof, RecoveredStaysFixed DEF CaseInv, CaseProof
<1>3. F!FailureIsTold'
  <2>1. CaseTold'
    BY <1>1 DEF CaseInv
  <2>2. pc' = "done" => F!Checks \subseteq CaseDue'
    BY DEF CaseDue, F!Checks
  <2> QED BY <2>1, <2>2 DEF CaseTold, F!FailureIsTold, F!Passed
<1> QED BY <1>2, <1>3 DEF CaseProof

LEMMA CaseProofInitially == F!Init => CaseProof
<1> SUFFICES ASSUME F!Init PROVE CaseProof
  OBVIOUS
<1>1. pc = "always"
  BY DEF F!Init
<1> QED BY <1>1 DEF CaseProof, F!NoResidueIsProof, F!RecoveredIsFixed, F!FailureIsTold

-----------------------------------------------------------------------------
(* A wave: its parts side by side. The lemmas of VmHold's and ResidueDrain's *)
(* proofs are about the same definitions with the same variables, which the  *)
(* first lemmas here say.                                                    *)

OneP == INSTANCE VmHoldProofs WITH
  Vms <- Few, Faults <- FewFaults, Harms <- FewHarms, faults <- vmFaults, harms <- vmHarms,
  stage <- vmStage, line <- vmLine, flying <- vmFlying

TwoP == INSTANCE VmHoldProofs WITH
  Vms <- Many, Faults <- ManyFaults, Harms <- ManyHarms, faults <- vmFaults, harms <- vmHarms,
  stage <- vmStage, line <- vmLine, flying <- vmFlying

DP == INSTANCE ResidueDrainProofs WITH
  Names <- Drained, Faults <- DrainFaults, flying <- drainFlying, faults <- drainFaults,
  stage <- drainStage, todo <- drainTodo, found <- drainFound, unread <- drainUnread

LEMMA FewAreTheSame ==
  /\ One!Init <=> OneP!Init
  /\ [One!Next]_(One!vars) <=> [OneP!Next]_(OneP!vars)
  /\ One!TypeOK <=> OneP!TypeOK
  /\ One!KeepsContract <=> OneP!KeepsContract
<1>1. One!Init <=> OneP!Init
  BY DEF One!Init, OneP!Init
<1>2. [One!Next]_(One!vars) <=> [OneP!Next]_(OneP!vars)
  BY DEF One!cluster, OneP!cluster, One!vars, OneP!vars, One!Harm, OneP!Harm,
         One!MakeVmi, OneP!MakeVmi, One!RunVmi, OneP!RunVmi, One!StopVmi,
         OneP!StopVmi, One!Reboot, OneP!Reboot, One!Sync, OneP!Sync,
         One!Cluster, OneP!Cluster, One!Fault, OneP!Fault, One!Emit, OneP!Emit,
         One!At, OneP!At, One!Goto, OneP!Goto, One!Fail, OneP!Fail, One!Up,
         OneP!Up, One!Looks, OneP!Looks, One!Failure, OneP!Failure, One!Create,
         OneP!Create, One!WaitUp, OneP!WaitUp, One!TryRdp, OneP!TryRdp,
         One!TrySsh, OneP!TrySsh, One!LoginEnds, OneP!LoginEnds, One!Install,
         OneP!Install, One!ReadVersion, OneP!ReadVersion, One!InstallFails,
         OneP!InstallFails, One!ReadBoot, OneP!ReadBoot, One!ReadVmi,
         OneP!ReadVmi, One!Patched, OneP!Patched, One!Patch, OneP!Patch,
         One!LookSynced, OneP!LookSynced, One!SameBoot, OneP!SameBoot,
         One!SecondLogin, OneP!SecondLogin, One!KeysFail, OneP!KeysFail,
         One!ReadOldUid, OneP!ReadOldUid, One!Asked, OneP!Asked,
         One!PutRestart, OneP!PutRestart, One!IsThere, OneP!IsThere, One!IsNew,
         OneP!IsNew, One!WaitUpAgain, OneP!WaitUpAgain, One!SshAgain,
         OneP!SshAgain, One!Kept, OneP!Kept, One!RestartFails,
         OneP!RestartFails, One!VmTask, OneP!VmTask, One!Join, OneP!Join,
         One!AllJoined, OneP!AllJoined, One!WindowCloses, OneP!WindowCloses,
         One!Next, OneP!Next
<1>3. One!TypeOK <=> OneP!TypeOK
  BY DEF One!TypeOK, OneP!TypeOK, One!Guest, OneP!Guest, One!Task, OneP!Task, One!Steps,
         OneP!Steps
<1>4. One!KeepsContract <=> OneP!KeepsContract
  BY DEF One!KeepsContract, OneP!KeepsContract, One!Outcome, OneP!Outcome, One!Failed,
         OneP!Failed, One!HonestHolds, OneP!HonestHolds, One!Hold, OneP!Hold
<1> QED BY <1>1, <1>2, <1>3, <1>4

LEMMA ManyAreTheSame ==
  /\ Two!Init <=> TwoP!Init
  /\ [Two!Next]_(Two!vars) <=> [TwoP!Next]_(TwoP!vars)
  /\ Two!TypeOK <=> TwoP!TypeOK
  /\ Two!KeepsContract <=> TwoP!KeepsContract
<1>1. Two!Init <=> TwoP!Init
  BY DEF Two!Init, TwoP!Init
<1>2. [Two!Next]_(Two!vars) <=> [TwoP!Next]_(TwoP!vars)
  BY DEF Two!cluster, TwoP!cluster, Two!vars, TwoP!vars, Two!Harm, TwoP!Harm,
         Two!MakeVmi, TwoP!MakeVmi, Two!RunVmi, TwoP!RunVmi, Two!StopVmi,
         TwoP!StopVmi, Two!Reboot, TwoP!Reboot, Two!Sync, TwoP!Sync,
         Two!Cluster, TwoP!Cluster, Two!Fault, TwoP!Fault, Two!Emit, TwoP!Emit,
         Two!At, TwoP!At, Two!Goto, TwoP!Goto, Two!Fail, TwoP!Fail, Two!Up,
         TwoP!Up, Two!Looks, TwoP!Looks, Two!Failure, TwoP!Failure, Two!Create,
         TwoP!Create, Two!WaitUp, TwoP!WaitUp, Two!TryRdp, TwoP!TryRdp,
         Two!TrySsh, TwoP!TrySsh, Two!LoginEnds, TwoP!LoginEnds, Two!Install,
         TwoP!Install, Two!ReadVersion, TwoP!ReadVersion, Two!InstallFails,
         TwoP!InstallFails, Two!ReadBoot, TwoP!ReadBoot, Two!ReadVmi,
         TwoP!ReadVmi, Two!Patched, TwoP!Patched, Two!Patch, TwoP!Patch,
         Two!LookSynced, TwoP!LookSynced, Two!SameBoot, TwoP!SameBoot,
         Two!SecondLogin, TwoP!SecondLogin, Two!KeysFail, TwoP!KeysFail,
         Two!ReadOldUid, TwoP!ReadOldUid, Two!Asked, TwoP!Asked,
         Two!PutRestart, TwoP!PutRestart, Two!IsThere, TwoP!IsThere, Two!IsNew,
         TwoP!IsNew, Two!WaitUpAgain, TwoP!WaitUpAgain, Two!SshAgain,
         TwoP!SshAgain, Two!Kept, TwoP!Kept, Two!RestartFails,
         TwoP!RestartFails, Two!VmTask, TwoP!VmTask, Two!Join, TwoP!Join,
         Two!AllJoined, TwoP!AllJoined, Two!WindowCloses, TwoP!WindowCloses,
         Two!Next, TwoP!Next
<1>3. Two!TypeOK <=> TwoP!TypeOK
  BY DEF Two!TypeOK, TwoP!TypeOK, Two!Guest, TwoP!Guest, Two!Task, TwoP!Task, Two!Steps,
         TwoP!Steps
<1>4. Two!KeepsContract <=> TwoP!KeepsContract
  BY DEF Two!KeepsContract, TwoP!KeepsContract, Two!Outcome, TwoP!Outcome, Two!Failed,
         TwoP!Failed, Two!HonestHolds, TwoP!HonestHolds, Two!Hold, TwoP!Hold
<1> QED BY <1>1, <1>2, <1>3, <1>4

LEMMA DrainIsTheSame ==
  /\ D!Init <=> DP!Init
  /\ [D!Next]_(D!vars) <=> [DP!Next]_(DP!vars)
  /\ D!DrainTypeOK <=> DP!DrainTypeOK
  /\ D!NothingLeftUnnamed <=> DP!NothingLeftUnnamed
<1>1. D!Init <=> DP!Init
  BY DEF D!Init, DP!Init, D!Objects, DP!Objects, D!SourceSet, DP!SourceSet, D!Layer, DP!Layer,
         D!Roots, DP!Roots, D!Above, DP!Above, D!Owners, DP!Owners, D!Owns, DP!Owns,
         D!Contract!Undrained, DP!Contract!Undrained, D!Cardinality, DP!Cardinality
<1>2. [D!Next]_(D!vars) <=> [DP!Next]_(DP!vars)
  BY DEF D!Order, DP!Order, D!SourceSet, DP!SourceSet, D!Owns, DP!Owns,
         D!Owners, DP!Owners, D!Above, DP!Above, D!Objects, DP!Objects,
         D!Roots, DP!Roots, D!vars, DP!vars, D!Layer, DP!Layer, D!Init,
         DP!Init, D!ClusterStep, DP!ClusterStep, D!Land, DP!Land, D!Make,
         DP!Make, D!Vanish, DP!Vanish, D!Cluster, DP!Cluster, D!Fault,
         DP!Fault, D!Delete, DP!Delete, D!Begin, DP!Begin, D!Read, DP!Read,
         D!ReadFails, DP!ReadFails, D!Named, DP!Named, D!DrainEnds,
         DP!DrainEnds, D!TakeAgain, DP!TakeAgain, D!Drain, DP!Drain, D!Next,
         DP!Next
<1>3. D!DrainTypeOK <=> DP!DrainTypeOK
  BY DEF D!DrainTypeOK, DP!DrainTypeOK, D!Objects, DP!Objects, D!SourceSet, DP!SourceSet,
         D!Roots, DP!Roots, D!Order, DP!Order, D!Contract!DrainOutcome, DP!Contract!DrainOutcome
<1>4. D!NothingLeftUnnamed <=> DP!NothingLeftUnnamed
  BY DEF D!NothingLeftUnnamed, DP!NothingLeftUnnamed, D!Above, DP!Above, D!Owners, DP!Owners,
         D!SourceSet, DP!SourceSet, D!Owns, DP!Owns
<1> QED BY <1>1, <1>2, <1>3, <1>4

allVars == <<part, vars, vmVars, fsVars, drainVars>>

\* A step of a wave is a step of one part, and the others stutter.
LEMMA PartsStep ==
  ASSUME [HoldsNext]_allVars
  PROVE  /\ part' = part
         /\ [Next]_vars /\ [F!Next]_(F!vars) /\ [D!Next]_(D!vars)
         /\ part # "vms" => [One!Next]_(One!vars)
         /\ part = "vms" => [Two!Next]_(Two!vars)
<1>1. UNCHANGED vmVars => UNCHANGED One!vars /\ UNCHANGED Two!vars
  BY DEF vmVars, One!vars, One!cluster, Two!vars, Two!cluster
<1>2. UNCHANGED fsVars => UNCHANGED F!vars
  BY DEF fsVars, F!vars, F!cluster, F!driver
<1>3. UNCHANGED drainVars => UNCHANGED D!vars
  BY DEF drainVars, D!vars
<1>4. CASE UNCHANGED allVars
  BY <1>1, <1>2, <1>3, <1>4 DEF allVars
<1>5. CASE HoldsNext
  BY <1>1, <1>2, <1>3, <1>5 DEF HoldsNext
<1> QED BY <1>4, <1>5

HoldsInv ==
  /\ part \in Parts
  /\ TypeInv /\ CaseInv /\ CaseProof /\ DP!Sweep
  /\ IF part = "vms" THEN TwoP!IInv ELSE OneP!IInv

LEMMA HoldsInitially == HoldsInit => HoldsInv
<1> SUFFICES ASSUME HoldsInit PROVE HoldsInv
  OBVIOUS
<1>0. {FewFaults, FewHarms, ManyFaults, ManyHarms, CaseFaults, CaseHarms, DrainFaults} \subseteq Nat
  BY PartsAssumption
<1>1. part \in Parts /\ TypeInv
  BY InitTypes DEF HoldsInit
<1>2. CaseInv /\ CaseProof
  BY <1>0, CaseInitially, CaseProofInitially DEF HoldsInit
<1>3. DP!Sweep
  BY <1>0, DrainIsTheSame, DP!SweepInitially DEF HoldsInit
<1>4. ASSUME part = "vms" PROVE TwoP!IInv
  BY <1>0, <1>4, ManyAreTheSame, TwoP!InitInvariant DEF HoldsInit
<1>5. ASSUME part # "vms" PROVE OneP!IInv
  BY <1>0, <1>5, FewAreTheSame, OneP!InitInvariant DEF HoldsInit
<1> QED BY <1>1, <1>2, <1>3, <1>4, <1>5 DEF HoldsInv

LEMMA HoldsStep == HoldsInv /\ [HoldsNext]_allVars => HoldsInv'
<1> SUFFICES ASSUME HoldsInv, [HoldsNext]_allVars PROVE HoldsInv'
  OBVIOUS
<1>0. {FewFaults, FewHarms, ManyFaults, ManyHarms, CaseFaults, CaseHarms, DrainFaults} \subseteq Nat
  BY PartsAssumption
<1>1. part' \in Parts /\ part' = part
  BY PartsStep DEF HoldsInv
<1>2. TypeInv'
  BY PartsStep, NextTypes DEF HoldsInv
<1>3. CaseInv' /\ CaseProof'
  BY <1>0, PartsStep, CaseStep, CaseStaysProof DEF HoldsInv
<1>4. DP!Sweep'
  BY <1>0, PartsStep, DrainIsTheSame, DP!SweepStep DEF HoldsInv
<1>5. ASSUME part = "vms" PROVE TwoP!IInv'
  BY <1>0, <1>5, PartsStep, ManyAreTheSame, TwoP!StepInvariant DEF HoldsInv
<1>6. ASSUME part # "vms" PROVE OneP!IInv'
  BY <1>0, <1>6, PartsStep, FewAreTheSame, OneP!StepInvariant DEF HoldsInv
<1> QED BY <1>1, <1>2, <1>3, <1>4, <1>5, <1>6 DEF HoldsInv

LEMMA HoldsHold == HoldsSpec => []HoldsInv
  BY HoldsInitially, HoldsStep, PTL DEF HoldsSpec, allVars

\* In every wave the variables of the part that runs are what its module says.
THEOREM PartsAreTyped == HoldsSpec => []PartTypeOK
<1>1. ASSUME HoldsInv PROVE PartTypeOK
  <2>1. TypeOK /\ F!TypeOK /\ D!DrainTypeOK
    BY <1>1, DrainIsTheSame DEF HoldsInv, TypeInv, CaseInv, DP!Sweep
  <2>2. IF part = "vms" THEN Two!TypeOK ELSE One!TypeOK
    BY <1>1, FewAreTheSame, ManyAreTheSame DEF HoldsInv, OneP!IInv, TwoP!IInv
  <2>3. part \in {"containers", "vm", "vms", "failed-start", "drain"}
    BY <1>1, PartsAssumption DEF HoldsInv
  <2> QED BY <2>1, <2>2, <2>3 DEF PartTypeOK
<1> QED BY <1>1, HoldsHold, PTL

\* A VM wave keeps the contract of a hold, whatever the number of its VMs: wherever
\* the window closes, what did not fail was measured, and a create that was given
\* up on or aborted is told.
THEOREM VmWavesKeepTheContract == HoldsSpec => []VmsKeepContract
<1>1. ASSUME HoldsInv PROVE VmsKeepContract
  <2>0. Few # {} /\ Many # {} /\ None \notin Nat
    BY PartsAssumption, HoldAssumption
  <2>1. ASSUME part = "vms" PROVE Two!KeepsContract
    BY <1>1, <2>0, <2>1, ManyAreTheSame, TwoP!InvariantKeepsContract DEF HoldsInv
  <2>2. ASSUME part # "vms" PROVE One!KeepsContract
    BY <1>1, <2>0, <2>2, FewAreTheSame, OneP!InvariantKeepsContract DEF HoldsInv
  <2> QED BY <2>1, <2>2 DEF VmsKeepContract
<1> QED BY <1>1, HoldsHold, PTL

\* In a VM wave a restart that passed found the package in a later VMI than the
\* one it was installed in, and a key that was added without a restart was.
THEOREM VmPassesAreProof == HoldsSpec => []VmStepsAreProof
<1>1. ASSUME HoldsInv PROVE VmStepsAreProof
  <2>1. ASSUME part = "vms" PROVE Two!RestartIsProof /\ Two!KeysWithoutRestart
    BY <1>1, <2>1 DEF HoldsInv, TwoP!IInv, TwoP!Sound, Two!RestartIsProof, Two!KeysWithoutRestart
  <2>2. ASSUME part # "vms" PROVE One!RestartIsProof /\ One!KeysWithoutRestart
    BY <1>1, <2>2 DEF HoldsInv, OneP!IInv, OneP!Sound, One!RestartIsProof, One!KeysWithoutRestart
  <2> QED BY <2>1, <2>2 DEF VmStepsAreProof
<1> QED BY <1>1, HoldsHold, PTL

\* A failed-start case passes nothing it did not see: a census that found nothing,
\* and read its places, began with nothing left; a case that has not failed
\* recovered on the fixed template; and what did not pass has failed the case.
THEOREM CasesAreProof == HoldsSpec => []CaseIsProof
<1>1. HoldsInv => CaseIsProof
  BY DEF HoldsInv, CaseProof, CaseIsProof
<1> QED BY <1>1, HoldsHold, PTL

\* What is left when a wave's drain ends is named, if every source answered.
THEOREM LeftIsNamed == HoldsSpec => []NothingLeftUnnamed
<1>1. ASSUME HoldsInv PROVE NothingLeftUnnamed
  <2>1. DP!NothingLeftUnnamed
    BY <1>1, DP!FullSweep DEF HoldsInv, DP!NothingLeftUnnamed, DP!Covered, DP!Sweep
  <2> QED BY <2>1, DrainIsTheSame DEF NothingLeftUnnamed
<1> QED BY <1>1, HoldsHold, PTL

\* A wave's drain implements the contract run_wave relies on.
THEOREM DrainsKeepTheirPromise == HoldsSpec => ImplementsContract
<1>1. HoldsInit => D!Contract!Init
  BY DEF HoldsInit, D!Init, D!Contract!Init
<1>2. ASSUME HoldsInv, [HoldsNext]_allVars
      PROVE  [D!Contract!End]_<<drainStage # "done", outcome>>
  <2>1. [DP!Contract!End]_<<drainStage # "done", outcome>>
    BY <1>2, PartsStep, DrainIsTheSame, DP!ContractStep DEF HoldsInv
  <2> QED BY <2>1 DEF D!Contract!End, DP!Contract!End, D!Contract!DrainOutcomes,
                      DP!Contract!DrainOutcomes, D!Contract!DrainOutcome,
                      DP!Contract!DrainOutcome
<1> QED BY <1>1, <1>2, HoldsHold, PTL
        DEF HoldsSpec, allVars, ImplementsContract, D!ImplementsContract, D!Contract!Spec
=============================================================================
