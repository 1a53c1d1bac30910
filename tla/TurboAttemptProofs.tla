------------------------- MODULE TurboAttemptProofs -------------------------
(***************************************************************************)
(* Proofs about TurboAttempt, for any Pods, any concurrency and any number *)
(* of things that go wrong, and of what TurboAttempts states of it.        *)
(***************************************************************************)
EXTENDS TurboAttempts, TLAPS

-----------------------------------------------------------------------------
(* Types *)

LEMMA FailsAreTyped ==
  ASSUME kinds \subseteq Kinds, infra \in BOOLEAN, NEW kind \in Kinds, NEW g \in BOOLEAN,
         Fail(kind, g)
  PROVE  kinds' \subseteq Kinds /\ infra' \in BOOLEAN
  BY DEF Fail

LEMMA ReadsAreTyped ==
  ASSUME TypeOK, NEW kind \in Kinds, ReadFails(kind)
  PROVE  kinds' \subseteq Kinds /\ infra' \in BOOLEAN /\ faults' \in 0..Faults
<1>1. faults' \in 0..Faults
  BY TurboAttemptAssumption DEF ReadFails, Fault, TypeOK
<1>2. PICK g \in BOOLEAN : Fail(kind, g)
  BY DEF ReadFails
<1> QED BY <1>1, <1>2, FailsAreTyped DEF TypeOK

\* The types of the cluster, of the tasks, and of the rest of the driver.
ClusterTyped ==
  /\ claim \in [Items -> {"none", "live", "terminating", "gone"}]
  /\ pod \in [Items -> {"none", "pending", "running", "succeeded", "failed", "terminating", "gone"}]
  /\ vol \in [Items -> {"none", "made", "bound", "leaked", "reclaimed"}]
  /\ node \subseteq Items /\ damaged \subseteq Items
  /\ late \subseteq {"claim", "pod"} \X Items
  /\ image \in {"whole", "changed"}

TasksTyped ==
  /\ task \in [Items -> {"queued", "claim", "claimMade", "pod", "podMade", "acked", "failed"}]
  /\ seen \in [Items -> {"none", "live", "succeeded", "failed"}]

RestTyped ==
  /\ stage \in Stages
  /\ claims \subseteq Items /\ listed \subseteq Items /\ pvs \subseteq Items
  /\ kinds \subseteq Kinds /\ infra \in BOOLEAN /\ faults \in 0..Faults
  /\ verified \in BOOLEAN /\ outcome \in Outcome /\ profile \in Profiles

LEMMA TypesSplit == TypeOK <=> ClusterTyped /\ TasksTyped /\ RestTyped
  BY DEF TypeOK, ClusterTyped, TasksTyped, RestTyped

LEMMA ClusterKeepsTypes ==
  ASSUME TypeOK, Cluster
  PROVE  TypeOK'
<1>1. UNCHANGED <<stage, driver, profile>>
  BY DEF Cluster, CommitLate, ClusterStep
<1>0. ASSUME ClusterTyped', faults' \in 0..Faults PROVE TypeOK'
  BY <1>0, <1>1, TypesSplit DEF TypeOK, ClusterTyped, driver
<1>2. CASE CommitLate
  <2>1. UNCHANGED <<vol, node, damaged, image, faults>>
    BY <1>2 DEF CommitLate
  <2>2. PICK i \in Items :
          /\ late' \subseteq late
          /\ claim' = claim \/ claim' = [claim EXCEPT ![i] = "live"]
          /\ pod' = pod \/ pod' = [pod EXCEPT ![i] = "pending"]
    BY <1>2 DEF CommitLate
  <2>3. ClusterTyped' /\ faults' \in 0..Faults
    BY <2>1, <2>2 DEF ClusterTyped, TypeOK
  <2> QED BY <1>0, <2>3
<1>3. ASSUME NEW i \in Items,
             \/ Provision(i) \/ RunPod(i) \/ PodSucceeds(i) \/ PodFails(i)
             \/ RemovePod(i) \/ CleanNode(i) \/ RemoveClaim(i) \/ Reclaim(i)
      PROVE  ClusterTyped' /\ faults' \in 0..Faults
  <2>. USE DEF ClusterTyped
  <2>0. ClusterTyped /\ faults \in 0..Faults
    BY TypesSplit DEF RestTyped
  <2>1. CASE Provision(i) \/ Reclaim(i)
    BY <2>0, <2>1 DEF Provision, Reclaim
  <2>2. CASE RunPod(i) \/ PodSucceeds(i) \/ RemovePod(i)
    BY <2>0, <2>2 DEF RunPod, PodSucceeds, RemovePod
  <2>3. CASE PodFails(i)
    BY <2>0, <2>3, TurboAttemptAssumption DEF PodFails, Fault
  <2>4. CASE CleanNode(i) \/ RemoveClaim(i)
    BY <2>0, <2>4 DEF CleanNode, RemoveClaim
  <2> QED BY <1>3, <2>1, <2>2, <2>3, <2>4
<1>4. CASE ChangeImage
  <2>1. ClusterTyped' /\ faults' \in 0..Faults
    BY <1>4, TurboAttemptAssumption DEF ChangeImage, Fault, ClusterTyped, TypeOK
  <2> QED BY <1>0, <2>1
<1>5. ASSUME NEW i \in Items,
             \/ Provision(i) \/ RunPod(i) \/ PodSucceeds(i) \/ PodFails(i)
             \/ RemovePod(i) \/ CleanNode(i) \/ RemoveClaim(i) \/ Reclaim(i)
      PROVE  TypeOK'
  BY <1>0, <1>3, <1>5
<1> QED BY <1>2, <1>4, <1>5 DEF Cluster

LEMMA CreateKeepsTypes ==
  ASSUME TypeOK, Create, UNCHANGED profile
  PROVE  TypeOK'
<1>. USE DEF Kinds
<1>1. CASE CreatesEnded
  BY <1>1 DEF CreatesEnded, cluster, driver, TypeOK, Stages
<1>2. ASSUME CreateStep, NEW i \in Items, Issue(i) \/ Commit(i) \/ Acknowledge(i)
      PROVE  TypeOK'
  BY <1>2 DEF CreateStep, Issue, Commit, Acknowledge, SetTask, TypeOK
<1>3. ASSUME CreateStep, NEW i \in Items, Lose(i) \/ Refuse(i)
      PROVE  TypeOK'
  <2>0. Fault /\ \E g \in BOOLEAN : Fail("transient", g)
    BY <1>3 DEF Lose, Refuse
  <2>1. kinds' \subseteq Kinds /\ infra' \in BOOLEAN /\ faults' \in 0..Faults
    BY <2>0, ReadsAreTyped DEF ReadFails
  <2>2. late' \subseteq {"claim", "pod"} \X Items
    <3>1. late' = late \/ (task[i] \in {"claim", "pod"} /\ late' = late \cup {<<task[i], i>>})
      BY <1>3 DEF Lose, Refuse
    <3> QED BY <1>3, <3>1 DEF TypeOK
  <2>3. task' \in [Items -> {"queued", "claim", "claimMade", "pod", "podMade", "acked", "failed"}]
    BY <1>3 DEF Lose, Refuse, SetTask, TypeOK
  <2>4. UNCHANGED <<claim, pod, vol, node, damaged, image, stage, seen, claims, listed, pvs,
                    verified, outcome>>
    BY <1>3 DEF CreateStep, Lose, Refuse
  <2> QED BY <2>1, <2>2, <2>3, <2>4 DEF TypeOK
<1> QED BY <1>1, <1>2, <1>3 DEF Create

\* The steps of the body and of cleanup but the creates: what each leaves of its
\* type as it is, and that the rest is.
LEMMA BodyKeepsTypes ==
  ASSUME TypeOK, UNCHANGED profile,
         \/ Start \/ BeforeAudit \/ AllFinished \/ FinishTimesOut \/ SleepEvidence
         \/ SqliteEvidence \/ CountVolumes \/ AllocatedAudit
  PROVE  TypeOK'
<1>. USE DEF Kinds, Stages
<1>0. TypeOK /\ kinds \subseteq Kinds /\ infra \in BOOLEAN
  BY DEF TypeOK
<1>1. UNCHANGED <<cluster, task, seen, claims, listed, verified, outcome>>
  BY DEF Start, BeforeAudit, AllFinished, FinishTimesOut, SleepEvidence, SqliteEvidence,
         CountVolumes, AllocatedAudit, driver
<1>2. stage' \in Stages
  BY DEF Start, BeforeAudit, AllFinished, FinishTimesOut, SleepEvidence, SqliteEvidence,
         CountVolumes, AllocatedAudit
<1>3. pvs' \subseteq Items
  BY DEF Start, BeforeAudit, AllFinished, FinishTimesOut, SleepEvidence, SqliteEvidence,
         CountVolumes, AllocatedAudit, Capture, driver, PVObjects, TypeOK
<1>4. /\ UNCHANGED faults \/ \E kind \in Kinds : ReadFails(kind)
      /\ \/ NoFailure \/ \E kind \in Kinds : ReadFails(kind)
         \/ \E kind \in Kinds : Fail(kind, FALSE)
  BY DEF Start, BeforeAudit, AllFinished, FinishTimesOut, SleepEvidence, SqliteEvidence,
         CountVolumes, AllocatedAudit, driver, NoFailure
<1>5. kinds' \subseteq Kinds /\ infra' \in BOOLEAN /\ faults' \in 0..Faults
  BY <1>0, <1>4, ReadsAreTyped, FailsAreTyped DEF NoFailure, TypeOK
<1> QED BY <1>1, <1>2, <1>3, <1>5 DEF cluster, TypeOK

LEMMA CleanupKeepsTypes ==
  ASSUME TypeOK, UNCHANGED profile, Cleanup
  PROVE  TypeOK'
<1>. USE DEF Kinds, Stages
<1>0. TypeOK /\ kinds \subseteq Kinds /\ infra \in BOOLEAN
  BY DEF TypeOK
<1>. USE DEF Cleanup, CleanupGivesUp, ListPods, ListClaims, CaptureVolumes, DeletePods, DeleteClaims,
             DrainLook, AfterAudit
<1>1. UNCHANGED <<vol, node, damaged, late, image, task, seen, outcome>>
  BY DEF cluster
<1>2. stage' \in Stages /\ verified' \in BOOLEAN
  BY DEF TypeOK
<1>3. claims' \subseteq Items /\ listed' \subseteq Items /\ pvs' \subseteq Items
  BY DEF Capture, PVObjects, PodObjects, ClaimObjects, TypeOK
<1>4. /\ UNCHANGED faults \/ \E kind \in Kinds : ReadFails(kind)
      /\ \/ NoFailure \/ \E kind \in Kinds : ReadFails(kind)
         \/ \E kind \in Kinds : Fail(kind, FALSE)
  BY DEF NoFailure
<1>5. kinds' \subseteq Kinds /\ infra' \in BOOLEAN /\ faults' \in 0..Faults
  BY <1>0, <1>4, ReadsAreTyped, FailsAreTyped DEF NoFailure, TypeOK
<1>6. /\ claim' \in [Items -> {"none", "live", "terminating", "gone"}]
      /\ pod' \in [Items -> {"none", "pending", "running", "succeeded", "failed", "terminating", "gone"}]
  BY DEF cluster, TypeOK
<1> QED BY <1>1, <1>2, <1>3, <1>5, <1>6 DEF TypeOK

LEMMA ConclusionIsTyped ==
  ASSUME TypeOK, UNCHANGED profile, Conclude
  PROVE  TypeOK'
<1>1. kinds' \subseteq Kinds /\ infra' \in BOOLEAN
  BY FailsAreTyped DEF Conclude, NoFailure, TypeOK, Kinds
<1>2. outcome' \in Outcome
  BY <1>1 DEF Conclude, Outcome, LeftToFind, ReadTheLogs, TypeOK
<1> QED BY <1>1, <1>2 DEF Conclude, TypeOK, cluster, Stages

LEMMA ObserveKeepsTypes ==
  ASSUME TypeOK, UNCHANGED profile, Observe
  PROVE  TypeOK'
<1>1. PICK i \in Items : seen' = [seen EXCEPT ![i] = Observable(i)]
  BY DEF Observe
<1>2. Observable(i) \in {"none", "live", "succeeded", "failed"}
  BY DEF Observable, TypeOK
<1>3. seen' \in [Items -> {"none", "live", "succeeded", "failed"}]
  BY <1>1, <1>2 DEF TypeOK
<1> QED BY <1>3 DEF Observe, TypeOK, cluster

LEMMA TypeStep ==
  ASSUME TypeOK, [Next]_vars
  PROVE  TypeOK'
<1>1. CASE Cluster
  BY <1>1, ClusterKeepsTypes
<1>2. CASE Driver
  BY <1>2, CreateKeepsTypes, BodyKeepsTypes, CleanupKeepsTypes, ConclusionIsTyped DEF Driver, Body
<1>3. CASE Observe /\ UNCHANGED profile
  BY <1>3, ObserveKeepsTypes
<1>4. CASE UNCHANGED vars
  BY <1>4 DEF vars, cluster, driver, TypeOK
<1> QED BY <1>1, <1>2, <1>3, <1>4 DEF Next

-----------------------------------------------------------------------------
(* The inductive invariant *)

\* From the body's end on: the watch is over, and no create is issued.
CleanupStages == { "listPods", "listClaims", "capture", "deletePods", "deleteClaims",
                   "drain", "after", "digest", "done" }

\* What is dead, or finished, stays so.
PodsOnlyAge ==
  \A i \in Items :
    /\ task[i] \in {"queued", "claim", "claimMade", "pod"} => pod[i] = "none"
    /\ pod[i] = "none" => seen[i] = "none" /\ i \notin node
    /\ seen[i] \in {"succeeded", "failed"} => pod[i] \in {seen[i], "terminating", "gone"}
    /\ i \in damaged => /\ Sqlite /\ seen[i] # "succeeded"
                        /\ pod[i] \in {"failed", "terminating", "gone"}

\* A volume has, or had, a claim, and a claim that was deleted is known.
ClaimsAreKnown ==
  \A i \in Items : /\ vol[i] # "none" => claim[i] # "none"
                   /\ claim[i] \in {"terminating", "gone"} => i \in claims

AllAcked == \A i \in Items : task[i] = "acked"

AllSucceeded == \A i \in Items : seen[i] = "succeeded"

\* How far the body is.
BodyIsThere ==
  /\ stage = "start" => \A i \in Items : task[i] = "queued"
  /\ stage = "before" => Sqlite /\ \A i \in Items : task[i] = "queued"
  /\ stage \in {"wait", "evidence", "volumes", "allocated"} => AllAcked
  /\ stage = "evidence" => Finished = Items
  /\ stage \in {"volumes", "allocated"} => Sqlite /\ AllSucceeded
  /\ stage = "allocated" => pvs = Items
  /\ \A i \in Items : task[i] = "failed" => kinds # {}

\* Nothing failed in the body only if all of it was done; and no damage that was
\* to be seen in the logs is unseen.
BodyIsTold ==
  stage \in CleanupStages =>
    /\ kinds = {} => AllAcked /\ AllSucceeded /\ (Sqlite => pvs = Items)
    /\ ReadTheLogs /\ damaged # {} => "integrity" \in kinds /\ ~infra

\* Cleanup has in hand what it will delete, and what it verified is gone stays
\* gone.
Drained == PodObjects = {} /\ ClaimObjects = {} /\ PVObjects = {}

CleanupIsTold ==
  /\ stage \in {"listClaims", "capture", "deletePods", "deleteClaims", "drain", "after"} =>
       PodObjects \subseteq listed
  /\ stage \in {"capture", "deletePods", "deleteClaims", "drain", "after"} =>
       ClaimObjects \subseteq claims
  /\ stage = "after" => Sqlite /\ Drained
  /\ verified => /\ stage \in {"digest", "done"} /\ Drained
                 /\ Sqlite => NothingAudited
  /\ stage \in {"digest", "done"} /\ ~verified => kinds \cap {"cleanup", "storage"} # {}

IInv == TypeOK /\ late = {} /\ PodsOnlyAge /\ ClaimsAreKnown /\ BodyIsThere /\ BodyIsTold
        /\ CleanupIsTold /\ PassIsProof

-----------------------------------------------------------------------------
(* The cluster's steps *)

\* What the cluster does while nothing is committed late.
ClusterGoesOn ==
  /\ UNCHANGED <<stage, profile, late>> /\ UNCHANGED driver
  /\ stage = "done" => UNCHANGED <<cluster, faults>>
  /\ image' # image => stage # "done"
  /\ \A i \in Items :
       /\ \/ pod'[i] = pod[i]
          \/ pod[i] = "pending" /\ pod'[i] = "running"
          \/ pod[i] = "running" /\ pod'[i] \in {"succeeded", "failed"}
          \/ pod[i] = "terminating" /\ pod'[i] = "gone"
       /\ claim'[i] = claim[i] \/ (claim[i] = "terminating" /\ claim'[i] = "gone")
       /\ vol[i] = "none" /\ vol'[i] # "none" => claim[i] = "live"
       /\ vol'[i] = "bound" => vol[i] = "bound" \/ claim[i] = "live"
       /\ vol'[i] \in {"made", "bound", "leaked"} =>
            vol[i] \in {"made", "bound", "leaked"} \/ claim[i] = "live"
       /\ i \in node' => i \in node \/ pod'[i] = "running"
       /\ i \in damaged' => i \in damaged \/ (Sqlite /\ pod[i] = "running" /\ pod'[i] = "failed")

LEMMA ClusterMoves ==
  ASSUME TypeOK, late = {}, Cluster
  PROVE  ClusterGoesOn
<1>0. ~CommitLate
  BY DEF CommitLate
<1>1. ClusterStep /\ UNCHANGED profile
  BY <1>0 DEF Cluster
<1>2. CASE ChangeImage
  BY <1>1, <1>2 DEF ChangeImage, ClusterStep, ClusterGoesOn
<1>3. ASSUME NEW i \in Items, Provision(i) \/ Reclaim(i) PROVE ClusterGoesOn
  BY <1>1, <1>3 DEF Provision, Reclaim, ClusterStep, ClusterGoesOn, TypeOK
<1>4. ASSUME NEW i \in Items, RunPod(i) \/ PodSucceeds(i) \/ RemovePod(i) PROVE ClusterGoesOn
  BY <1>1, <1>4 DEF RunPod, PodSucceeds, RemovePod, ClusterStep, ClusterGoesOn, TypeOK
<1>5. ASSUME NEW i \in Items, PodFails(i) PROVE ClusterGoesOn
  BY <1>1, <1>5 DEF PodFails, ClusterStep, ClusterGoesOn, TypeOK
<1>6. ASSUME NEW i \in Items, CleanNode(i) \/ RemoveClaim(i) PROVE ClusterGoesOn
  BY <1>1, <1>6 DEF CleanNode, RemoveClaim, ClusterStep, ClusterGoesOn, TypeOK
<1> QED BY <1>0, <1>2, <1>3, <1>4, <1>5, <1>6 DEF Cluster

LEMMA ClusterKeepsPods ==
  ASSUME TypeOK, PodsOnlyAge, ClaimsAreKnown, ClusterGoesOn
  PROVE  PodsOnlyAge' /\ ClaimsAreKnown'
<1>1. UNCHANGED <<task, seen, claims>> /\ (Sqlite' <=> Sqlite)
  BY DEF ClusterGoesOn, driver, Sqlite
<1>2. ASSUME NEW i \in Items
      PROVE  /\ task[i] \in {"queued", "claim", "claimMade", "pod"} => pod'[i] = "none"
             /\ pod'[i] = "none" => seen[i] = "none" /\ i \notin node'
             /\ seen[i] \in {"succeeded", "failed"} => pod'[i] \in {seen[i], "terminating", "gone"}
             /\ i \in damaged' => /\ Sqlite /\ seen[i] # "succeeded"
                                  /\ pod'[i] \in {"failed", "terminating", "gone"}
  BY <1>2 DEF PodsOnlyAge, ClusterGoesOn
<1>3. ASSUME NEW i \in Items
      PROVE  /\ vol'[i] # "none" => claim'[i] # "none"
             /\ claim'[i] \in {"terminating", "gone"} => i \in claims
  BY <1>3 DEF ClaimsAreKnown, ClusterGoesOn
<1> QED BY <1>1, <1>2, <1>3 DEF PodsOnlyAge, ClaimsAreKnown

LEMMA ClusterKeepsBody ==
  ASSUME TypeOK, TypeOK', PodsOnlyAge, BodyIsThere, BodyIsTold, ClusterGoesOn
  PROVE  BodyIsThere' /\ BodyIsTold'
<1>1. UNCHANGED <<task, seen, pvs, kinds, infra, stage>> /\ (Sqlite' <=> Sqlite)
      /\ Finished' = Finished
  BY DEF ClusterGoesOn, driver, Sqlite, Finished
<1>2. BodyIsThere'
  BY <1>1 DEF BodyIsThere, AllAcked, AllSucceeded
<1>3. ReadTheLogs => damaged' \subseteq damaged
  <2>. SUFFICES ASSUME ReadTheLogs, NEW i \in Items, i \in damaged' PROVE i \in damaged
    BY DEF TypeOK
  <2>1. seen[i] \in {"succeeded", "failed"}
    BY DEF ReadTheLogs, Finished
  <2>2. pod[i] # "running"
    BY <2>1 DEF PodsOnlyAge
  <2> QED BY <2>2 DEF ClusterGoesOn
<1>4. BodyIsTold'
  BY <1>1, <1>3 DEF BodyIsTold, AllAcked, AllSucceeded, ReadTheLogs
<1> QED BY <1>2, <1>4

LEMMA ClusterKeepsCleanup ==
  ASSUME TypeOK, TypeOK', PodsOnlyAge, ClaimsAreKnown, CleanupIsTold, ClusterGoesOn
  PROVE  CleanupIsTold'
<1>1. UNCHANGED <<task, seen, claims, listed, pvs, kinds, verified, stage>>
      /\ (Sqlite' <=> Sqlite) /\ KnownUids' = KnownUids
  BY DEF ClusterGoesOn, driver, Sqlite, KnownUids
<1>2. PodObjects' \subseteq PodObjects /\ ClaimObjects' \subseteq ClaimObjects
  BY DEF PodObjects, ClaimObjects, PodsOnlyAge, ClusterGoesOn
<1>3. Drained => Drained'
  <2>1. ASSUME Drained PROVE PVObjects' = {}
    BY <2>1 DEF Drained, PVObjects, ClaimObjects, ClusterGoesOn
  <2> QED BY <1>2, <2>1 DEF Drained
<1>4. Drained /\ NothingAudited => NothingAudited'
  <2>. SUFFICES ASSUME Drained, NothingAudited PROVE NothingAudited'
    OBVIOUS
  <2>1. Volumes' \subseteq Volumes
    BY DEF Drained, Volumes, ClaimObjects, ClusterGoesOn
  <2>2. node' \subseteq node
    <3>. SUFFICES ASSUME NEW i \in Items, i \in node' PROVE i \in node
      BY DEF TypeOK
    <3>1. pod[i] \in {"none", "gone"}
      BY DEF Drained, PodObjects
    <3> QED BY <3>1 DEF ClusterGoesOn
  <2> QED BY <1>1, <2>1, <2>2 DEF NothingAudited
<1> QED BY <1>1, <1>2, <1>3, <1>4 DEF CleanupIsTold

-----------------------------------------------------------------------------
(* The steps of the body *)

BodyStages == {"start", "before", "create", "wait", "evidence", "volumes", "allocated"}

\* Before cleanup there is nothing to say of it.
LEMMA NothingToTellYet ==
  ASSUME CleanupIsTold, stage \in BodyStages, stage' \in BodyStages \cup {"listPods"},
         UNCHANGED verified
  PROVE  CleanupIsTold'
  BY DEF CleanupIsTold, BodyStages

LEMMA CreateKeepsPods ==
  ASSUME TypeOK, late = {}, PodsOnlyAge, ClaimsAreKnown, Create, UNCHANGED profile
  PROVE  PodsOnlyAge' /\ ClaimsAreKnown'
<1>1. CASE CreatesEnded
  BY <1>1 DEF CreatesEnded, PodsOnlyAge, ClaimsAreKnown, cluster, driver, Sqlite
<1>. SUFFICES ASSUME CreateStep, NEW i \in Items,
                     Issue(i) \/ Commit(i) \/ Acknowledge(i) \/ Lose(i) \/ Refuse(i)
              PROVE  PodsOnlyAge' /\ ClaimsAreKnown'
  BY <1>1 DEF Create
<1>2. UNCHANGED <<vol, node, damaged, seen>> /\ (Sqlite' <=> Sqlite)
  BY DEF CreateStep, Sqlite
<1>3. CASE Issue(i)
  BY <1>2, <1>3 DEF Issue, SetTask, PodsOnlyAge, ClaimsAreKnown, TypeOK
<1>4. CASE Commit(i)
  BY <1>2, <1>4 DEF Commit, SetTask, PodsOnlyAge, ClaimsAreKnown, TypeOK
<1>5. CASE Acknowledge(i)
  BY <1>2, <1>5 DEF Acknowledge, SetTask, PodsOnlyAge, ClaimsAreKnown, TypeOK
<1>6. CASE Lose(i) \/ Refuse(i)
  BY <1>2, <1>6 DEF Lose, Refuse, SetTask, PodsOnlyAge, ClaimsAreKnown, TypeOK
<1> QED BY <1>3, <1>4, <1>5, <1>6

LEMMA CreateKeepsTheRest ==
  ASSUME TypeOK, late = {}, ~LateCommits, BodyIsThere, BodyIsTold, CleanupIsTold, Create,
         UNCHANGED profile
  PROVE  late' = {} /\ BodyIsThere' /\ BodyIsTold' /\ CleanupIsTold'
<1>1. stage = "create"
  BY DEF Create, CreateStep, CreatesEnded
<1>2. CASE CreatesEnded
  <2>1. /\ UNCHANGED <<task, seen, pvs, kinds, infra, damaged, verified, late>>
        /\ stage' \in {"listPods", "wait"}
        /\ stage' = "wait" => AllAcked
        /\ stage' = "listPods" => \E i \in Items : task[i] = "failed"
    BY <1>2 DEF CreatesEnded, cluster, driver, AllAcked
  <2>2. BodyIsThere'
    BY <2>1 DEF BodyIsThere, AllAcked
  <2>3. BodyIsTold'
    BY <2>1 DEF BodyIsThere, BodyIsTold, CleanupStages, ReadTheLogs
  <2>4. CleanupIsTold'
    BY <1>1, <2>1, NothingToTellYet DEF BodyStages
  <2> QED BY <1>2, <2>1, <2>2, <2>3, <2>4
<1>3. ASSUME CreateStep, NEW i \in Items,
             Issue(i) \/ Commit(i) \/ Acknowledge(i) \/ Lose(i) \/ Refuse(i)
      PROVE  late' = {} /\ BodyIsThere' /\ BodyIsTold' /\ CleanupIsTold'
  <2>1. stage' = "create" /\ UNCHANGED verified
    BY <1>1, <1>3 DEF CreateStep
  <2>2. late' = {}
    BY <1>3 DEF Issue, Commit, Acknowledge, Lose, Refuse
  <2>3. \A j \in Items : task'[j] = "failed" => kinds' # {}
    <3>1. CASE Issue(i) \/ Commit(i) \/ Acknowledge(i)
      BY <3>1 DEF Issue, Commit, Acknowledge, SetTask, TypeOK, BodyIsThere
    <3>2. CASE Lose(i) \/ Refuse(i)
      BY <3>2 DEF Lose, Refuse, Fail
    <3> QED BY <1>3, <3>1, <3>2
  <2>4. BodyIsThere' /\ BodyIsTold'
    BY <2>1, <2>3 DEF BodyIsThere, BodyIsTold, CleanupStages
  <2>5. CleanupIsTold'
    BY <1>1, <2>1, NothingToTellYet DEF BodyStages
  <2> QED BY <2>2, <2>4, <2>5
<1> QED BY <1>2, <1>3 DEF Create

LEMMA ObserveKeepsInvariant ==
  ASSUME TypeOK, PodsOnlyAge, ClaimsAreKnown, BodyIsThere, BodyIsTold, CleanupIsTold, Observe,
         UNCHANGED profile
  PROVE  PodsOnlyAge' /\ ClaimsAreKnown' /\ BodyIsThere' /\ BodyIsTold' /\ CleanupIsTold'
<1>1. /\ stage \in BodyStages /\ stage' = stage
      /\ UNCHANGED <<claim, pod, vol, node, damaged, task, claims, pvs, kinds, infra, verified>>
      /\ (Sqlite' <=> Sqlite)
  BY DEF Observe, cluster, BodyStages, Sqlite
<1>2. PICK i \in Items : seen' = [seen EXCEPT ![i] = Observable(i)] /\ Observable(i) # seen[i]
  BY DEF Observe
<1>3. /\ seen'[i] = Observable(i) /\ \A j \in Items : j # i => seen'[j] = seen[j]
      /\ seen[i] \in {"none", "live"}
      /\ Observable(i) \in {"live", "succeeded", "failed"}
      /\ Observable(i) = "live" => pod[i] \in {"pending", "running"}
      /\ Observable(i) # "live" => pod[i] = Observable(i)
  <2>1. pod[i] \in {"pending", "running", "succeeded", "failed"}
    BY <1>2 DEF Observable, TypeOK
  <2>2. seen[i] \in {"succeeded", "failed"} => pod[i] = seen[i]
    BY <2>1 DEF PodsOnlyAge
  <2>3. seen[i] \in {"none", "live"}
    BY <1>2, <2>1, <2>2 DEF Observable, TypeOK
  <2> QED BY <1>2, <2>1, <2>3 DEF Observable, TypeOK
<1>4. PodsOnlyAge'
  BY <1>1, <1>3 DEF PodsOnlyAge
<1>5. ClaimsAreKnown'
  BY <1>1 DEF ClaimsAreKnown
<1>6. Finished \subseteq Finished' /\ Finished' \subseteq Items
  BY <1>3 DEF Finished
<1>7. ~AllSucceeded
  BY <1>3 DEF AllSucceeded
<1>8. BodyIsThere' /\ BodyIsTold'
  BY <1>1, <1>6, <1>7 DEF BodyIsThere, BodyIsTold, AllAcked, CleanupStages, BodyStages
<1>9. CleanupIsTold'
  BY <1>1, NothingToTellYet
<1> QED BY <1>4, <1>5, <1>8, <1>9

LEMMA PodsStayAsTheyAre ==
  ASSUME PodsOnlyAge, ClaimsAreKnown,
         UNCHANGED <<claim, pod, vol, node, damaged, task, seen, claims, profile>>
  PROVE  PodsOnlyAge' /\ ClaimsAreKnown'
  BY DEF PodsOnlyAge, ClaimsAreKnown, Sqlite

\* What the failures are once the body has ended.
LEMMA BodyEnds ==
  ASSUME TypeOK, stage \in BodyStages, PodsOnlyAge, BodyIsThere, UNCHANGED profile,
         \/ Start \/ BeforeAudit \/ AllFinished \/ FinishTimesOut \/ SleepEvidence
         \/ SqliteEvidence \/ CountVolumes \/ AllocatedAudit
  PROVE  BodyIsThere' /\ BodyIsTold'
<1>0. /\ UNCHANGED <<task, seen, damaged>> /\ (Sqlite' <=> Sqlite) /\ Finished' = Finished
      /\ (ReadTheLogs' <=> ReadTheLogs) /\ (AllAcked' <=> AllAcked)
      /\ (AllSucceeded' <=> AllSucceeded) /\ kinds \subseteq kinds'
  BY DEF Start, BeforeAudit, AllFinished, FinishTimesOut, SleepEvidence, SqliteEvidence,
         CountVolumes, AllocatedAudit, cluster, driver, Sqlite, Finished, ReadTheLogs, AllAcked,
         AllSucceeded, NoFailure, ReadFails, Fail
<1>a. PICK i \in Items : TRUE
  BY TurboAttemptAssumption
<1>b. \A j \in Items : task'[j] = "failed" => kinds' # {}
  BY <1>0 DEF BodyIsThere
<1>c. ASSUME AllSucceeded PROVE damaged = {}
  BY <1>c DEF AllSucceeded, PodsOnlyAge, TypeOK
<1>d. ASSUME ~Sqlite PROVE damaged = {}
  BY <1>d DEF PodsOnlyAge, TypeOK
<1>1. CASE Start
  <2>1. ~ReadTheLogs
    BY <1>1, <1>a DEF Start, BodyIsThere, ReadTheLogs
  <2>2. stage' \in {"before", "create"} \/ (stage' = "listPods" /\ kinds' # {})
    BY <1>1 DEF Start, ReadFails, Fail
  <2>3. stage' = "before" => Sqlite /\ \A j \in Items : task[j] = "queued"
    BY <1>1 DEF Start, BodyIsThere
  <2> QED BY <1>0, <1>b, <2>1, <2>2, <2>3 DEF BodyIsThere, BodyIsTold, CleanupStages
<1>2. CASE BeforeAudit
  <2>1. ~ReadTheLogs
    BY <1>2, <1>a DEF BeforeAudit, BodyIsThere, ReadTheLogs
  <2>2. stage' = "create" \/ (stage' = "listPods" /\ kinds' # {})
    BY <1>2 DEF BeforeAudit, ReadFails, Fail
  <2> QED BY <1>0, <1>b, <2>1, <2>2 DEF BodyIsThere, BodyIsTold, CleanupStages
<1>3. CASE AllFinished
  <2>1. stage' = "evidence" /\ AllAcked /\ Finished = Items
    BY <1>3 DEF AllFinished, BodyIsThere
  <2> QED BY <1>0, <1>b, <2>1 DEF BodyIsThere, BodyIsTold, CleanupStages
<1>4. CASE FinishTimesOut
  <2>1. stage' = "listPods" /\ kinds' # {} /\ ~ReadTheLogs
    BY <1>4 DEF FinishTimesOut, Fail, ReadTheLogs
  <2> QED BY <1>0, <1>b, <2>1 DEF BodyIsThere, BodyIsTold, CleanupStages
<1>5. CASE SleepEvidence
  <2>1. stage' = "listPods" /\ ~Sqlite /\ AllAcked /\ Finished = Items
    BY <1>5 DEF SleepEvidence, BodyIsThere
  <2>2. kinds' = {} => AllSucceeded
    BY <1>5, <2>1 DEF SleepEvidence, Fail, Finished, AllSucceeded
  <2> QED BY <1>0, <1>b, <1>d, <2>1, <2>2 DEF BodyIsThere, BodyIsTold, CleanupStages
<1>6. CASE SqliteEvidence
  <2>1. Sqlite /\ AllAcked /\ Finished = Items
    BY <1>6 DEF SqliteEvidence, BodyIsThere
  <2>2. AllSucceeded \/ \E j \in Items : seen[j] = "failed"
    BY <2>1 DEF Finished, AllSucceeded
  <2>3. CASE \E j \in Items : seen[j] = "failed"
    <3>1. stage' = "listPods" /\ "integrity" \in kinds' /\ infra' = FALSE
      BY <1>6, <2>3 DEF SqliteEvidence, Fail
    <3> QED BY <1>0, <1>b, <3>1 DEF BodyIsThere, BodyIsTold, CleanupStages
  <2>4. CASE AllSucceeded
    <3>1. stage' = "volumes" \/ (stage' = "listPods" /\ kinds' # {})
      BY <1>6, <2>4 DEF SqliteEvidence, AllSucceeded, ReadFails, Fail
    <3> QED BY <1>0, <1>b, <1>c, <2>1, <2>4, <3>1 DEF BodyIsThere, BodyIsTold, CleanupStages
  <2> QED BY <2>2, <2>3, <2>4
<1>7. CASE CountVolumes
  <2>1. Sqlite /\ AllAcked /\ AllSucceeded
    BY <1>7 DEF CountVolumes, BodyIsThere
  <2>2. (stage' = "allocated" /\ pvs' = Items) \/ (stage' = "listPods" /\ kinds' # {})
    BY <1>7 DEF CountVolumes, ReadFails, Fail
  <2> QED BY <1>0, <1>b, <1>c, <2>1, <2>2 DEF BodyIsThere, BodyIsTold, CleanupStages
<1>8. CASE AllocatedAudit
  <2>1. stage' = "listPods" /\ AllAcked /\ AllSucceeded /\ pvs = Items /\ pvs' = pvs
    BY <1>8 DEF AllocatedAudit, BodyIsThere
  <2> QED BY <1>0, <1>b, <1>c, <2>1 DEF BodyIsThere, BodyIsTold, CleanupStages
<1> QED BY <1>1, <1>2, <1>3, <1>4, <1>5, <1>6, <1>7, <1>8

LEMMA BodyKeepsInvariant ==
  ASSUME TypeOK, PodsOnlyAge, ClaimsAreKnown, BodyIsThere, CleanupIsTold, UNCHANGED profile,
         \/ Start \/ BeforeAudit \/ AllFinished \/ FinishTimesOut \/ SleepEvidence
         \/ SqliteEvidence \/ CountVolumes \/ AllocatedAudit
  PROVE  /\ late' = late /\ PodsOnlyAge' /\ ClaimsAreKnown' /\ BodyIsThere' /\ BodyIsTold'
         /\ CleanupIsTold'
<1>1. /\ UNCHANGED <<cluster, task, seen, claims, verified>>
      /\ stage \in BodyStages /\ stage' \in BodyStages \cup {"listPods"}
  BY DEF Start, BeforeAudit, AllFinished, FinishTimesOut, SleepEvidence, SqliteEvidence,
         CountVolumes, AllocatedAudit, driver, BodyStages
<1>2. PodsOnlyAge' /\ ClaimsAreKnown'
  BY <1>1, PodsStayAsTheyAre DEF cluster
<1> QED BY <1>1, <1>2, BodyEnds, NothingToTellYet DEF cluster

-----------------------------------------------------------------------------
(* The steps of cleanup *)

\* Cleanup deletes Pods that are there, and claims it knows that are live or
\* going.
LEMMA CleanupKeepsPods ==
  ASSUME TypeOK, PodsOnlyAge, ClaimsAreKnown, Cleanup, UNCHANGED profile
  PROVE  /\ late' = late /\ PodsOnlyAge' /\ ClaimsAreKnown'
         /\ UNCHANGED <<vol, node, damaged, task, seen, image>> /\ (Sqlite' <=> Sqlite)
<1>. USE DEF Cleanup
<1>1. /\ UNCHANGED <<vol, node, damaged, late, task, seen, image>> /\ (Sqlite' <=> Sqlite)
      /\ claims \subseteq claims'
  BY DEF CleanupGivesUp, ListPods, ListClaims, CaptureVolumes, DeletePods, DeleteClaims,
         DrainLook, AfterAudit, cluster, Sqlite
<1>2. \A i \in Items : pod'[i] = pod[i] \/ (pod[i] \notin {"none", "gone"} /\ pod'[i] = "terminating")
  <2>1. CASE DeletePods
    BY <2>1 DEF DeletePods, PodObjects, TypeOK
  <2>2. CASE ~DeletePods
    BY <2>2 DEF CleanupGivesUp, ListPods, ListClaims, CaptureVolumes, DeleteClaims,
                DrainLook, AfterAudit, cluster
  <2> QED BY <2>1, <2>2
<1>3. \A i \in Items : \/ claim'[i] = claim[i]
                       \/ i \in claims /\ claim[i] # "none" /\ claim'[i] = "terminating"
  <2>1. CASE DeleteClaims
    BY <2>1 DEF DeleteClaims, ClaimObjects, TypeOK
  <2>2. CASE ~DeleteClaims
    BY <2>2 DEF CleanupGivesUp, ListPods, ListClaims, CaptureVolumes, DeletePods,
                DrainLook, AfterAudit, cluster
  <2> QED BY <2>1, <2>2
<1>4. PodsOnlyAge'
  BY <1>1, <1>2 DEF PodsOnlyAge
<1>5. ClaimsAreKnown'
  BY <1>1, <1>3 DEF ClaimsAreKnown
<1> QED BY <1>1, <1>4, <1>5

LEMMA CleanupKeepsBody ==
  ASSUME TypeOK, BodyIsThere, BodyIsTold, Cleanup, UNCHANGED profile
  PROVE  BodyIsThere' /\ BodyIsTold'
<1>. USE DEF Cleanup
<1>1. /\ UNCHANGED <<damaged, task, seen>> /\ (Sqlite' <=> Sqlite) /\ Finished' = Finished
  BY DEF CleanupGivesUp, ListPods, ListClaims, CaptureVolumes, DeletePods, DeleteClaims,
         DrainLook, AfterAudit, cluster, Sqlite, Finished
<1>2. pvs \subseteq pvs' /\ pvs' \subseteq Items
  BY DEF CleanupGivesUp, ListPods, ListClaims, CaptureVolumes, DeletePods, DeleteClaims,
         DrainLook, AfterAudit, Capture, PVObjects, TypeOK
<1>3. stage \in CleanupStages /\ stage' \in CleanupStages
  BY DEF CleanupGivesUp, ListPods, ListClaims, CaptureVolumes, DeletePods, DeleteClaims,
         DrainLook, AfterAudit, CleanupStages
<1>4. kinds \subseteq kinds' /\ (~infra => ~infra')
  BY DEF CleanupGivesUp, ListPods, ListClaims, CaptureVolumes, DeletePods, DeleteClaims,
         DrainLook, AfterAudit, NoFailure, ReadFails, Fail, TypeOK
<1>5. BodyIsThere'
  BY <1>1, <1>3, <1>4 DEF BodyIsThere, CleanupStages
<1>6. BodyIsTold'
  BY <1>1, <1>2, <1>3, <1>4 DEF BodyIsTold, AllAcked, AllSucceeded, ReadTheLogs
<1> QED BY <1>5, <1>6

\* An empty drain: the volumes of the claims it knows are captured, so none is
\* bound; a bound one has a claim, and cleanup knows it.
LEMMA DrainedIsDrained ==
  ASSUME TypeOK, ClaimsAreKnown, Capture, ApiDrained
  PROVE  Drained
<1>1. PodObjects = {} /\ ClaimObjects = {}
  BY DEF ApiDrained
<1>2. ASSUME NEW i \in PVObjects PROVE FALSE
  <2>1. claim[i] # "none" /\ i \in Items
    BY DEF PVObjects, ClaimsAreKnown
  <2>2. claim[i] = "gone"
    BY <1>1, <2>1 DEF ClaimObjects, TypeOK
  <2>3. i \in claims
    BY <2>1, <2>2 DEF ClaimsAreKnown
  <2>4. i \in pvs'
    BY <2>3 DEF Capture
  <2> QED BY <2>4 DEF ApiDrained
<1> QED BY <1>1, <1>2 DEF Drained

LEMMA CleanupKeepsCleanup ==
  ASSUME TypeOK, PodsOnlyAge, ClaimsAreKnown, CleanupIsTold, Cleanup, UNCHANGED profile
  PROVE  CleanupIsTold'
<1>. USE DEF Cleanup
<1>0. ~verified
  BY DEF CleanupIsTold, CleanupGivesUp, ListPods, ListClaims, CaptureVolumes, DeletePods,
         DeleteClaims, DrainLook, AfterAudit
<1>s. Sqlite' <=> Sqlite
  BY DEF Sqlite
<1>1. CASE CleanupGivesUp
  <2>1. stage' = "digest" /\ ~verified' /\ "cleanup" \in kinds'
    BY <1>0, <1>1 DEF CleanupGivesUp, ReadFails, Fail
  <2> QED BY <2>1 DEF CleanupIsTold
<1>2. CASE ListPods
  <2>1. stage' = "listClaims" /\ ~verified' /\ PodObjects' \subseteq listed'
    BY <1>0, <1>2 DEF ListPods, cluster, PodObjects
  <2> QED BY <2>1 DEF CleanupIsTold
<1>3. CASE ListClaims
  <2>1. /\ stage' = "capture" /\ ~verified' /\ PodObjects' \subseteq listed'
        /\ ClaimObjects' \subseteq claims'
    BY <1>0, <1>3 DEF ListClaims, cluster, PodObjects, ClaimObjects, CleanupIsTold
  <2> QED BY <2>1 DEF CleanupIsTold
<1>4. CASE CaptureVolumes
  <2>1. /\ stage' = "deletePods" /\ ~verified' /\ PodObjects' \subseteq listed'
        /\ ClaimObjects' \subseteq claims'
    BY <1>0, <1>4 DEF CaptureVolumes, cluster, PodObjects, ClaimObjects, CleanupIsTold
  <2> QED BY <2>1 DEF CleanupIsTold
<1>5. CASE DeletePods
  <2>1. stage = "deletePods" /\ stage' = "deleteClaims" /\ UNCHANGED <<claim, claims, listed, verified>>
    BY <1>5 DEF DeletePods
  <2>2. PodObjects' \subseteq PodObjects
    BY <1>5 DEF DeletePods, PodObjects, TypeOK
  <2>3. ClaimObjects' = ClaimObjects
    BY <2>1 DEF ClaimObjects
  <2> QED BY <1>0, <2>1, <2>2, <2>3 DEF CleanupIsTold
<1>6. CASE DeleteClaims
  <2>1. stage = "deleteClaims" /\ stage' = "drain" /\ UNCHANGED <<pod, claims, listed, verified>>
    BY <1>6 DEF DeleteClaims
  <2>2. ClaimObjects' \subseteq ClaimObjects
    BY <1>6 DEF DeleteClaims, ClaimObjects, TypeOK
  <2>3. PodObjects' = PodObjects
    BY <2>1 DEF PodObjects
  <2> QED BY <1>0, <2>1, <2>2, <2>3 DEF CleanupIsTold
<1>7. CASE DrainLook
  <2>0. /\ stage = "drain" /\ Capture /\ UNCHANGED cluster /\ UNCHANGED <<claims, listed>>
        /\ PodObjects' = PodObjects /\ ClaimObjects' = ClaimObjects /\ (Drained' <=> Drained)
    BY <1>7 DEF DrainLook, cluster, PodObjects, ClaimObjects, Drained, PVObjects
  <2>1. CASE ApiDrained
    <3>1. Drained
      BY <2>0, <2>1, DrainedIsDrained
    <3>2. stage' = (IF Sqlite THEN "after" ELSE "digest") /\ verified' = ~Sqlite
      BY <1>7, <2>1 DEF DrainLook
    <3>3. PodObjects = {} /\ ClaimObjects = {}
      BY <3>1 DEF Drained
    <3> QED BY <1>s, <2>0, <3>1, <3>2, <3>3 DEF CleanupIsTold
  <2>2. CASE ~ApiDrained /\ UNCHANGED <<stage, verified, kinds, infra>>
    BY <1>0, <2>0, <2>2 DEF CleanupIsTold
  <2>3. CASE stage' = "digest" /\ Fail("cleanup", FALSE) /\ UNCHANGED verified
    BY <1>0, <2>3 DEF CleanupIsTold, Fail
  <2> QED BY <1>7, <2>1, <2>2, <2>3 DEF DrainLook
<1>8. CASE AfterAudit
  <2>1. /\ stage = "after" /\ stage' = "digest" /\ Sqlite /\ Drained
        /\ UNCHANGED cluster /\ UNCHANGED <<task, seen, claims>>
    BY <1>8 DEF AfterAudit, CleanupIsTold
  <2>2. Drained' /\ (NothingAudited' <=> NothingAudited)
    BY <2>1 DEF cluster, Drained, PodObjects, ClaimObjects, PVObjects, NothingAudited, Volumes, KnownUids
  <2>3. verified' => NothingAudited
    BY <1>0, <1>8 DEF AfterAudit
  <2>4. ~verified' => "storage" \in kinds'
    BY <1>8 DEF AfterAudit, ReadFails, Fail
  <2> QED BY <2>1, <2>2, <2>3, <2>4 DEF CleanupIsTold
<1> QED BY <1>1, <1>2, <1>3, <1>4, <1>5, <1>6, <1>7, <1>8

-----------------------------------------------------------------------------
(* The conclusion *)

\* An attempt that recorded nothing did everything; so its outcome is one of the
\* contract's, and a pass is proof.
LEMMA ConclusionIsOfTheContract ==
  ASSUME TypeOK, TypeOK', PodsOnlyAge, BodyIsTold, CleanupIsTold, Conclude, UNCHANGED profile
  PROVE  /\ outcome' \in AttemptOutcomes
         /\ outcome'.passed => /\ AllAcked /\ AllSucceeded /\ (Sqlite => pvs = Items)
                              /\ damaged = {} /\ image = "whole"
<1>. DEFINE o == outcome'
<1>1. /\ stage = "digest" /\ o \in Outcome
      /\ o.kinds = kinds' /\ o.verified = verified
      /\ o.passed = (kinds' = {} /\ Cardinality({ i \in Items : task[i] = "acked" })
                                     = Cardinality(Items) /\ verified)
      /\ o.infra = (infra' /\ kinds' # {})
      /\ o.left = LeftToFind
      /\ o.corrupt = (image = "changed" \/ (ReadTheLogs /\ damaged # {}))
  BY DEF Conclude, TypeOK
<1>2. /\ kinds \subseteq kinds' /\ (infra' => infra)
      /\ image = "changed" => "integrity" \in kinds' /\ ~infra'
  BY DEF Conclude, NoFailure, Fail, TypeOK
<1>3. ASSUME kinds' = {}
      PROVE  /\ AllAcked /\ AllSucceeded /\ (Sqlite => pvs = Items) /\ image = "whole"
             /\ damaged = {} /\ verified
  <2>1. kinds = {} /\ image # "changed"
    BY <1>2, <1>3
  <2>2. AllAcked /\ AllSucceeded /\ (Sqlite => pvs = Items)
    BY <1>1, <2>1 DEF BodyIsTold, CleanupStages
  <2>3. damaged = {}
    BY <2>2 DEF AllSucceeded, PodsOnlyAge, TypeOK
  <2>4. verified
    BY <1>1, <2>1 DEF CleanupIsTold
  <2> QED BY <2>1, <2>2, <2>3, <2>4 DEF TypeOK
<1>4. o.passed <=> o.kinds = {}
  <2>1. ASSUME kinds' = {} PROVE { i \in Items : task[i] = "acked" } = Items
    BY <1>3, <2>1 DEF AllAcked
  <2> QED BY <1>1, <1>3, <2>1
<1>5. o.passed => o.verified
  BY <1>1
<1>6. o.verified => ~o.left
  <2>1. ASSUME verified PROVE ~LeftToFind
    BY <2>1 DEF CleanupIsTold, Drained, NothingAudited, LeftToFind, Residue
  <2> QED BY <1>1, <2>1
<1>7. ~o.verified => o.kinds \cap {"cleanup", "storage"} # {}
  BY <1>1, <1>2 DEF CleanupIsTold
<1>8. o.corrupt => "integrity" \in o.kinds /\ ~o.infra
  <2>1. ASSUME ReadTheLogs, damaged # {} PROVE "integrity" \in kinds' /\ ~infra'
    BY <1>1, <1>2, <2>1 DEF BodyIsTold, CleanupStages
  <2> QED BY <1>1, <1>2, <2>1
<1>9. o.infra => o.kinds # {}
  BY <1>1
<1>10. o \in AttemptOutcomes
  <2>. HIDE DEF o
  <2> QED BY <1>1, <1>4, <1>5, <1>6, <1>7, <1>8, <1>9 DEF AttemptOutcomes
<1> QED BY <1>3, <1>4, <1>1, <1>10

LEMMA ConclusionKeepsInvariant ==
  ASSUME IInv, TypeOK', Conclude, UNCHANGED profile
  PROVE  IInv'
<1>1. /\ UNCHANGED cluster /\ UNCHANGED <<task, seen, claims, listed, pvs, verified>>
      /\ stage = "digest" /\ stage' = "done" /\ (Sqlite' <=> Sqlite)
  BY DEF Conclude, Sqlite
<1>2. late' = {} /\ PodsOnlyAge' /\ ClaimsAreKnown'
  BY <1>1, PodsStayAsTheyAre DEF cluster, IInv
<1>3. /\ kinds \subseteq kinds' /\ (~infra => ~infra')
  BY DEF Conclude, NoFailure, Fail, IInv, TypeOK
<1>4. BodyIsThere' /\ BodyIsTold'
  <2>1. /\ (ReadTheLogs' <=> ReadTheLogs) /\ (AllAcked' <=> AllAcked)
        /\ (AllSucceeded' <=> AllSucceeded) /\ damaged' = damaged
    BY <1>1 DEF ReadTheLogs, Finished, AllAcked, AllSucceeded, cluster
  <2>2. BodyIsThere'
    BY <1>1, <1>3 DEF IInv, BodyIsThere
  <2>3. BodyIsTold'
    BY <1>1, <1>3, <2>1 DEF IInv, BodyIsTold, CleanupStages
  <2> QED BY <2>2, <2>3
<1>5. CleanupIsTold'
  <2>1. (Drained' <=> Drained) /\ (NothingAudited' <=> NothingAudited)
    BY <1>1 DEF cluster, Drained, PodObjects, ClaimObjects, PVObjects, NothingAudited, Volumes,
                KnownUids
  <2> QED BY <1>1, <1>3, <2>1 DEF IInv, CleanupIsTold
<1>6. PassIsProof'
  <2>1. outcome'.passed => /\ AllAcked /\ AllSucceeded /\ (Sqlite => pvs = Items)
                           /\ damaged = {} /\ image = "whole"
    BY ConclusionIsOfTheContract DEF IInv
  <2> QED BY <1>1, <2>1 DEF PassIsProof, AllAcked, AllSucceeded, cluster
<1> QED BY <1>2, <1>4, <1>5, <1>6 DEF IInv

-----------------------------------------------------------------------------
(* Every step keeps the invariant *)

LEMMA InitInvariant == Init => IInv
<1> SUFFICES ASSUME Init PROVE IInv
  OBVIOUS
<1>1. TypeOK
  <2>1. outcome \in Outcome /\ infra \in BOOLEAN /\ verified \in BOOLEAN /\ kinds \subseteq Kinds
    BY DEF Init, Outcome, Contract!Unknown
  <2>2. faults \in 0..Faults /\ profile \in Profiles /\ stage \in Stages
    BY TurboAttemptAssumption DEF Init, Stages
  <2>3. TasksTyped
    BY DEF Init, TasksTyped
  <2>4. ClusterTyped
    BY DEF Init, ClusterTyped
  <2>5. claims \subseteq Items /\ listed \subseteq Items /\ pvs \subseteq Items
    BY DEF Init
  <2> QED BY <2>1, <2>2, <2>3, <2>4, <2>5, TypesSplit DEF RestTyped
<1>2. PodsOnlyAge /\ ClaimsAreKnown
  BY DEF Init, PodsOnlyAge, ClaimsAreKnown
<1>3. BodyIsThere /\ BodyIsTold /\ CleanupIsTold /\ PassIsProof
  BY DEF Init, BodyIsThere, BodyIsTold, CleanupIsTold, PassIsProof, CleanupStages
<1> QED BY <1>1, <1>2, <1>3 DEF IInv, Init

\* No step but the last makes a verdict.
LEMMA OnlyTheLastConcludes ==
  ASSUME [Next]_vars, late = {}, TypeOK, ~(Conclude /\ UNCHANGED profile)
  PROVE  (stage' = "done" <=> stage = "done") /\ outcome' = outcome
<1>1. CASE Cluster
  BY <1>1, ClusterMoves DEF ClusterGoesOn, driver
<1>2. CASE Create
  BY <1>2 DEF Create, CreateStep, CreatesEnded, driver
<1>3. CASE Start \/ BeforeAudit \/ AllFinished \/ FinishTimesOut \/ SleepEvidence
           \/ SqliteEvidence \/ CountVolumes \/ AllocatedAudit
  BY <1>3 DEF Start, BeforeAudit, AllFinished, FinishTimesOut, SleepEvidence, SqliteEvidence,
              CountVolumes, AllocatedAudit, driver
<1>4. CASE Cleanup
  BY <1>4 DEF Cleanup, CleanupGivesUp, ListPods, ListClaims, CaptureVolumes, DeletePods,
              DeleteClaims, DrainLook, AfterAudit
<1>5. CASE Observe
  BY <1>5 DEF Observe
<1>6. CASE UNCHANGED vars
  BY <1>6 DEF vars, driver
<1> QED BY <1>1, <1>2, <1>3, <1>4, <1>5, <1>6 DEF Next, Driver, Body

LEMMA StepInvariant ==
  ASSUME ~LateCommits, IInv, [Next]_vars
  PROVE  IInv'
<1>0. /\ TypeOK /\ TypeOK' /\ late = {} /\ PodsOnlyAge /\ ClaimsAreKnown /\ BodyIsThere
      /\ BodyIsTold /\ CleanupIsTold
  BY TypeStep DEF IInv
<1>1. CASE Conclude /\ UNCHANGED profile
  BY <1>0, <1>1, ConclusionKeepsInvariant
<1>. SUFFICES ASSUME ~(Conclude /\ UNCHANGED profile)
              PROVE  IInv'
  BY <1>1
<1>2. (stage' = "done" <=> stage = "done") /\ outcome' = outcome
  BY <1>0, OnlyTheLastConcludes
<1>3. CASE Cluster
  <2>1. ClusterGoesOn
    BY <1>0, <1>3, ClusterMoves
  <2>2. PassIsProof'
    BY <2>1 DEF ClusterGoesOn, IInv, PassIsProof, cluster, driver, Sqlite
  <2>3. late' = {}
    BY <1>0, <2>1 DEF ClusterGoesOn
  <2> QED BY <1>0, <2>1, <2>2, <2>3, ClusterKeepsPods, ClusterKeepsBody, ClusterKeepsCleanup DEF IInv
<1>4. CASE Create /\ UNCHANGED profile
  <2>1. PassIsProof'
    BY <1>2, <1>4 DEF PassIsProof, Create, CreateStep, CreatesEnded
  <2> QED BY <1>0, <1>4, <2>1, CreateKeepsPods, CreateKeepsTheRest DEF IInv
<1>5. CASE /\ UNCHANGED profile
           /\ \/ Start \/ BeforeAudit \/ AllFinished \/ FinishTimesOut \/ SleepEvidence
              \/ SqliteEvidence \/ CountVolumes \/ AllocatedAudit
  <2>1. PassIsProof'
    BY <1>2, <1>5 DEF PassIsProof, Start, BeforeAudit, AllFinished, FinishTimesOut, SleepEvidence,
                      SqliteEvidence, CountVolumes, AllocatedAudit
  <2> QED BY <1>0, <1>5, <2>1, BodyKeepsInvariant DEF IInv
<1>6. CASE Cleanup /\ UNCHANGED profile
  <2>1. PassIsProof'
    BY <1>2, <1>6 DEF PassIsProof, Cleanup, CleanupGivesUp, ListPods, ListClaims, CaptureVolumes,
                      DeletePods, DeleteClaims, DrainLook, AfterAudit
  <2> QED BY <1>0, <1>6, <2>1, CleanupKeepsPods, CleanupKeepsBody, CleanupKeepsCleanup DEF IInv
<1>7. CASE Observe /\ UNCHANGED profile
  <2>1. PassIsProof' /\ late' = {}
    BY <1>0, <1>2, <1>7 DEF PassIsProof, Observe, cluster
  <2> QED BY <1>0, <1>7, <2>1, ObserveKeepsInvariant DEF IInv
<1>8. CASE UNCHANGED vars
  <2>1. UNCHANGED cluster /\ UNCHANGED <<stage, profile>> /\ UNCHANGED driver
    BY <1>8 DEF vars
  <2>2. ClusterGoesOn
    BY <1>8, <2>1 DEF vars, cluster, ClusterGoesOn
  <2>3. PassIsProof' /\ late' = {}
    BY <1>0, <2>1 DEF IInv, PassIsProof, cluster, driver, Sqlite
  <2> QED BY <1>0, <2>2, <2>3, ClusterKeepsPods, ClusterKeepsBody, ClusterKeepsCleanup DEF IInv
<1> QED BY <1>3, <1>4, <1>5, <1>6, <1>7, <1>8 DEF Next, Driver, Body

LEMMA AlwaysIInv ==
  ASSUME ~LateCommits
  PROVE  Init /\ [][Next]_vars => []IInv
<1>1. Init => IInv
  BY InitInvariant
<1>2. IInv /\ [Next]_vars => IInv'
  BY StepInvariant
<1> QED BY <1>1, <1>2, PTL

-----------------------------------------------------------------------------
(* What an attempt shows *)

\* The cluster's objects, the tasks and the driver's state have their types in
\* every state, late commits included.
THEOREM TypeCorrect == Spec => []TypeOK
<1>1. Init => TypeOK
  BY InitInvariant DEF IInv
<1>2. TypeOK /\ [Next]_vars => TypeOK'
  BY TypeStep
<1> QED BY <1>1, <1>2, PTL DEF Spec

\* An attempt that passes created and saw succeed every Pod, each with a volume of
\* its own, with no database damaged and its own image whole.
THEOREM PassesAreProof ==
  ASSUME ~LateCommits
  PROVE  Spec => []PassIsProof
<1>1. IInv => PassIsProof
  BY DEF IInv
<1> QED BY <1>1, AlwaysIInv, PTL DEF Spec

\* What cleanup waits for it has deleted: from the first delete on it knows every
\* Pod and every claim of the attempt, one whose create was given up on included.
THEOREM LostAcksAreAlwaysCleaned ==
  ASSUME ~LateCommits
  PROVE  Spec => []LostAcksAreCleaned
<1>1. IInv => LostAcksAreCleaned
  BY DEF IInv, CleanupIsTold, LostAcksAreCleaned
<1> QED BY <1>1, AlwaysIInv, PTL DEF Spec

\* `attempt` implements what the retry loop relies on: it ends once, in an outcome
\* of the contract - a verified cleanup has left nothing, a pass has no failure, and
\* damage that was seen is an integrity failure.
THEOREM AttemptImplementsItsContract ==
  ASSUME ~LateCommits
  PROVE  Spec => ImplementsContract
<1>1. Init => Contract!Init
  BY DEF Init, Contract!Init
<1>2. IInv /\ IInv' /\ [Next]_vars => [Contract!End]_<<stage # "done", outcome>>
  <2>. SUFFICES ASSUME IInv, IInv', [Next]_vars
                PROVE  [Contract!End]_<<stage # "done", outcome>>
    OBVIOUS
  <2>1. CASE Conclude /\ UNCHANGED profile
    <3>1. outcome' \in AttemptOutcomes
      BY <2>1, ConclusionIsOfTheContract DEF IInv
    <3>2. stage = "digest" /\ stage' = "done"
      BY <2>1 DEF Conclude
    <3>3. (stage # "done") = TRUE /\ (stage' # "done") = FALSE
      BY <3>2
    <3>4. Contract!AttemptOutcomes = AttemptOutcomes
      BY DEF AttemptOutcomes, Outcome, Kinds, Contract!AttemptOutcomes, Contract!Outcome,
             Contract!Kinds
    <3> QED BY <3>1, <3>3, <3>4 DEF Contract!End
  <2>2. CASE ~(Conclude /\ UNCHANGED profile)
    <3>1. (stage' = "done" <=> stage = "done") /\ outcome' = outcome
      BY <2>2, OnlyTheLastConcludes DEF IInv
    <3> QED BY <3>1
  <2> QED BY <2>1, <2>2
<1> QED BY <1>1, <1>2, AlwaysIInv, PTL DEF Spec, ImplementsContract, Contract!Spec

-----------------------------------------------------------------------------
(* The attempts of both kinds                                              *)

LEMMA EarlyIInv == AttemptsSpec => [](part = "early" => IInv)
<1> USE EarlyAssumption
<1>1. AttemptsInit => (part = "early" => IInv)
  BY InitInvariant DEF AttemptsInit
<1>2. (part = "early" => IInv) /\ [AttemptsNext]_<<vars, part>> => (part = "early" => IInv)'
  <2> SUFFICES ASSUME part = "early" => IInv, [AttemptsNext]_<<vars, part>>, part' = "early"
               PROVE  IInv'
    OBVIOUS
  <2>1. part = "early" /\ [Next]_vars
    BY DEF AttemptsNext
  <2> QED BY <2>1, StepInvariant
<1> QED BY <1>1, <1>2, PTL DEF AttemptsSpec

\* Without late commits, beside attempts that have them: a pass is proof, and
\* what was lost is cleaned.
THEOREM EarlyAttemptsAreProof == AttemptsSpec => []EarlyIsProof
<1>1. (part = "early" => IInv) => EarlyIsProof
  BY DEF EarlyIsProof, IInv, CleanupIsTold, LostAcksAreCleaned
<1> QED BY <1>1, EarlyIInv, PTL

\* And the contract is implemented.
THEOREM EarlyAttemptsImplementContract == AttemptsSpec => EarlyImplementsContract
<1> DEFINE running == part = "late" \/ stage # "done"
           ends == IF part = "late" THEN Contract!Unknown ELSE outcome
<1>1. AttemptsInit => Early!Init
  BY DEF AttemptsInit, Init, Late!Init, Early!Init, Early!Unknown, Contract!Unknown
<1>2. ASSUME part = "early" => IInv, (part = "early" => IInv)',
             [AttemptsNext]_<<vars, part>>
      PROVE  [Early!End]_<<running, ends>>
  <2>1. part' = part
    BY <1>2 DEF AttemptsNext
  <2>2. CASE part = "late"
    BY <2>1, <2>2
  <2>3. CASE part # "late" /\ UNCHANGED vars
    <3>1. stage' = stage /\ outcome' = outcome
      BY <2>3 DEF vars, driver
    <3> QED BY <2>1, <2>3, <3>1
  <2>4. CASE part = "early" /\ Next
    <3>1. IInv /\ IInv' /\ part' = "early"
      BY <1>2, <2>1, <2>4
    <3>2. CASE Conclude /\ UNCHANGED profile
      <4>1. outcome' \in AttemptOutcomes
        BY <3>1, <3>2, ConclusionIsOfTheContract DEF IInv
      <4>2. stage = "digest" /\ stage' = "done"
        BY <3>2 DEF Conclude
      <4>3. running = TRUE /\ running' = FALSE /\ ends' = outcome'
        BY <2>1, <2>4, <4>2
      <4>4. Early!AttemptOutcomes = AttemptOutcomes
        BY DEF AttemptOutcomes, Outcome, Kinds, Early!AttemptOutcomes, Early!Outcome,
               Early!Kinds
      <4> QED BY <4>1, <4>3, <4>4 DEF Early!End
    <3>3. CASE ~(Conclude /\ UNCHANGED profile)
      <4>1. (stage' = "done" <=> stage = "done") /\ outcome' = outcome
        BY <2>4, <3>1, <3>3, OnlyTheLastConcludes DEF IInv
      <4> QED BY <2>1, <4>1
    <3> QED BY <3>2, <3>3
  <2> QED BY <1>2, <2>2, <2>3, <2>4 DEF AttemptsNext
<1> QED BY <1>1, <1>2, EarlyIInv, PTL DEF AttemptsSpec, EarlyImplementsContract, Early!Spec
=============================================================================
