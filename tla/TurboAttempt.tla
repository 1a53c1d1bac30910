---------------------------- MODULE TurboAttempt ----------------------------
(***************************************************************************)
(* One turbomode attempt (turbomode.rs `attempt`) against the cluster it   *)
(* loads: the creates in flight, the wait for the Pods the watch shows,    *)
(* the evidence, the storage audits and the cleanup.                       *)
(*                                                                         *)
(* The cluster (apiserver, kubelet, volume driver, stormblock) is not part *)
(* of the repository. It is modelled from how the driver uses it, one      *)
(* small machine per item: an item is a Pod and, in the sqlite profile,    *)
(* the claim it mounts and the claim's PV and volume.                      *)
(***************************************************************************)
EXTENDS AttemptOutcome, Integers

CONSTANTS
  Items,        \* the Pods to create (sleep_pods, sqlite_pods)
  Profiles,     \* the profiles whose attempts are looked at
  Concurrency,  \* --concurrency: creates in flight at once
  Faults,       \* bound: how many things may go wrong in one attempt
  LateCommits   \* whether a POST the client gave up on may still be committed

ASSUME TurboAttemptAssumption ==
  /\ IsFiniteSet(Items) /\ Items # {}
  /\ Profiles \subseteq {"sleep", "sqlite"}
  /\ Concurrency \in Nat \ {0}
  /\ Faults \in Nat
  /\ LateCommits \in BOOLEAN

VARIABLES
  \* the cluster
  claim,    \* claim[i]: none | live | terminating | gone
  pod,      \* pod[i]: none | pending | running | succeeded | failed | terminating | gone
  vol,      \* vol[i]: none | made (volume, no PV) | bound (and its PV) | leaked (PV gone) | reclaimed
  node,     \* Pods whose cgroup is still on the node
  damaged,  \* Pods that found their database wrong
  late,     \* <<kind, item>>: POSTs given up on that may still be committed
  image,    \* the test's own executable on its volume: whole | changed
  faults,   \* faults left
  \* the driver
  profile,  \* the profile it runs
  stage,    \* where `attempt` is
  task,     \* task[i], create(i): queued | claim | claimMade | pod | podMade | acked | failed
  seen,     \* seen[i], the watch's last object of Pod i: none | live | succeeded | failed
  claims,   \* st.claims: the claims it knows
  listed,   \* the Pods cleanup will delete
  pvs,      \* st.pvs: the PVs captured
  kinds,    \* the kinds in st.failures
  infra,    \* ghost: in every failure so far the retry helper gave up
  verified, \* cleanup.is_ok()
  outcome   \* what `attempt` returns, once it has

cluster == <<claim, pod, vol, node, damaged, late, image>>
driver  == <<task, seen, claims, listed, pvs, kinds, infra, verified, outcome>>
vars    == <<cluster, faults, stage, driver, profile>>

Sqlite == profile = "sqlite"

Stages == { "start", "before", "create", "wait", "evidence", "volumes", "allocated",
            "listPods", "listClaims", "capture", "deletePods", "deleteClaims",
            "drain", "after", "digest", "done" }

TypeOK ==
  /\ claim \in [Items -> {"none", "live", "terminating", "gone"}]
  /\ pod \in [Items -> {"none", "pending", "running", "succeeded", "failed", "terminating", "gone"}]
  /\ vol \in [Items -> {"none", "made", "bound", "leaked", "reclaimed"}]
  /\ node \subseteq Items /\ damaged \subseteq Items
  /\ late \subseteq {"claim", "pod"} \X Items
  /\ image \in {"whole", "changed"}
  /\ faults \in 0..Faults
  /\ profile \in Profiles
  /\ stage \in Stages
  /\ task \in [Items -> {"queued", "claim", "claimMade", "pod", "podMade", "acked", "failed"}]
  /\ seen \in [Items -> {"none", "live", "succeeded", "failed"}]
  /\ claims \subseteq Items /\ listed \subseteq Items /\ pvs \subseteq Items
  /\ kinds \subseteq Kinds
  /\ infra \in BOOLEAN /\ verified \in BOOLEAN
  /\ outcome \in Outcome

-----------------------------------------------------------------------------
(* What is where *)

PodObjects == { i \in Items : pod[i] \notin {"none", "gone"} }
ClaimObjects == { i \in Items : claim[i] \in {"live", "terminating"} }
PVObjects == { i \in Items : vol[i] = "bound" }
Volumes == { i \in Items : vol[i] \in {"made", "bound", "leaked"} }

\* The Pods whose UID the attempt knows: acknowledged, or seen by the watch.
\* (Pods its cleanup only finds by label are deleted, but not remembered.)
KnownUids == { i \in Items : task[i] = "acked" \/ seen[i] # "none" }

\* PVs of claims it knows, by claim UID or name.
Capture == pvs' = pvs \cup (PVObjects \cap claims)

Contract == INSTANCE AttemptSpec WITH running <- stage # "done"

Init ==
  /\ claim = [i \in Items |-> "none"] /\ pod = [i \in Items |-> "none"]
  /\ vol = [i \in Items |-> "none"] /\ node = {} /\ damaged = {} /\ late = {}
  /\ image = "whole" /\ faults = Faults
  /\ profile \in Profiles
  /\ stage = "start"
  /\ task = [i \in Items |-> "queued"] /\ seen = [i \in Items |-> "none"]
  /\ claims = {} /\ listed = {} /\ pvs = {}
  /\ kinds = {} /\ infra = TRUE /\ verified = FALSE
  /\ outcome = Contract!Unknown

-----------------------------------------------------------------------------
(* The cluster, while the attempt runs *)

Fault == faults > 0 /\ faults' = faults - 1

ClusterStep == stage # "done" /\ UNCHANGED <<stage, driver>>

\* A POST given up on is committed after all.
CommitLate ==
  /\ \E i \in Items :
       \/ /\ <<"claim", i>> \in late /\ claim[i] = "none"
          /\ late' = late \ {<<"claim", i>>}
          /\ claim' = [claim EXCEPT ![i] = "live"]
          /\ UNCHANGED pod
       \/ /\ <<"pod", i>> \in late /\ pod[i] = "none"
          /\ late' = late \ {<<"pod", i>>}
          /\ pod' = [pod EXCEPT ![i] = "pending"]
          /\ UNCHANGED claim
  /\ UNCHANGED <<vol, node, damaged, image, faults, stage, driver>>

\* The claim's volume is made on the backend, then its PV is bound.
Provision(i) ==
  /\ Sqlite /\ claim[i] = "live" /\ vol[i] \in {"none", "made"}
  /\ vol' = [vol EXCEPT ![i] = IF @ = "none" THEN "made" ELSE "bound"]
  /\ UNCHANGED <<claim, pod, node, damaged, late, image, faults>>

\* The kubelet runs the Pod once its volume is there.
RunPod(i) ==
  /\ pod[i] = "pending"
  /\ Sqlite => vol[i] = "bound"
  /\ pod' = [pod EXCEPT ![i] = "running"]
  /\ node' = node \cup {i}
  /\ UNCHANGED <<claim, vol, damaged, late, image, faults>>

PodSucceeds(i) ==
  /\ pod[i] = "running"
  /\ pod' = [pod EXCEPT ![i] = "succeeded"]
  /\ UNCHANGED <<claim, vol, node, damaged, late, image, faults>>

\* The Pod fails; the sqlite workload also when its database is damaged,
\* which it says in its log.
PodFails(i) ==
  /\ pod[i] = "running"
  /\ Fault
  /\ pod' = [pod EXCEPT ![i] = "failed"]
  /\ damaged' \in IF Sqlite THEN {damaged, damaged \cup {i}} ELSE {damaged}
  /\ UNCHANGED <<claim, vol, node, late, image>>

\* A deleted Pod is removed; its cgroup may outlive it.
RemovePod(i) ==
  /\ pod[i] = "terminating"
  /\ pod' = [pod EXCEPT ![i] = "gone"]
  /\ UNCHANGED <<claim, vol, node, damaged, late, image, faults>>

CleanNode(i) ==
  /\ i \in node /\ pod[i] \in {"terminating", "gone"}
  /\ node' = node \ {i}
  /\ UNCHANGED <<claim, pod, vol, damaged, late, image, faults>>

\* A deleted claim goes once no Pod uses it.
RemoveClaim(i) ==
  /\ claim[i] = "terminating" /\ pod[i] \in {"none", "succeeded", "failed", "gone"}
  /\ claim' = [claim EXCEPT ![i] = "gone"]
  /\ UNCHANGED <<pod, vol, node, damaged, late, image, faults>>

\* Reclaim Delete: the claim's volume goes, with its PV; or the PV goes
\* before the volume, or without it.
Reclaim(i) ==
  /\ claim[i] = "gone"
  /\ \/ /\ vol[i] \in {"made", "bound", "leaked"}
        /\ vol' = [vol EXCEPT ![i] = "reclaimed"]
     \/ /\ vol[i] \in {"made", "bound"}
        /\ vol' = [vol EXCEPT ![i] = "leaked"]
  /\ UNCHANGED <<claim, pod, node, damaged, late, image, faults>>

\* The device under the running test answers with other content.
ChangeImage ==
  /\ image = "whole" /\ Fault
  /\ image' = "changed"
  /\ UNCHANGED <<claim, pod, vol, node, damaged, late>>

Cluster ==
  /\ \/ CommitLate
     \/ /\ ClusterStep
        /\ \/ \E i \in Items :
               \/ Provision(i) \/ RunPod(i) \/ PodSucceeds(i) \/ PodFails(i)
               \/ RemovePod(i) \/ CleanNode(i) \/ RemoveClaim(i) \/ Reclaim(i)
           \/ ChangeImage
  /\ UNCHANGED profile

-----------------------------------------------------------------------------
(* Failures *)

FailUnclassified(kind, gaveUp) ==
  /\ kinds' = kinds \cup {"other"}
  /\ infra' = (infra /\ gaveUp)

\* A failure of that kind is recorded; gaveUp: the retry helper gave up.
Fail(kind, gaveUp) ==
  /\ kinds' = kinds \cup {kind}
  /\ infra' = (infra /\ gaveUp)

NoFailure == UNCHANGED <<kinds, infra>>

\* A read the driver needs gets no answer, or an answer that is no use.
ReadFails(kind) == Fault /\ \E gaveUp \in BOOLEAN : Fail(kind, gaveUp)

-----------------------------------------------------------------------------
(* attempt and body: list and watch, the before audit *)

\* The list the watch starts from.
Start ==
  /\ stage = "start"
  /\ \/ /\ stage' = IF Sqlite THEN "before" ELSE "create"
        /\ NoFailure /\ UNCHANGED faults
     \/ /\ stage' = "listPods"
        /\ ReadFails("error")
  /\ UNCHANGED <<cluster, task, seen, claims, listed, pvs, verified, outcome>>

\* It records only, and fails only when it cannot read.
BeforeAudit ==
  /\ stage = "before"
  /\ \/ /\ stage' = "create"
        /\ NoFailure /\ UNCHANGED faults
     \/ /\ stage' = "listPods"
        /\ ReadFails("storage")
  /\ UNCHANGED <<cluster, task, seen, claims, listed, pvs, verified, outcome>>

-----------------------------------------------------------------------------
(* create: one task per item, Concurrency of them at a time *)

InFlight == { i \in Items : task[i] \in {"claim", "claimMade", "pod", "podMade"} }

SetTask(i, to) == task' = [task EXCEPT ![i] = to]

CreateStep ==
  /\ stage = "create"
  /\ UNCHANGED <<vol, node, damaged, image, stage, seen, listed, pvs, verified, outcome>>

\* A permit of the gate: the claim's POST, or the Pod's, is issued.
Issue(i) ==
  /\ task[i] = "queued" /\ Cardinality(InFlight) < Concurrency
  /\ SetTask(i, IF Sqlite THEN "claim" ELSE "pod")
  /\ UNCHANGED <<claim, pod, late, claims, kinds, infra, faults>>

\* The apiserver commits it.
Commit(i) ==
  /\ \/ /\ task[i] = "claim"
        /\ SetTask(i, "claimMade")
        /\ claim' = [claim EXCEPT ![i] = "live"]
        /\ UNCHANGED pod
     \/ /\ task[i] = "pod"
        /\ SetTask(i, "podMade")
        /\ pod' = [pod EXCEPT ![i] = "pending"]
        /\ UNCHANGED claim
  /\ UNCHANGED <<late, claims, kinds, infra, faults>>

\* Its answer arrives: the claim is remembered and the Pod's POST follows, or
\* the create is done.
Acknowledge(i) ==
  /\ \/ /\ task[i] = "claimMade"
        /\ SetTask(i, "pod")
        /\ claims' = claims \cup {i}
     \/ /\ task[i] = "podMade"
        /\ SetTask(i, "acked")
        /\ UNCHANGED claims
  /\ UNCHANGED <<claim, pod, late, kinds, infra, faults>>

\* post_once gives up on a create that may have landed (a timeout, a 5xx). If
\* it has not, the request may still be on its way.
Lose(i) ==
  /\ task[i] \in {"claim", "claimMade", "pod", "podMade"}
  /\ Fault
  /\ SetTask(i, "failed")
  /\ Fail("transient", TRUE)
  /\ late' = IF LateCommits /\ task[i] \in {"claim", "pod"}
             THEN late \cup {<<task[i], i>>} ELSE late
  /\ UNCHANGED <<claim, pod, claims>>

\* The apiserver refuses it.
Refuse(i) ==
  /\ task[i] \in {"claim", "pod"}
  /\ Fault
  /\ SetTask(i, "failed")
  /\ Fail("transient", FALSE)
  /\ UNCHANGED <<claim, pod, late, claims>>

\* Every create has ended: any failure among them ends the body.
CreatesEnded ==
  /\ stage = "create"
  /\ \A i \in Items : task[i] \in {"acked", "failed"}
  /\ stage' = IF \E i \in Items : task[i] = "failed" THEN "listPods" ELSE "wait"
  /\ UNCHANGED <<cluster, faults, driver>>

Create ==
  \/ CreateStep /\ \E i \in Items :
       Issue(i) \/ Commit(i) \/ Acknowledge(i) \/ Lose(i) \/ Refuse(i)
  \/ CreatesEnded

-----------------------------------------------------------------------------
(* body: the watch, the wait, the evidence *)

Observable(i) ==
  CASE pod[i] \in {"pending", "running"} -> "live"
    [] pod[i] \in {"succeeded", "failed"} -> pod[i]
    [] OTHER -> seen[i]

\* The watch, until it is aborted at the end of the body, delivers the state
\* of a Pod.
Observe ==
  /\ stage \in {"before", "create", "wait", "evidence", "volumes", "allocated"}
  /\ \E i \in Items :
       /\ Observable(i) # seen[i]
       /\ seen' = [seen EXCEPT ![i] = Observable(i)]
  /\ UNCHANGED <<cluster, faults, stage, task, claims, listed, pvs, kinds, infra, verified, outcome>>

FinishedOrSeen == { i \in Items : seen[i] # "none" }

Finished == { i \in Items : seen[i] \in {"succeeded", "failed"} }

AllFinished ==
  /\ stage = "wait" /\ Finished = Items
  /\ stage' = "evidence"
  /\ UNCHANGED <<cluster, faults, driver>>

FinishTimesOutIfAny ==
  /\ stage = "wait" /\ Finished \notin {{}, Items}
  /\ stage' = "listPods"
  /\ Fail("transient", FALSE)
  /\ UNCHANGED <<cluster, faults, task, seen, claims, listed, pvs, verified, outcome>>

\* The finish timeout: a partial startup.
FinishTimesOut ==
  /\ stage = "wait" /\ Finished # Items
  /\ stage' = "listPods"
  /\ Fail("transient", FALSE)
  /\ UNCHANGED <<cluster, faults, task, seen, claims, listed, pvs, verified, outcome>>

\* sleep: a Pod that failed is a transient failure.
SleepEvidence ==
  /\ stage = "evidence" /\ ~Sqlite
  /\ IF \E i \in Items : seen[i] = "failed" THEN Fail("transient", FALSE) ELSE NoFailure
  /\ stage' = "listPods"
  /\ UNCHANGED <<cluster, faults, task, seen, claims, listed, pvs, verified, outcome>>

\* sqlite: every log must be readable and prove its Pod's database.
SqliteEvidence ==
  /\ stage = "evidence" /\ Sqlite
  /\ \/ /\ ~\E i \in Items : seen[i] = "failed"
        /\ stage' = "volumes"
        /\ NoFailure /\ UNCHANGED faults
     \/ /\ \E i \in Items : seen[i] = "failed"
        /\ stage' = "listPods"
        /\ Fail("integrity", FALSE) /\ UNCHANGED faults
     \/ /\ ~\E i \in Items : seen[i] = "failed"      \* a log is unreadable
        /\ stage' = "listPods"
        /\ ReadFails("integrity")
  /\ UNCHANGED <<cluster, task, seen, claims, listed, pvs, verified, outcome>>

\* One PV per claim.
CountVolumes ==
  /\ stage = "volumes"
  /\ \/ /\ Capture /\ UNCHANGED faults
        /\ IF pvs' = Items THEN stage' = "allocated" /\ NoFailure
                           ELSE stage' = "listPods" /\ Fail("storage", FALSE)
     \/ /\ UNCHANGED pvs
        /\ stage' = "listPods"
        /\ ReadFails("error")
  /\ UNCHANGED <<cluster, task, seen, claims, listed, verified, outcome>>

\* The claims' volumes must all be there, each with storage.
AllocatedAudit ==
  /\ stage = "allocated"
  /\ \/ /\ IF claims \subseteq Volumes THEN NoFailure ELSE Fail("storage", FALSE)
        /\ UNCHANGED faults
     \/ ReadFails("storage")    \* unread, or a volume without storage
  /\ stage' = "listPods"
  /\ UNCHANGED <<cluster, task, seen, claims, listed, pvs, verified, outcome>>

Body == \/ Start \/ BeforeAudit \/ Create
        \/ AllFinished \/ FinishTimesOut \/ SleepEvidence \/ SqliteEvidence
        \/ CountVolumes \/ AllocatedAudit

-----------------------------------------------------------------------------
(* cleanup *)

\* A list cleanup needs fails: the cleanup is not verified, and over.
CleanupGivesUp ==
  /\ stage \in {"listPods", "listClaims", "capture", "drain"}
  /\ ReadFails("cleanup")
  /\ stage' = "digest"
  /\ UNCHANGED <<cluster, task, seen, claims, listed, pvs, verified, outcome>>

\* The attempt's Pods: those it was told of, and those that carry its label.
ListPods ==
  /\ stage = "listPods"
  /\ listed' = { i \in Items : task[i] = "acked" } \cup PodObjects
  /\ stage' = "listClaims"
  /\ UNCHANGED <<cluster, faults, task, seen, claims, pvs, kinds, infra, verified, outcome>>

\* Its claims, likewise: they stay known.
ListClaims ==
  /\ stage = "listClaims"
  /\ claims' = claims \cup ClaimObjects
  /\ stage' = "capture"
  /\ UNCHANGED <<cluster, faults, task, seen, listed, pvs, kinds, infra, verified, outcome>>

CaptureVolumes ==
  /\ stage = "capture"
  /\ Capture
  /\ stage' = "deletePods"
  /\ UNCHANGED <<cluster, faults, task, seen, claims, listed, kinds, infra, verified, outcome>>

\* Each is deleted by UID. A delete that fails is a recorded failure (it may
\* have taken effect all the same), and the cleanup goes on.
DeletePods ==
  /\ stage = "deletePods"
  /\ \E failed \in SUBSET (listed \cap PodObjects) :
       /\ \E applied \in SUBSET failed :
            pod' = [i \in Items |->
                      IF i \in (listed \cap PodObjects) \ failed \/ i \in applied
                      THEN "terminating" ELSE pod[i]]
       /\ IF failed = {} THEN NoFailure /\ UNCHANGED faults ELSE ReadFails("cleanup")
  /\ stage' = "deleteClaims"
  /\ UNCHANGED <<claim, vol, node, damaged, late, image,
                 task, seen, claims, listed, pvs, verified, outcome>>

DeleteClaims ==
  /\ stage = "deleteClaims"
  /\ \E failed \in SUBSET (claims \cap ClaimObjects) :
       /\ \E applied \in SUBSET failed :
            claim' = [i \in Items |->
                        IF i \in (claims \cap ClaimObjects) \ failed \/ i \in applied
                        THEN "terminating" ELSE claim[i]]
       /\ IF failed = {} THEN NoFailure /\ UNCHANGED faults ELSE ReadFails("cleanup")
  /\ stage' = "drain"
  /\ UNCHANGED <<pod, vol, node, damaged, late, image,
                 task, seen, claims, listed, pvs, verified, outcome>>

\* What the API still shows of the attempt: its label's Pods and claims, the
\* PVs it captured.
ApiDrained == PodObjects = {} /\ ClaimObjects = {} /\ PVObjects \cap pvs' = {}

\* One look of the drain loop (its lists are one step: without a late commit
\* what they show only shrinks). Not empty: it looks again, until the timeout.
DrainLook ==
  /\ stage = "drain"
  /\ Capture
  /\ \/ /\ ApiDrained
        /\ stage' = IF Sqlite THEN "after" ELSE "digest"
        /\ verified' = ~Sqlite
        /\ NoFailure
     \/ /\ ~ApiDrained
        /\ UNCHANGED <<stage, verified, kinds, infra>>
     \/ /\ ~ApiDrained
        /\ stage' = "digest"
        /\ Fail("cleanup", FALSE)
        /\ UNCHANGED verified
  /\ UNCHANGED <<cluster, faults, task, seen, claims, listed, outcome>>

\* Nothing on the backend under the names and ids of its claims, nothing on
\* the node under the UIDs it knows.
NothingAuditedOfPVs == Volumes \cap pvs = {} /\ node \cap KnownUids = {}

NothingAudited == Volumes \cap claims = {} /\ node \cap KnownUids = {}

\* The after audit, repeated until it verifies or the cleanup times out.
AfterAudit ==
  /\ stage = "after"
  /\ \/ /\ NothingAudited
        /\ verified' = TRUE
        /\ NoFailure /\ UNCHANGED faults
     \/ /\ ~NothingAudited
        /\ Fail("storage", FALSE)
        /\ UNCHANGED <<verified, faults>>
     \/ /\ ReadFails("storage")
        /\ UNCHANGED verified
  /\ stage' = "digest"
  /\ UNCHANGED <<cluster, task, seen, claims, listed, pvs, outcome>>

Cleanup == \/ CleanupGivesUp \/ ListPods \/ ListClaims \/ CaptureVolumes
           \/ DeletePods \/ DeleteClaims \/ DrainLook \/ AfterAudit

-----------------------------------------------------------------------------
(* The end of attempt *)

Residue == PodObjects \cup ClaimObjects \cup PVObjects

\* What the attempt could have found, had it looked: objects that carry its
\* label, its PVs, the volumes of claims it knows, cgroups of Pods it knows.
LeftToFind == \/ Residue # {}
              \/ Sqlite /\ Volumes \cap claims # {}
              \/ Sqlite /\ node \cap KnownUids # {}

\* The body got as far as the evidence: it read every Pod's log.
ReadTheLogs == Finished = Items /\ \A i \in Items : task[i] = "acked"

\* The image's digest is taken again, and the verdict is reached.
Conclude ==
  /\ stage = "digest"
  /\ stage' = "done"
  /\ IF image = "changed" THEN Fail("integrity", FALSE) ELSE NoFailure
  /\ outcome' = [ kinds    |-> kinds',
                  passed   |-> /\ kinds' = {}
                               /\ Cardinality({ i \in Items : task[i] = "acked" }) = Cardinality(Items)
                               /\ verified,
                  verified |-> verified,
                  infra    |-> infra' /\ kinds' # {},
                  left     |-> LeftToFind,
                  corrupt  |-> \/ image = "changed"
                               \/ ReadTheLogs /\ damaged # {} ]
  /\ UNCHANGED <<cluster, faults, task, seen, claims, listed, pvs, verified>>

Driver == (Body \/ Cleanup \/ Conclude) /\ UNCHANGED profile

Next == Cluster \/ Driver \/ (Observe /\ UNCHANGED profile)

\* Only the driver is fair: every wait of it has a deadline, every request an
\* end (the retry policy's). Nothing is assumed of the cluster or the watch.
Spec == Init /\ [][Next]_vars /\ WF_vars(Driver)

-----------------------------------------------------------------------------
(* Properties *)

\* The attempt ends as the retry loop is promised: its outcome is one of the
\* contract's, reached once. In particular a verified cleanup has left nothing
\* the attempt could have found, in the API, on the backend and on the node.
ImplementsContract == Contract!Spec

\* A pass is proof: every Pod was created and acknowledged, seen to succeed,
\* and (sqlite) had a volume of its own and an undamaged database; and the
\* image under the test is what it was.
PassIsProof ==
  stage = "done" /\ outcome.passed =>
    /\ \A i \in Items : task[i] = "acked" /\ seen[i] = "succeeded"
    /\ Sqlite => pvs = Items
    /\ damaged = {} /\ image = "whole"

\* From the first delete on, cleanup has in hand everything of the attempt the
\* API holds, a create whose acknowledgement was lost included, so nothing it
\* then waits for is something it never deleted.
LostAcksAreCleaned ==
  stage \in {"deletePods", "deleteClaims", "drain", "after"} =>
    PodObjects \subseteq listed /\ ClaimObjects \subseteq claims

\* The attempt ends: with a watch that shows nothing and a cluster that cleans
\* nothing too.
Terminates == <>(stage = "done")

\* "`after` needs nothing of the run left anywhere measured" (turbo_audit.rs):
\* after a verified sqlite cleanup no Pod of it has a cgroup on the node.
VerifiedLeavesNoCgroup == stage = "done" /\ verified /\ Sqlite => node = {}

\* "a later pass never hides a leak or corruption" (turbomode.rs:31): an
\* attempt one of whose Pods found its database damaged is never retried.
DamageIsFinal == stage = "done" /\ damaged # {} => ~Retryable(outcome)
=============================================================================
