--------------------------- MODULE ContainerHold ---------------------------
(***************************************************************************)
(* The ramp and hold of a container wave (containers.rs `hold`): a Service,*)
(* then a claim and a Deployment per app; each app's Pod must get Ready, be *)
(* restarted in place, and be replaced, its claim read back each time. The  *)
(* Pods run claim.rs. The driver lists Pods and then reads their logs one   *)
(* by one, while the controllers and the kubelet go on.                     *)
(***************************************************************************)
EXTENDS HoldVerdict, FiniteSets

CONSTANTS
  Apps,      \* the wave's Deployments
  Faults,    \* bound: requests that get no answer, or are refused
  Harms      \* bound: claims that lose or garble what they hold

ASSUME HoldAssumption == Apps # {} /\ Faults \in Nat /\ Harms \in Nat /\ None \notin Nat

Names == 1..2   \* a Deployment's Pods, in the order they are made

Pod ==
  [ st       : {"absent", "waiting", "up", "ready", "gone"},
    restarts : Nat,
    term     : BOOLEAN,
    exits    : BOOLEAN,       \* its container will exit: it found no marker
    log      : {"empty", "written", "found", "mismatch"} ]

NoPod == [st |-> "absent", restarts |-> 0, term |-> FALSE, exits |-> FALSE, log |-> "empty"]

VARIABLES
  \* the cluster
  claims,     \* the apps with a claim
  deployed,   \* the apps with a Deployment
  data,       \* what a claim holds: nothing, the token and blob, or else
  marker,     \* the claims with the marker of the exit
  pods,       \* the Pods of each app, by name
  faults, harms,
  writes,     \* ghost: how often an app's data was written
  readback,   \* ghost: <<app, name, restarts>> that found their data
  \* the driver
  stage,      \* service | ramp | ready | front | restart | list | delete
              \* | reschedule | done
  todo,       \* the apps still to create, the Pods still to delete
  created, ready, failed,
  unlucky,    \* of failed, those a dependency given up on
  line,       \* the worst line so far
  flying,     \* ghost: a create may still land
  view,       \* the Pods of the last list whose logs are still to read
  done, stepFailed,   \* of the step in hand
  old         \* the Pod deleted of each app that is rescheduled

cluster == <<claims, deployed, data, marker, pods, harms, writes, readback>>

vars == <<cluster, faults, stage, todo, created, ready, failed, unlucky, line,
          flying, view, done, stepFailed, old>>

TypeOK ==
  /\ claims \subseteq Apps /\ deployed \subseteq claims
  /\ data \in [Apps -> {"nothing", "kept", "garbled"}]
  /\ marker \subseteq claims
  /\ pods \in [Apps -> [Names -> Pod]]
  /\ faults \in 0..Faults /\ harms \in 0..Harms
  /\ writes \in [Apps -> Nat]
  /\ readback \subseteq Apps \X Names \X Nat
  /\ stage \in {"service", "ramp", "ready", "front", "restart", "list", "delete",
                "reschedule", "done"}
  /\ todo \subseteq Apps
  /\ created \subseteq Apps /\ ready \subseteq created
  /\ failed \subseteq Apps /\ unlucky \subseteq Apps
  /\ line \in {"pass", "fail", "infra"} /\ flying \in BOOLEAN
  /\ view \subseteq ready \X Names
  /\ done \subseteq ready /\ stepFailed \subseteq done
  /\ DOMAIN old \subseteq ready /\ \A a \in DOMAIN old : old[a] \in Names

Init ==
  /\ claims = {} /\ deployed = {} /\ marker = {}
  /\ data = [a \in Apps |-> "nothing"]
  /\ pods = [a \in Apps |-> [n \in Names |-> NoPod]]
  /\ faults = Faults /\ harms = Harms
  /\ writes = [a \in Apps |-> 0] /\ readback = {}
  /\ stage = "service" /\ todo = Apps
  /\ created = {} /\ ready = {} /\ failed = {} /\ unlucky = {}
  /\ line = "pass" /\ flying = FALSE
  /\ view = {} /\ done = {} /\ stepFailed = {} /\ old = << >>

-----------------------------------------------------------------------------
(* The cluster, and claim.rs in its containers *)

ClusterStep ==
  /\ stage # "done"
  /\ UNCHANGED <<claims, deployed, faults, stage, todo, created, ready, failed, unlucky,
                 line, flying, view, done, stepFailed, old>>

Running(a, n) == pods[a][n].st \in {"up", "ready"}

SetPod(a, n, p) == pods' = [pods EXCEPT ![a][n] = p]

\* The Deployment's one replica: a Pod that is being deleted does not count.
MakePod(a, n) ==
  /\ a \in deployed /\ pods[a][n].st = "absent"
  /\ \A m \in Names : m < n => pods[a][m].term
  /\ SetPod(a, n, [NoPod EXCEPT !.st = "waiting"])
  /\ UNCHANGED <<data, marker, harms, writes, readback>>

\* What the claim holds: written if it held nothing, else found or a mismatch.
CheckOrWrite(a) ==
  CASE data[a] = "nothing" -> "written"
    [] data[a] = "kept"    -> "found"
    [] data[a] = "garbled" -> "mismatch"

\* A container starts: claim.rs looks at its claim, says so, and serves.
Start(a, n) ==
  /\ pods[a][n].st = "waiting" /\ ~pods[a][n].term
  /\ LET said == CheckOrWrite(a) IN
       /\ SetPod(a, n, [pods[a][n] EXCEPT !.st = "up", !.log = said,
                                          !.exits = a \notin marker])
       /\ IF said = "written"
          THEN data' = [data EXCEPT ![a] = "kept"] /\ writes' = [writes EXCEPT ![a] = @ + 1]
          ELSE UNCHANGED <<data, writes>>
       /\ readback' = readback \cup
                        { r \in {<<a, n, pods[a][n].restarts>>} : said = "found" }
  /\ UNCHANGED <<marker, harms>>

BecomeReady(a, n) ==
  /\ pods[a][n].st = "up"
  /\ SetPod(a, n, [pods[a][n] EXCEPT !.st = "ready"])
  /\ UNCHANGED <<data, marker, harms, writes, readback>>

\* It exits once, and the kubelet will restart it in place.
ExitOnce(a, n) ==
  /\ Running(a, n) /\ pods[a][n].exits
  /\ marker' = marker \cup {a}
  /\ SetPod(a, n, [pods[a][n] EXCEPT !.st = "waiting", !.restarts = @ + 1])
  /\ UNCHANGED <<data, harms, writes, readback>>

RemovePod(a, n) ==
  /\ pods[a][n].term /\ pods[a][n].st \notin {"absent", "gone"}
  /\ SetPod(a, n, [NoPod EXCEPT !.st = "gone", !.term = TRUE])
  /\ UNCHANGED <<data, marker, harms, writes, readback>>

\* A claim that is not in use comes back with nothing on it (the marker gone
\* too), or with other bytes.
Harm(a) ==
  /\ harms > 0 /\ harms' = harms - 1
  /\ data[a] # "nothing" /\ \A n \in Names : ~Running(a, n)
  /\ \/ data' = [data EXCEPT ![a] = "nothing"] /\ marker' = marker \ {a}
     \/ data' = [data EXCEPT ![a] = "garbled"] /\ UNCHANGED marker
  /\ UNCHANGED <<pods, writes, readback>>

Cluster ==
  /\ ClusterStep
  /\ \E a \in Apps :
       \/ Harm(a)
       \/ \E n \in Names : \/ MakePod(a, n) \/ Start(a, n) \/ BecomeReady(a, n)
                           \/ ExitOnce(a, n) \/ RemovePod(a, n)

-----------------------------------------------------------------------------
(* The driver: the ramp *)

Fault == faults > 0 /\ faults' = faults - 1

\* A line is emitted: could not run, if every failure of the step is that.
Emit(l) ==
  line' = IF "fail" \in {line, l} THEN "fail" ELSE IF "infra" \in {line, l} THEN "infra" ELSE "pass"

StepLine(bad, given_up) ==
  Emit(IF bad = {} THEN "pass" ELSE IF bad \subseteq given_up THEN "infra" ELSE "fail")

\* The Service: a create that fails has a line of its own, and the ramp goes on.
CreateService ==
  /\ stage = "service" /\ stage' = "ramp"
  /\ \/ UNCHANGED <<faults, line, flying>>
     \/ Fault /\ Emit("fail") /\ UNCHANGED flying
     \/ Fault /\ Emit("infra") /\ flying' \in BOOLEAN
  /\ UNCHANGED <<cluster, todo, created, ready, failed, unlucky, view, done, stepFailed, old>>

Ramp(a) ==
  /\ stage = "ramp" /\ a \in todo /\ todo' = todo \ {a}
  /\ UNCHANGED <<data, marker, pods, harms, writes, readback, stage, ready, line,
                 view, done, stepFailed, old>>

CreateApp(a) ==
  /\ Ramp(a)
  /\ claims' = claims \cup {a} /\ deployed' = deployed \cup {a}
  /\ created' = created \cup {a}
  /\ UNCHANGED <<faults, failed, unlucky, flying>>

CreateForgotten(a) ==
  /\ Ramp(a) /\ Fault
  /\ claims' \in {claims, claims \cup {a}}
  /\ deployed' \in {deployed, (deployed \cup {a}) \cap claims'}
  /\ flying' \in {flying, TRUE}
  /\ UNCHANGED <<created, failed, unlucky>>

\* The claim, or after it the Deployment, is refused.
CreateRefused(a) ==
  /\ Ramp(a) /\ Fault
  /\ claims' \in {claims, claims \cup {a}}
  /\ failed' = failed \cup {a}
  /\ UNCHANGED <<deployed, created, unlucky, flying>>

\* One of them gets no answer and is given up on: committed, or still on its
\* way (what lands later is not the hold's: it never looks at this app again).
CreateLost(a) ==
  /\ Ramp(a) /\ Fault
  /\ claims' \in {claims, claims \cup {a}}
  /\ deployed' \in {deployed, (deployed \cup {a}) \cap claims'}
  /\ flying' \in {flying, TRUE}
  /\ failed' = failed \cup {a} /\ unlucky' = unlucky \cup {a}
  /\ UNCHANGED created

RampEnds ==
  /\ stage = "ramp" /\ todo = {} /\ stage' = "ready"
  /\ UNCHANGED <<cluster, faults, todo, created, ready, failed, unlucky, line, flying,
                 view, done, stepFailed, old>>

-----------------------------------------------------------------------------
(* The driver: Ready, and the Service *)

Listed(a, n) == pods[a][n].st \in {"waiting", "up", "ready"}

\* One look: a Pod that was restarted was Ready before. A list that fails is
\* an empty one.
LookReady ==
  /\ stage = "ready" /\ ready # created
  /\ \/ /\ ready' = ready \cup
             { a \in created : \E n \in Names :
                 Listed(a, n) /\ (pods[a][n].st = "ready" \/ pods[a][n].restarts > 0) }
        /\ ready' # ready
        /\ UNCHANGED faults
     \/ Fault /\ UNCHANGED ready
  /\ UNCHANGED <<cluster, stage, todo, created, failed, unlucky, line, flying, view, done,
                 stepFailed, old>>

NeverReadyNorListed ==
  { a \in created \ ready : \A n \in Names : ~Listed(a, n) }

NeverReady == created \ ready

\* All are, or the deadline has come.
ReadyEnds ==
  /\ stage = "ready" /\ stage' = "front"
  /\ failed' = failed \cup NeverReady
  /\ StepLine(failed', unlucky)
  /\ UNCHANGED <<cluster, faults, todo, created, ready, unlucky, flying, view, done,
                 stepFailed, old>>

\* The Service is seen to front the Ready Pods and to answer, or not.
CheckService ==
  /\ stage = "front" /\ stage' = "restart"
  /\ \E l \in {"pass", "fail", "infra"} : Emit(l)
  /\ UNCHANGED <<cluster, faults, todo, created, ready, failed, unlucky, flying, view, done,
                 stepFailed, old>>

-----------------------------------------------------------------------------
(* The driver: restart in place, and reschedule *)

AwaitedOfCreated == IF stage = "restart" THEN created ELSE DOMAIN old

\* The apps a step waits for, and the Pods of theirs whose log it reads.
Awaited == IF stage = "restart" THEN ready ELSE DOMAIN old

Qualifies(a, n) ==
  IF stage = "restart" THEN pods[a][n].restarts > 0 ELSE n # old[a]

Candidates ==
  { c \in (Awaited \ done) \X Names :
      LET p == pods[c[1]][c[2]] IN p.st = "ready" /\ ~p.term /\ Qualifies(c[1], c[2]) }

LookStep ==
  /\ stage \in {"restart", "reschedule"} /\ view = {} /\ done # Awaited
  /\ Candidates # {} /\ view' = Candidates
  /\ UNCHANGED <<cluster, faults, stage, todo, created, ready, failed, unlucky, line, flying,
                 done, stepFailed, old>>

\* The log is that of the Pod's last container by now, if it is still there.
ReadLog(a, n) ==
  /\ <<a, n>> \in view /\ view' = view \ {<<a, n>>}
  /\ \/ /\ a \notin done /\ Listed(a, n) /\ pods[a][n].log \in {"found", "mismatch"}
        /\ done' = done \cup {a}
        /\ stepFailed' = IF pods[a][n].log = "found" THEN stepFailed ELSE stepFailed \cup {a}
        /\ UNCHANGED faults
     \/ /\ a \in done \/ ~Listed(a, n) \/ pods[a][n].log \notin {"found", "mismatch"}
        /\ UNCHANGED <<faults, done, stepFailed>>
     \/ Fault /\ UNCHANGED <<done, stepFailed>>
  /\ UNCHANGED <<cluster, stage, todo, created, ready, failed, unlucky, line, flying, old>>

FailedInStepByTime == Awaited \ done

FailedInStepAsRead == stepFailed

\* What a step that ends has failed: what was read, and what was not seen in time.
FailedInStep == stepFailed \cup (Awaited \ done)

StepEnds ==
  /\ view = {}
  /\ failed' = failed \cup FailedInStep
  /\ done' = {} /\ stepFailed' = {}
  /\ UNCHANGED <<cluster, faults, todo, created, ready, unlucky, flying, view, old>>

RestartEnds ==
  /\ stage = "restart" /\ stage' = "list"
  /\ StepEnds /\ StepLine(FailedInStep, {})

\* The Pods to delete: of each app that has not failed, the one that is there.
ListForDelete ==
  /\ stage = "list" /\ stage' = "delete"
  /\ \/ /\ \E f \in [ { a \in ready \ failed : \E n \in Names :
                          Listed(a, n) /\ ~pods[a][n].term } -> Names ] :
             /\ \A a \in DOMAIN f : Listed(a, f[a]) /\ ~pods[a][f[a]].term
             /\ old' = f
        /\ UNCHANGED faults
     \/ Fault /\ UNCHANGED old
  /\ todo' = DOMAIN old'
  /\ UNCHANGED <<cluster, created, ready, failed, unlucky, line, flying, view, done, stepFailed>>

\* Its answer is not looked at.
DeletePod(a) ==
  /\ stage = "delete" /\ a \in todo /\ todo' = todo \ {a}
  /\ \/ /\ SetPod(a, old[a], [pods[a][old[a]] EXCEPT !.term = TRUE])
        /\ UNCHANGED faults \/ Fault
     \/ UNCHANGED pods /\ Fault
  /\ UNCHANGED <<claims, deployed, data, marker, harms, writes, readback, stage, created, ready,
                 failed, unlucky, line, flying, view, done, stepFailed, old>>

DeletesEnd ==
  /\ stage = "delete" /\ todo = {} /\ stage' = "reschedule"
  /\ UNCHANGED <<cluster, faults, todo, created, ready, failed, unlucky, line, flying,
                 view, done, stepFailed, old>>

\* With nothing to reschedule the step is skipped: no failure, no pass.
RescheduleEnds ==
  /\ stage = "reschedule" /\ stage' = "done"
  /\ StepEnds
  /\ IF old = << >> THEN UNCHANGED line ELSE StepLine(FailedInStep, {})

Driver ==
  \/ CreateService
  \/ \E a \in Apps : CreateApp(a) \/ CreateRefused(a) \/ CreateLost(a) \/ DeletePod(a)
  \/ RampEnds \/ LookReady \/ ReadyEnds \/ CheckService
  \/ LookStep \/ \E a \in Apps, n \in Names : ReadLog(a, n)
  \/ RestartEnds \/ ListForDelete \/ DeletesEnd \/ RescheduleEnds

Next == Cluster \/ Driver

Spec == Init /\ [][Next]_vars

-----------------------------------------------------------------------------
(* Properties *)

\* What run_wave gets.
Outcome ==
  [ failed |-> failed # {}, line |-> line, start |-> IF ready = {} THEN None ELSE 1,
    flying |-> flying ]

\* It keeps the contract of a hold: what did not fail was measured, and creates
\* given up on are told.
KeepsContract == stage = "done" => Outcome \in HonestHolds

\* A wave that did not fail restarted each app's container in place and read
\* its claim back then, and replaced each Pod it deleted by another that read
\* its claim back - though logs are read after the lists that chose them.
PassIsProof ==
  stage = "done" /\ failed = {} =>
    /\ \A a \in Apps : \E c \in readback : c[1] = a /\ c[3] > 0
    /\ \A a \in DOMAIN old : \E c \in readback : c[1] = a /\ c[2] # old[a]

\* Garbled data that a container read fails the wave.
MismatchIsSeen ==
  stage = "done" /\ failed = {} =>
    \A a \in Apps, n \in Names : pods[a][n].log # "mismatch"

\* A wave that did not fail rescheduled every app - if every request was
\* answered: a list that fails counts as one without Pods.
PassIsOfAll ==
  stage = "done" /\ failed = {} /\ faults = Faults => DOMAIN old = Apps

\* README: "reads back the claim the old pod wrote".
PassedClaimsKept ==
  stage = "done" /\ failed = {} => \A a \in Apps : writes[a] <= 1
=============================================================================
