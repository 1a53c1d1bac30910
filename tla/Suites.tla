------------------------------- MODULE Suites -------------------------------
(***************************************************************************)
(* The suites beside turbomode and the soak, and what all suites use: the  *)
(* mobility run and its claim and VM tests, the podapi run, the network of *)
(* the medium suite - one in which something fails to be asked, one in     *)
(* which something goes wrong - a topology run, a create, and the choice   *)
(* of the engine's transport. They share no state: a behaviour is of one   *)
(* of them, chosen at the start, and the others stay where they began.     *)
(***************************************************************************)
EXTENDS MobilityRun

CONSTANTS
  Parts,                                       \* bound: the parts a run looks at
  ClaimFaults, ClaimHarms,                     \* ClaimMove's
  VmFaults, VmHarms, Rounds,                   \* VmMove's
  PodFaults, PodHarms,                         \* PodApi's
  Pods, Vms, NetFaults, NetHarms,              \* Isolation's
  Masters, Workers, TopoFaults, TopoHarms,     \* Topology's
  CreateAttempts, CreateFaults,                \* Create's
  EngineAttempts, EngineFaults                 \* EngineChoice's

ASSUME SuitesAssumption ==
  /\ Parts \subseteq {"mobility", "claim", "vm", "podapi", "asked", "harmed", "topology", "create",
                     "engine"}
  /\ {ClaimFaults, ClaimHarms, VmFaults, VmHarms, Rounds, PodFaults, PodHarms, NetFaults, NetHarms,
      Masters, Workers, TopoFaults, TopoHarms, CreateAttempts, CreateFaults, EngineAttempts,
      EngineFaults} \subseteq Nat
  /\ CreateAttempts > 0 /\ EngineAttempts > 0
  /\ Vms \cap {"agent", "driver", "node"} = {} /\ "outside" \notin Pods \cup Vms

VARIABLES
  part,    \* mobility | claim | vm | podapi | asked | harmed | topology | create | engine
  claim, claimMove, asked, pods, claimFaults, claimHarms, toNode, claimPc, up, got, bytes,
  kept, claimResult, claimLost, atRequest,
  runs, vmi, disk, loop, vmMove, vmFaults, vmHarms, test, vmPc, first, seen, vmNow,
  vmResult, since, read,
  bound, allowed, marker, pod, valid, polls, look, said, conn, podPc, tokens, podLines,
  podFaults, podHarms, turns, heard,
  running, answers, policy, closed, netFaults, netHarms, netPc, todo, late, results,
  netLines, ready, missed, lossy, cut,
  apart, has, topoPods, reaches, topoClaim, topoLost, topoFaults, topoHarms, topoPc, full,
  workersReady, next, direct, bad, placed, probes, topoLines,
  object, onItsWay, accepts, createFaults, createPc, tries, createResult,
  mode, trusted, url, ca, enginePc, attempt, choice, engineFaults, refused, began

claimVars == <<claim, claimMove, asked, pods, claimFaults, claimHarms, toNode, claimPc, up,
               got, bytes, kept, claimResult, claimLost, atRequest>>

vmVars == <<runs, vmi, disk, loop, vmMove, vmFaults, vmHarms, test, vmPc, first, seen, vmNow,
            vmResult, since, read>>

podVars == <<bound, allowed, marker, pod, valid, polls, look, said, conn, podPc, tokens,
             podLines, podFaults, podHarms, turns, heard>>

netVars == <<running, answers, policy, closed, netFaults, netHarms, netPc, todo, late,
             results, netLines, ready, missed, lossy, cut>>

topoVars == <<apart, has, topoPods, reaches, topoClaim, topoLost, topoFaults, topoHarms,
              topoPc, full, workersReady, next, direct, bad, placed, probes, topoLines>>

createVars == <<object, onItsWay, accepts, createFaults, createPc, tries, createResult>>

engineVars == <<mode, trusted, url, ca, enginePc, attempt, choice, engineFaults, refused,
                began>>

C == INSTANCE ClaimMove WITH
  Faults <- ClaimFaults, Harms <- ClaimHarms, move <- claimMove, faults <- claimFaults,
  harms <- claimHarms, pc <- claimPc, result <- claimResult, lost <- claimLost

V == INSTANCE VmMove WITH
  Faults <- VmFaults, Harms <- VmHarms, move <- vmMove, faults <- vmFaults, harms <- vmHarms,
  pc <- vmPc, now <- vmNow, result <- vmResult

P == INSTANCE PodApi WITH
  Faults <- PodFaults, Harms <- PodHarms, pc <- podPc, lines <- podLines,
  faults <- podFaults, harms <- podHarms

Asked == INSTANCE Isolation WITH
  Faults <- NetFaults, Harms <- 0, faults <- netFaults, harms <- netHarms,
  pc <- netPc, lines <- netLines

Harmed == INSTANCE Isolation WITH
  Faults <- 0, Harms <- NetHarms, faults <- netFaults, harms <- netHarms,
  pc <- netPc, lines <- netLines

T == INSTANCE Topology WITH
  Faults <- TopoFaults, Harms <- TopoHarms, pods <- topoPods, claim <- topoClaim,
  lost <- topoLost, faults <- topoFaults, harms <- topoHarms, pc <- topoPc,
  ready <- workersReady, lines <- topoLines

K == INSTANCE Create WITH
  Attempts <- CreateAttempts, Faults <- CreateFaults, faults <- createFaults,
  pc <- createPc, result <- createResult

E == INSTANCE EngineChoice WITH
  Attempts <- EngineAttempts, Faults <- EngineFaults, faults <- engineFaults,
  pc <- enginePc

-----------------------------------------------------------------------------
(* Of the parts that a behaviour is not of, one beginning is enough *)

SuitesInit ==
  /\ part \in Parts
  /\ part # "mobility" => set = FALSE /\ vms = FALSE
  /\ part # "claim" => toNode = FALSE
  /\ part # "vm" => test = "live"
  /\ part # "topology" => full = FALSE /\ apart = {} /\ reaches = T!Ws /\ workersReady = 0
  /\ part # "create" => object = "none" /\ accepts = TRUE
  /\ part # "engine" => mode = 1 /\ trusted = TRUE /\ url = "none" /\ ca = "none"
  /\ Init /\ C!Init /\ V!Init /\ P!Init /\ T!Init /\ K!Init /\ E!Init
  /\ IF part = "harmed" THEN Harmed!Init ELSE Asked!Init

SuitesNext ==
  /\ UNCHANGED part
  /\ \/ /\ part = "mobility" /\ Next
        /\ UNCHANGED <<claimVars, vmVars, podVars, netVars, topoVars, createVars, engineVars>>
     \/ /\ part = "claim" /\ C!Next
        /\ UNCHANGED <<vars, vmVars, podVars, netVars, topoVars, createVars, engineVars>>
     \/ /\ part = "vm" /\ V!Next
        /\ UNCHANGED <<vars, claimVars, podVars, netVars, topoVars, createVars, engineVars>>
     \/ /\ part = "podapi" /\ P!Next
        /\ UNCHANGED <<vars, claimVars, vmVars, netVars, topoVars, createVars, engineVars>>
     \/ /\ part = "asked" /\ Asked!Next
        /\ UNCHANGED <<vars, claimVars, vmVars, podVars, topoVars, createVars, engineVars>>
     \/ /\ part = "harmed" /\ Harmed!Next
        /\ UNCHANGED <<vars, claimVars, vmVars, podVars, topoVars, createVars, engineVars>>
     \/ /\ part = "topology" /\ T!Next
        /\ UNCHANGED <<vars, claimVars, vmVars, podVars, netVars, createVars, engineVars>>
     \/ /\ part = "create" /\ K!Next
        /\ UNCHANGED <<vars, claimVars, vmVars, podVars, netVars, topoVars, engineVars>>
     \/ /\ part = "engine" /\ E!Next
        /\ UNCHANGED <<vars, claimVars, vmVars, podVars, netVars, topoVars, createVars>>

allVars == <<part, vars, claimVars, vmVars, podVars, netVars, topoVars, createVars, engineVars>>

SuitesSpec == SuitesInit /\ [][SuitesNext]_allVars

-----------------------------------------------------------------------------
(* The properties, each of the modules' name for it *)

\* The variables of a behaviour's part are what its module says.
SuitesTypeOK ==
  CASE part = "mobility" -> TypeOK
    [] part = "claim"    -> C!TypeOK
    [] part = "vm"       -> V!TypeOK
    [] part = "podapi"   -> P!TypeOK
    [] part = "asked"    -> Asked!TypeOK
    [] part = "harmed"   -> Harmed!TypeOK
    [] part = "topology" -> T!TypeOK
    [] part = "create"   -> K!TypeOK
    [] part = "engine"   -> E!TypeOK

\* A claim test, a live migration and a cold move that pass moved what they say,
\* and it kept what was written before.
MovesAreProof == C!PassIsProof /\ V!LivePassIsProof /\ V!ColdPassIsProof

\* A podapi run with a client tells of each item once, but for a review it cannot
\* ask for; its rbac items and its watch are proof.
PodApiIsProof == P!ToldOnce /\ P!RbacIsProof /\ P!WatchIsProof

\* A border that passes, and a pair within that fails, was closed by the policy.
VerdictsAreThePolicys ==
  IF part = "harmed" THEN Harmed!PassIsThePolicys /\ Harmed!FailIsThePolicys
  ELSE Asked!PassIsThePolicys /\ Asked!FailIsThePolicys

\* An open border is told, and so is every pair.
NothingIsPassedOver ==
  IF part = "harmed" THEN Harmed!LeakIsTold /\ Harmed!EveryPairIsTold
  ELSE Asked!LeakIsTold /\ Asked!EveryPairIsTold

\* A pod that is said to have kept running was not restarted; a member that is
\* up is told down only where a look at it failed.
LooksAreTrue == C!KeptRan /\ Asked!UpIsSeen

\* A topology's masters replicate, its workers reach each other, and its claim
\* was reattached, where its lines say so.
TopologyIsProof == T!ReplicatedIsProof /\ T!CrossIsProof /\ T!ReattachIsProof

\* A create that is reported as done is the run's own; one refused at once left
\* nothing.
CreateIsToldAsItIs == K!CreatedIsOurs /\ K!RefusedAtOnceIsAbsent

\* A refused certificate is final, and plain with a TLS engine was bad luck.
TlsIsKept == E!RefusalIsFinal /\ E!PlainOfTlsIsUnlucky
=============================================================================
