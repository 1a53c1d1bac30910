------------------------------ MODULE Topology ------------------------------
(***************************************************************************)
(* The topology suites (topology.rs `main`, `replicated`, `workloads`):    *)
(* the cluster's masters are each asked if they are ready, and what is     *)
(* written through one is read through the others; on the workers, pods    *)
(* are scheduled, reach each other, and a claim written on one is read on  *)
(* another.                                                                *)
(***************************************************************************)
EXTENDS Naturals, FiniteSets

CONSTANTS
  Masters, Workers,  \* how many the cluster has
  Faults,            \* bound: requests that get no answer
  Harms              \* bound: what goes wrong in the cluster

Ms == 1..Masters
Ws == 1..Workers

\* A serve pod for each worker, the agent, and the two pods of the claim.
Serves == { <<"serve", w>> : w \in Ws }
Agent == <<"agent", 1>>
Writer == <<"claim", 1>>
Reader == <<"claim", 2>>
Names == Serves \cup {Agent, Writer, Reader}

VARIABLES
  \* the cluster
  apart,     \* the masters with a store of their own
  has,       \* the masters that answer with the ConfigMap
  pods,
  reaches,   \* the workers whose pods the agent's node reaches
  claim,     \* none | empty | whole | damaged
  lost,      \* ghost: what the claim held was lost before it was read again
  faults, harms,
  \* the driver
  pc,
  full,      \* full-six, not three-master
  ready,     \* how many workers were Ready: the first of them
  next,      \* the master, or the worker, whose turn it is
  direct,    \* the masters that said they are ready
  bad,       \* something of the present item was not as it should be
  placed,    \* the workers whose serve pod runs there
  probes,    \* what the agent's log tells of them
  lines

cluster == <<apart, has, pods, reaches, claim, lost, harms>>

driver == <<pc, full, ready, next, direct, bad, placed, probes, lines>>

vars == <<cluster, driver, faults>>

Pod == [ phase : {"none", "pending", "running", "ended"}, node : 0..Workers,
         said : {"nothing", "written", "found", "mismatch"} ]

Items == {"list", "etcd", "schedule", "cross", "reattach"}

TypeOK ==
  /\ apart \subseteq Ms /\ has \subseteq Ms /\ pods \in [Names -> Pod]
  /\ reaches \subseteq Ws /\ claim \in {"none", "empty", "whole", "damaged"}
  /\ lost \in BOOLEAN /\ full \in BOOLEAN
  /\ faults \in 0..Faults /\ harms \in 0..Harms
  /\ pc \in {"list", "masters", "write", "read", "forget", "workers", "create", "place", "agent",
             "probe", "cross", "claim", "writer", "written", "reader", "found", "done"}
  /\ ready \in 0..Workers /\ next \in 1..(Masters + 1) \cup 1..(Workers + 1)
  /\ direct \subseteq Ms /\ bad \in BOOLEAN /\ placed \subseteq Ws
  /\ probes \in [Ws -> {"untold", "open", "other"}]
  /\ lines \in [Items -> {"none", "pass", "fail", "skip", "infra"}]

\* Masters with stores of their own are looked at in three-master alone.
Init ==
  /\ full \in BOOLEAN
  /\ apart \in (IF full THEN {{}} ELSE SUBSET Ms) /\ has = {}
  /\ reaches \in { Ws } \cup { Ws \ {w} : w \in Ws \ {1} }
  /\ pods = [n \in Names |-> [ phase |-> "none", node |-> 0, said |-> "nothing" ]]
  /\ claim = "none" /\ lost = FALSE /\ faults = Faults /\ harms = Harms
  /\ pc = "list" /\ ready \in 0..Workers /\ next = 1 /\ direct = {} /\ bad = FALSE
  /\ placed = {} /\ probes = [w \in Ws |-> "untold"] /\ lines = [i \in Items |-> "none"]

-----------------------------------------------------------------------------
(* The cluster *)

Harm == harms > 0 /\ harms' = harms - 1

\* A master answers with what was written through another, of the same store.
Replicate ==
  /\ \E m \in direct \ has : /\ \E w \in has : w \notin apart /\ m \notin apart
                             /\ has' = has \cup {m}
  /\ UNCHANGED <<apart, pods, reaches, claim, lost, harms>>

\* The worker a pod is pinned to; the claim is written on the last of the
\* workers and read on another, the second if there are three.
Pinned(n) ==
  CASE n \in Serves -> n[2]
    [] n = Agent -> 1
    [] n = Writer -> ready
    [] n = Reader -> IF ready > 2 THEN 2 ELSE 1

\* A pod runs where it is pinned to, or ends, or runs elsewhere.
RunPod(n) ==
  /\ pods[n].phase = "pending"
  /\ \/ pods' = [pods EXCEPT ![n].phase = "running", ![n].node = Pinned(n)] /\ UNCHANGED harms
     \/ pods' = [pods EXCEPT ![n].phase = "ended", ![n].node = Pinned(n)] /\ UNCHANGED harms
     \/ /\ Harm /\ \E w \in Ws : pods' = [pods EXCEPT ![n].phase = "running", ![n].node = w]
  /\ UNCHANGED <<apart, has, reaches, claim, lost>>

\* claim.rs check_or_write: it writes a claim that it finds empty.
SayOfClaim(n) ==
  /\ n \in {Writer, Reader} /\ pods[n].phase = "running" /\ pods[n].said = "nothing"
  /\ claim # "none"
  /\ pods' = [pods EXCEPT ![n].said = CASE claim = "empty" -> "written"
                                        [] claim = "whole" -> "found"
                                        [] OTHER -> "mismatch"]
  /\ claim' = IF claim = "empty" THEN "whole" ELSE claim
  /\ UNCHANGED <<apart, has, reaches, lost, harms>>

\* What it holds is lost, or damaged, on the way to the other worker.
LoseClaim ==
  /\ claim = "whole" /\ pods[Reader].said = "nothing" /\ Harm
  /\ claim' \in {"empty", "damaged"} /\ lost' = TRUE
  /\ UNCHANGED <<apart, has, pods, reaches>>

Cluster ==
  /\ pc # "done"
  /\ \/ Replicate \/ LoseClaim
     \/ \E n \in Names : RunPod(n) \/ SayOfClaim(n)
  /\ UNCHANGED <<driver, faults>>

-----------------------------------------------------------------------------
(* The driver: the masters *)

Fault == faults > 0 /\ faults' = faults - 1

Goto(p) == pc' = p

Line(i, v) == lines' = [lines EXCEPT ![i] = v]

Looks == UNCHANGED <<cluster, full, ready>>

\* The Cluster, its members and the Nodes; unread, nothing can be judged.
List ==
  /\ pc = "list"
  /\ \/ Goto("masters") /\ UNCHANGED <<lines, faults>>
     \/ Goto("done") /\ Line("list", "infra") /\ Fault
  /\ Looks /\ UNCHANGED <<next, direct, bad, placed, probes>>

\* One master's /readyz.
AskReady ==
  /\ pc = "masters" /\ next <= Masters /\ next' = next + 1
  /\ \/ direct' = direct \cup {next}
     \/ UNCHANGED direct
  /\ Looks /\ UNCHANGED <<pc, bad, placed, probes, lines, faults>>

\* With one alone nothing is replicated.
AllAsked ==
  /\ pc = "masters" /\ next > Masters /\ next' = 1
  /\ IF Cardinality(direct) < 2 THEN Goto("workers") /\ Line("etcd", "skip")
     ELSE Goto("write") /\ UNCHANGED lines
  /\ Looks /\ UNCHANGED <<direct, bad, placed, probes, faults>>

EtcdFails(v) == Goto("workers") /\ Line("etcd", v)

\* The masters that said so, but the first: it is written through that one, and
\* read through these.
Rest == { m \in direct : \E k \in direct : k < m }

WriteMark ==
  /\ pc = "write" /\ bad' = FALSE
  /\ \E first \in direct \ Rest :
       \/ has' = {first} /\ Goto("read") /\ UNCHANGED <<lines, faults>>
       \/ has' = {} /\ EtcdFails("fail") /\ UNCHANGED faults
       \/ has' \in {{}, {first}} /\ EtcdFails("infra") /\ Fault
  /\ UNCHANGED <<apart, pods, reaches, claim, lost, harms, full, ready, next, direct, placed,
                 probes>>

ToRead == { m \in Rest : m >= next }

\* The next of the others answers with it; or time is up, and the one after is
\* asked once (a refusal is no answer); or a request fails, and the mark is left behind.
ReadMark ==
  /\ pc = "read"
  /\ \E m \in ToRead :
       /\ \A k \in ToRead : m <= k
       /\ \/ m \in has /\ next' = m + 1 /\ UNCHANGED <<pc, bad, lines, faults>>
          \/ /\ next' = m + 1 /\ bad' = TRUE /\ UNCHANGED <<pc, lines>>
             /\ IF m \in has THEN Fault ELSE UNCHANGED faults
          \/ EtcdFails("infra") /\ Fault /\ UNCHANGED <<bad, next>>
  /\ Looks /\ UNCHANGED <<direct, placed, probes>>

AllRead ==
  /\ pc = "read" /\ ToRead = {}
  /\ EtcdFails(IF bad THEN "fail" ELSE "pass")
  /\ Looks /\ UNCHANGED <<next, direct, bad, placed, probes, faults>>

-----------------------------------------------------------------------------
(* The driver: the workers *)

NoWorkloads(v) ==
  /\ Goto("done")
  /\ lines' = [i \in Items |-> IF i \in {"schedule", "cross", "reattach"} THEN v ELSE lines[i]]

\* Two Ready workers are needed, and the name of the test's own image.
CountWorkers ==
  /\ pc = "workers" /\ next' = 1 /\ bad' = FALSE
  /\ \/ ~full /\ Goto("done") /\ UNCHANGED lines
     \/ full /\ NoWorkloads("infra")
     \/ full /\ ready < 2 /\ NoWorkloads("fail")
     \/ full /\ ready >= 2 /\ Goto("create") /\ UNCHANGED lines
  /\ Looks /\ UNCHANGED <<direct, placed, probes, faults>>

KeepsOthers == UNCHANGED <<apart, has, reaches, claim, harms, lost, full, ready>>

Make(n) == pods' = [pods EXCEPT ![n].phase = "pending"]

\* A serve pod for each; a create that fails is noted, and the next is made.
CreateServe ==
  /\ pc = "create" /\ next <= ready
  /\ \/ Make(<<"serve", next>>) /\ UNCHANGED <<bad, faults>>
     \/ bad' = TRUE /\ Fault /\ (UNCHANGED pods \/ Make(<<"serve", next>>))
  /\ IF next < ready THEN next' = next + 1 /\ UNCHANGED pc ELSE next' = 1 /\ Goto("place")
  /\ KeepsOthers /\ UNCHANGED <<direct, placed, probes, lines>>

\* Each is waited for: it runs where it should; or it ended, or runs elsewhere,
\* or time is up, or the look at it failed.
SeePlaced ==
  LET p == pods[<<"serve", next>>] IN
  /\ pc = "place" /\ next <= ready /\ next' = next + 1
  /\ \/ /\ p.phase = "running" /\ p.node = next
        /\ placed' = placed \cup {next} /\ UNCHANGED <<bad, faults>>
     \/ /\ bad' = TRUE /\ UNCHANGED placed
        /\ IF p.phase = "running" /\ p.node = next THEN Fault ELSE UNCHANGED faults
  /\ Looks /\ UNCHANGED <<pc, direct, probes, lines>>

AllPlaced ==
  /\ pc = "place" /\ next > ready /\ Goto("agent")
  /\ Line("schedule", IF bad THEN "fail" ELSE "pass")
  /\ Looks /\ UNCHANGED <<next, direct, bad, placed, probes, faults>>

Others == placed \ {1}

CrossFails(v) == Goto("claim") /\ Line("cross", v)

CreateAgent ==
  /\ pc = "agent"
  /\ \/ Make(Agent) /\ Goto("probe") /\ UNCHANGED <<lines, faults>>
     \/ CrossFails("infra") /\ Fault /\ (UNCHANGED pods \/ Make(Agent))
     \/ CrossFails("fail") /\ UNCHANGED <<pods, faults>>
  /\ KeepsOthers /\ UNCHANGED <<next, direct, bad, placed, probes>>

\* It ran and its log is whole, save for a line that may be cut; or it did not
\* finish, or its log does not say that it did.
ReadProbes ==
  /\ pc = "probe"
  /\ \/ /\ pods[Agent].phase = "running"
        /\ \E untold \in { {} } \cup { {w} : w \in Others } :
             probes' = [w \in Ws |-> IF w \notin Others \ untold THEN "untold"
                                     ELSE IF w \in reaches THEN "open" ELSE "other"]
        /\ Goto("cross") /\ UNCHANGED lines
     \/ CrossFails("fail") /\ UNCHANGED probes
  /\ Looks /\ UNCHANGED <<next, direct, bad, placed, faults>>

NoneClosed == Others # {} /\ \A w \in Others : probes[w] # "other"

\* judge_cross: every serve pod on another worker answered, and there is one.
AllOpen == Others # {} /\ \A w \in Others : probes[w] = "open"

JudgeCross ==
  /\ pc = "cross" /\ CrossFails(IF AllOpen THEN "pass" ELSE "fail")
  /\ Looks /\ UNCHANGED <<next, direct, bad, placed, probes, faults>>

-----------------------------------------------------------------------------
(* The driver: the claim *)

ClaimFails(v) == Goto("done") /\ Line("reattach", v)

ClaimErrs ==
  \/ ClaimFails("fail") /\ UNCHANGED faults
  \/ ClaimFails("infra") /\ Fault

CreateClaim ==
  /\ pc = "claim"
  /\ \/ claim' = "empty" /\ Goto("writer") /\ UNCHANGED <<lines, faults>>
     \/ claim' \in {"none", "empty"} /\ ClaimErrs
  /\ UNCHANGED <<apart, has, pods, reaches, lost, harms, full, ready, next, direct, bad, placed,
                 probes>>

CreateUser(n, from, to) ==
  /\ pc = from
  /\ \/ Make(n) /\ Goto(to) /\ UNCHANGED <<lines, faults>>
     \/ ClaimErrs /\ (UNCHANGED pods \/ Make(n))
  /\ KeepsOthers /\ UNCHANGED <<next, direct, bad, placed, probes>>

OnItsNode(n) == pods[n].node = Pinned(n)

\* What its log says of the claim, and where it ran; then it is deleted. Nothing
\* said in time, or something else, fails.
ReadUser(n, from, want, to) ==
  /\ pc = from
  /\ \/ /\ pods[n].said = want /\ OnItsNode(n) /\ UNCHANGED faults
        /\ Goto(to) /\ (IF to = "done" THEN Line("reattach", "pass") ELSE UNCHANGED lines)
     \/ ~(pods[n].said = want /\ OnItsNode(n)) /\ ClaimFails("fail") /\ UNCHANGED faults
     \/ ClaimFails("infra") /\ Fault
  /\ pods' = [pods EXCEPT ![n].phase = "ended"]
  /\ KeepsOthers /\ UNCHANGED <<next, direct, bad, placed, probes>>

Driver ==
  \/ List \/ AskReady \/ AllAsked \/ WriteMark \/ ReadMark \/ AllRead
  \/ CountWorkers \/ CreateServe \/ SeePlaced \/ AllPlaced
  \/ CreateAgent \/ ReadProbes \/ JudgeCross
  \/ CreateClaim
  \/ CreateUser(Writer, "writer", "written") \/ ReadUser(Writer, "written", "written", "reader")
  \/ CreateUser(Reader, "reader", "found") \/ ReadUser(Reader, "found", "found", "done")

Next == Cluster \/ Driver

Spec == Init /\ [][Next]_vars

-----------------------------------------------------------------------------
(* Properties *)

\* Where replication passes, no master that was ready has a store of its own.
ReplicatedIsProof == lines["etcd"] = "pass" => direct \cap apart = {}

\* Where pods were placed and reached, the first worker reaches every other: a
\* worker whose probe is missing from the log is not passed over.
CrossIsProof ==
  lines["schedule"] = "pass" /\ lines["cross"] = "pass" => 2..ready \subseteq reaches

\* A claim that was reattached was written on one worker and found on another,
\* and nothing was lost on the way.
ReattachIsProof ==
  lines["reattach"] = "pass" =>
    ~lost /\ pods[Writer].node # pods[Reader].node
=============================================================================
