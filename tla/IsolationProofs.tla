-------------------------- MODULE IsolationProofs --------------------------
(***************************************************************************)
(* Theorems about the isolation scenario, for any members and any number   *)
(* of faults and harms: what its findings say of the network at any time,  *)
(* and what its verdicts therefore do.                                     *)
(***************************************************************************)
EXTENDS Isolation, TLAPS

\* A VM's name is no other source's, and the outside pod is no member.
NamesAreTold ==
  /\ "agent" \notin Vms /\ "driver" \notin Vms /\ "node" \notin Vms
  /\ Outside \notin Members

Control(p) == results["control"][p]

Isolated(p) == results["isolated"][p]

-----------------------------------------------------------------------------
(* The inductive invariant *)

\* Where the driver is, and what it has not done by then.
Stages ==
  /\ pc \in {"start", "up"} => ~policy /\ \A p \in Paths : Control(p) = "untold"
  /\ pc = "policy" => ~policy
  /\ pc = "wait" => policy
  /\ policy => pc \in {"wait", "agent", "vms", "driver", "node", "judge", "done"}
  /\ ~policy => closed = {} /\ \A p \in Paths : Isolated(p) = "untold"
  /\ policy \/ pc = "policy" => ~Broken
  /\ pc # "done" => \A l \in lines : l.test \notin {"inside", "border"}

\* The sources whose probes of the present pass are over.
Over ==
  { s \in Froms : \/ s = "agent" /\ pc \in {"vms", "driver", "node", "judge"}
                  \/ s \in Vms /\ pc \in {"driver", "node", "judge"}
                  \/ s = "driver" /\ pc \in {"node", "judge"}
                  \/ s = "node" /\ pc = "judge" }

\* Those of the first pass, and of the second.
FirstOver == { s \in Froms : policy \/ pc = "policy" \/ s \in Over }

SecondOver == { s \in Over : policy }

\* A path that answered still does, and one that then went silent was closed -
\* unless one ceased to answer, or a probe was lost.
SilenceHasAReason ==
  ~lossy =>
    \A p \in Paths :
      Control(p) = "reached" => /\ p \in answers
                                /\ Isolated(p) = "unanswered" => p \in closed

\* If no line was cut, a probe that is over is told, but for the node's, and those
\* of a VM that could not be logged in to.
ProbesAreTold ==
  ~cut =>
    \A p \in Paths :
      /\ Control(p) = "untold" /\ p.from \in FirstOver =>
           p.from = "node" \/ p.from \in Silent("control")
      /\ Isolated(p) = "untold" /\ p.from \in SecondOver =>
           p.from = "node" \/ (lossy /\ p.from \in Silent("isolated"))

\* Where nothing went wrong, a probe that is over is told, or none of the node's,
\* and one that is told found what there is.
ProbesAreRight ==
  faults = Faults /\ harms = Harms =>
    \A p \in Paths :
      /\ Control(p) # "untold" /\ p \in answers => Control(p) = "reached"
      /\ Isolated(p) # "untold" /\ p \in answers \ closed => Isolated(p) = "reached"
      /\ Control(p) = "untold" /\ p.from \in FirstOver =>
           p.from = "node" /\ \A q \in From({"node"}) : Control(q) = "untold"
      /\ Isolated(p) = "untold" /\ p.from \in SecondOver =>
           p.from = "node" /\ \A q \in From({"node"}) : Isolated(q) = "untold"

\* The node is asked last.
NodeIsLast ==
  pc # "done" =>
    \A q \in From({"node"}) : /\ "node" \notin FirstOver => Control(q) = "untold"
                              /\ "node" \notin SecondOver => Isolated(q) = "untold"

ReadyAreUp == ready \subseteq running

Evidence ==
  /\ Stages /\ ReadyAreUp
  /\ SilenceHasAReason /\ ProbesAreTold /\ ProbesAreRight /\ NodeIsLast

Verdicted == PassIsThePolicys /\ FailIsThePolicys /\ LeakIsTold /\ EveryPairIsTold

-----------------------------------------------------------------------------
(* What the steps do: all but the probes leave the findings as they are *)

Aside ==
  /\ UNCHANGED <<results, cut>>
  /\ lossy => lossy'
  /\ closed \subseteq closed'
  /\ pc \notin {"start", "up"} /\ ~lossy' => answers \subseteq answers'
  /\ faults' = faults \/ Fault
  /\ (harms' = harms /\ (pc \notin {"start", "up"} => answers' = answers)) \/ Harm
  /\ FirstOver' \subseteq FirstOver /\ SecondOver' \subseteq SecondOver
  /\ pc' # "done" => FirstOver' = FirstOver /\ SecondOver' = SecondOver

Probers(A) ==
  \/ A = {"agent"} /\ pc = "agent" /\ pc' = "vms"
  \/ A = Vms /\ pc = "vms" /\ pc' = "driver"
  \/ A = {"driver"} /\ pc = "driver" /\ pc' = "node"
  \/ A = {"node"} /\ pc = "node" /\ pc' = "judge"

\* The probes of sources A, of which those in L are lost, and those in U untold.
Probes(A, L, U) ==
  /\ Probers(A) /\ Record(From(A), L, U)
  /\ UNCHANGED <<running, answers, policy, closed, todo, late, lines, ready, missed>>
  /\ \/ L = {} /\ U = {} /\ UNCHANGED <<faults, harms, cut, lossy>>
     \/ U = {} /\ Fault /\ Loses /\ UNCHANGED <<harms, cut>>
     \/ L = {} /\ Harm /\ cut' = TRUE /\ UNCHANGED <<faults, lossy>>
     \/ /\ L = {} /\ Fault /\ Loses /\ UNCHANGED <<harms, cut>>
        /\ A = Vms /\ \E v \in Vms : U = From({v})

\* Or the node's agent fails.
NodeFails ==
  /\ pc = "node" /\ pc' = "judge"
  /\ UNCHANGED <<running, answers, policy, closed, todo, late, lines, ready, missed>>
  /\ UNCHANGED <<results, faults, harms, cut, lossy>>

Asks == NodeFails \/ \E A \in SUBSET Froms, L, U \in SUBSET Paths : Probes(A, L, U)

LEMMA ProbersAsk ==
  ASSUME ProbeFromAgent \/ ProbeFromVms \/ Inbound \/ NodeIn
  PROVE  Asks
<1> USE DEF Probing, Goto, Probes, Probers
<1>1. \A a, v : From({a}) \in SUBSET Paths /\ From(v) \in SUBSET Paths
  BY DEF From
<1>2. {"agent"} \in SUBSET Froms /\ Vms \in SUBSET Froms /\ {"driver"} \in SUBSET Froms
      /\ {"node"} \in SUBSET Froms /\ {} \in SUBSET Paths
  BY DEF Froms
<1>3. ASSUME NEW A \in SUBSET Froms, Probers(A),
             UNCHANGED <<running, answers, policy, closed, todo, late, lines, ready, missed>>,
             \/ AllTold(From(A)) \/ LineCut(From(A))
             \/ ProbeLost(From(A)) /\ UNCHANGED harms
      PROVE  Asks
  <2> HIDE DEF Probers
  <2>1. CASE AllTold(From(A))
    <3>1. Probes(A, {}, {})
      BY <1>3, <2>1 DEF AllTold
    <3> QED BY <3>1, <1>2 DEF Asks
  <2>2. CASE LineCut(From(A))
    <3>1. PICK p \in From(A) : Record(From(A), {}, {p})
      BY <2>2 DEF LineCut
    <3>2. Probes(A, {}, {p})
      BY <1>3, <2>2, <3>1 DEF LineCut
    <3>3. {p} \in SUBSET Paths
      BY <3>1 DEF From
    <3> QED BY <3>2, <3>3, <1>2 DEF Asks
  <2>3. CASE ProbeLost(From(A)) /\ UNCHANGED harms
    <3>1. PICK p \in From(A) \cap answers : Record(From(A), {p}, {})
      BY <2>3 DEF ProbeLost
    <3>2. Probes(A, {p}, {})
      BY <1>3, <2>3, <3>1 DEF ProbeLost
    <3>3. {p} \in SUBSET Paths
      BY <3>1 DEF From
    <3> QED BY <3>2, <3>3, <1>2 DEF Asks
  <2> QED BY <1>3, <2>1, <2>2, <2>3
<1>4. CASE ProbeFromAgent
  BY <1>2, <1>3, <1>4 DEF ProbeFromAgent
<1>5. CASE ProbeFromVms
  <2>1. CASE \/ AllTold(From(Vms)) \/ LineCut(From(Vms))
             \/ ProbeLost(From(Vms)) /\ UNCHANGED harms
    BY <1>2, <1>3, <1>5, <2>1 DEF ProbeFromVms
  <2>2. CASE /\ Fault /\ Loses /\ UNCHANGED <<cut, harms>>
             /\ \E v \in Vms : Record(From(Vms), {}, From({v}))
    <3>1. PICK v \in Vms : Record(From(Vms), {}, From({v}))
      BY <2>2
    <3>2. Probes(Vms, {}, From({v}))
      BY <1>5, <2>2, <3>1 DEF ProbeFromVms
    <3> QED BY <1>1, <1>2, <3>2 DEF Asks
  <2> QED BY <1>5, <2>1, <2>2 DEF ProbeFromVms
<1>6. CASE Inbound
  BY <1>2, <1>3, <1>6 DEF Inbound
<1>7. CASE NodeIn
  <2>1. CASE UNCHANGED <<results, faults, harms, cut, lossy>>
    BY <1>7, <2>1 DEF NodeIn, Asks, NodeFails
  <2>2. CASE \/ AllTold(From({"node"})) \/ LineCut(From({"node"}))
             \/ ProbeLost(From({"node"})) /\ UNCHANGED harms
    BY <1>2, <1>3, <1>7, <2>2 DEF NodeIn
  <2> QED BY <1>7, <2>1, <2>2 DEF NodeIn
<1> QED BY <1>4, <1>5, <1>6, <1>7

\* What a pass of probes does to the findings.
LEMMA ProbesFind ==
  ASSUME TypeOK, NEW A \in SUBSET Froms, NEW L \in SUBSET Paths, NEW U \in SUBSET Paths,
         Probes(A, L, U)
  PROVE  /\ results' \in [{"control", "isolated"} -> Results]
         /\ \A p \in Paths :
              LET found == IF p \in U THEN "untold" ELSE IF p \in L THEN "unanswered"
                           ELSE Finding(p) IN
              /\ Control(p)' = IF ~policy /\ p.from \in A THEN found ELSE Control(p)
              /\ Isolated(p)' = IF policy /\ p.from \in A THEN found ELSE Isolated(p)
<1> DEFINE new(old) == [p \in Paths |-> IF p \notin From(A) THEN old[p]
                                        ELSE IF p \in U THEN "untold"
                                        ELSE IF p \in L THEN "unanswered"
                                        ELSE Finding(p)]
<1>1. results' = [results EXCEPT ![Pass] = new(results[Pass])]
  BY DEF Probes, Record
<1>2. results \in [{"control", "isolated"} -> Results]
  BY DEF TypeOK
<1>3. Pass \in {"control", "isolated"} /\ (policy => Pass = "isolated")
      /\ (~policy => Pass = "control")
  BY DEF Pass
<1>4. new(results[Pass]) \in Results
  BY <1>2, <1>3 DEF Results, Finding
<1>5. \A p \in Paths : p \in From(A) <=> p.from \in A
  BY DEF From
<1>6. /\ results' \in [{"control", "isolated"} -> Results]
      /\ results'[Pass] = new(results[Pass])
      /\ \A q \in {"control", "isolated"} : q # Pass => results'[q] = results[q]
  <2> HIDE DEF new
  <2> QED BY <1>1, <1>2, <1>3, <1>4
<1>7. \A p \in Paths :
        LET found == IF p \in U THEN "untold" ELSE IF p \in L THEN "unanswered"
                     ELSE Finding(p) IN
        new(results[Pass])[p] = IF p.from \in A THEN found ELSE results[Pass][p]
  BY <1>5
<1> HIDE DEF new
<1>8. CASE policy
  BY <1>3, <1>6, <1>7, <1>8 DEF Control, Isolated
<1>9. CASE ~policy
  BY <1>3, <1>6, <1>7, <1>9 DEF Control, Isolated
<1> QED BY <1>6, <1>8, <1>9

Waiting == {"start", "up"}

LEMMA ClusterIsAside ==
  ASSUME TypeOK, Stages, Cluster
  PROVE  /\ Aside /\ UNCHANGED <<pc, policy, lines, ready, results>> /\ running \subseteq running'
         /\ closed' # closed => policy
<1>1. UNCHANGED <<driver, policy, faults>>
  BY DEF Cluster, ComeUp, Enforce, GoWrong, ClusterStep
<1>2. FirstOver' = FirstOver /\ SecondOver' = SecondOver
  BY <1>1 DEF driver, FirstOver, SecondOver, Over
<1>3. CASE ComeUp
  BY <1>1, <1>2, <1>3 DEF ComeUp, driver, Aside
<1>4. CASE Enforce
  BY <1>1, <1>2, <1>4 DEF Enforce, driver, Aside
<1>5. CASE GoWrong
  <2>1. Harm /\ UNCHANGED running
    BY <1>5 DEF GoWrong
  <2>2. CASE policy /\ \E p \in Inner : closed' = closed \cup {p} /\ UNCHANGED <<answers, lossy>>
    BY <1>1, <1>2, <2>1, <2>2 DEF driver, Aside
  <2>3. CASE \E p \in answers : answers' = answers \ {p} /\ lossy' = TRUE /\ UNCHANGED closed
    BY <1>1, <1>2, <2>1, <2>3 DEF driver, Aside
  <2>4. CASE /\ \E p \in Crossing \ answers : answers' = answers \cup {p}
             /\ UNCHANGED <<closed, lossy>>
    BY <1>1, <1>2, <2>1, <2>4 DEF driver, Aside
  <2> QED BY <1>5, <2>2, <2>3, <2>4 DEF GoWrong
<1> QED BY <1>3, <1>4, <1>5 DEF Cluster

Quiet == Start \/ TimeIsUp \/ Wait \/ AgentFails \/ JudgeControl \/ CreatePolicy \/ WaitEnforced

\* Where the driver goes on without a probe.
Goes ==
  \/ pc = "start" /\ pc' \in {"up", "done"} /\ UNCHANGED <<policy, answers>>
  \/ pc = "up" /\ pc' \in {"up", "done", "agent"} /\ UNCHANGED policy
  \/ pc \in {"agent", "vms"} /\ pc' = "done" /\ UNCHANGED <<policy, answers>>
  \/ pc = "judge" /\ pc' = "done" /\ UNCHANGED <<policy, answers>>
  \/ pc = "judge" /\ ~policy /\ ~Broken /\ pc' = "policy" /\ UNCHANGED <<policy, answers>>
  \/ pc = "policy" /\ policy' /\ pc' = "wait" /\ UNCHANGED answers
  \/ pc = "policy" /\ pc' = "done" /\ UNCHANGED answers
  \/ pc = "wait" /\ pc' = "agent" /\ UNCHANGED <<policy, answers>>

LEMMA GoesAside ==
  ASSUME Stages, Goes
  PROVE  /\ FirstOver' \subseteq FirstOver /\ SecondOver' \subseteq SecondOver
         /\ pc' # "done" => FirstOver' = FirstOver /\ SecondOver' = SecondOver
<1> USE DEF FirstOver, SecondOver, Over, Froms
<1>1. CASE pc = "judge" /\ pc' = "policy" /\ ~policy /\ UNCHANGED policy
  BY <1>1
<1>2. CASE pc = "policy" /\ pc' \in {"wait", "done"} /\ (policy' \/ pc' = "done") /\ ~policy
  BY <1>2
<1>3. CASE pc = "wait" /\ pc' = "agent" /\ policy /\ UNCHANGED policy
  BY <1>3
<1>4. CASE pc \in {"start", "up"} /\ pc' \in {"up", "done", "agent"} /\ UNCHANGED policy
  BY <1>4
<1>5. CASE pc' = "done" /\ UNCHANGED policy
  BY <1>5
<1> QED BY <1>1, <1>2, <1>3, <1>4, <1>5 DEF Goes, Stages

LEMMA QuietGoes ==
  ASSUME TypeOK, Quiet
  PROVE  /\ Goes /\ UNCHANGED <<results, cut, lossy, closed, harms, running>>
         /\ faults' = faults \/ Fault
         /\ ready' \in {ready, running, {}}
         /\ \A l \in lines' \ lines : l.test \notin {"inside", "border"}
<1> USE DEF Goto, Say, Is, Looks, cluster, Goes
<1>1. CASE Start
  BY <1>1 DEF Start
<1>2. CASE TimeIsUp
  BY <1>2 DEF TimeIsUp
<1>3. CASE Wait
  <2>1. ASSUME NEW m \in todo, NEW says, Told(m, says), pc = "up"
        PROVE  /\ Goes /\ UNCHANGED <<results, cut, lossy, closed, harms, running>>
               /\ ready' \in {ready, running, {}}
               /\ \A l \in lines' \ lines : l.test \notin {"inside", "border"}
    BY <2>1 DEF Told
  <2>2. ASSUME NEW m \in todo, Miss(m), pc = "up"
        PROVE  /\ Goes /\ UNCHANGED <<results, cut, lossy, closed, harms, running>>
               /\ ready' \in {ready, running, {}} /\ Fault
               /\ \A l \in lines' \ lines : l.test \notin {"inside", "border"}
    BY <2>2 DEF Miss
  <2>3. PICK m \in todo : SeeUp(m) \/ GiveUp(m) \/ Miss(m)
    BY <1>3 DEF Wait
  <2>4. pc = "up"
    BY <1>3 DEF Wait
  <2> QED BY <2>1, <2>2, <2>3, <2>4 DEF SeeUp, GiveUp
<1>4. CASE AgentFails
  BY <1>4 DEF AgentFails
<1>5. CASE JudgeControl
  BY <1>5 DEF JudgeControl
<1>6. CASE CreatePolicy
  BY <1>6 DEF CreatePolicy
<1>7. CASE WaitEnforced
  BY <1>7 DEF WaitEnforced
<1> QED BY <1>1, <1>2, <1>3, <1>4, <1>5, <1>6, <1>7 DEF Quiet

LEMMA QuietIsAside == ASSUME TypeOK, Stages, Quiet PROVE Aside
<1>1. FirstOver' \subseteq FirstOver /\ SecondOver' \subseteq SecondOver
      /\ (pc' # "done" => FirstOver' = FirstOver /\ SecondOver' = SecondOver)
  BY QuietGoes, GoesAside
<1>2. pc \notin {"start", "up"} => answers' = answers
  BY QuietGoes DEF Goes
<1> QED BY <1>1, <1>2, QuietGoes DEF Aside

LEMMA JudgeIsAside ==
  ASSUME JudgeIsolated
  PROVE  /\ Aside /\ pc = "judge" /\ policy /\ pc' = "done"
         /\ UNCHANGED <<policy, results, closed, answers, running, ready, harms, faults, lossy,
                        cut>>
<1>1. /\ pc = "judge" /\ policy /\ pc' = "done"
      /\ UNCHANGED <<policy, results, closed, answers, running, ready, harms, faults, lossy, cut>>
  BY DEF JudgeIsolated, Goto, Looks, cluster
<1>2. FirstOver' \subseteq FirstOver /\ SecondOver' \subseteq SecondOver
  BY <1>1 DEF FirstOver, SecondOver, Over
<1> QED BY <1>1, <1>2 DEF Aside

LEMMA StepsAre == Next => Cluster \/ Quiet \/ Asks \/ JudgeIsolated
  BY ProbersAsk DEF Next, Driver, Quiet

LEMMA StepsAreAside ==
  ASSUME TypeOK, Stages, Next PROVE Aside \/ Asks
  BY StepsAre, ClusterIsAside, QuietIsAside, JudgeIsAside

-----------------------------------------------------------------------------
(* Types *)

LEMMA LinesStayLines ==
  ASSUME TypeOK, NEW ls, lines' = lines \cup ls, ls \subseteq Line
  PROVE  lines' \subseteq Line
  BY DEF TypeOK

LEMMA WaysArePaths == \A p \in Paths : Way(p) \subseteq Paths
  BY DEF Way, Crossing

LEMMA NetworksArePaths == \A n \in Networks : n \subseteq Paths
  BY DEF Networks

LEMMA BudgetsStay ==
  ASSUME Faults \in Nat, Harms \in Nat, TypeOK, Stages, Next
  PROVE  faults' \in 0..Faults /\ harms' \in 0..Harms
<1>1. faults \in 0..Faults /\ harms \in 0..Harms
  BY DEF TypeOK
<1>2. (faults' = faults \/ Fault) /\ (harms' = harms \/ Harm)
  <2>1. CASE Aside
    BY <2>1 DEF Aside
  <2>2. CASE Asks
    BY <2>2 DEF Asks, NodeFails, Probes
  <2> QED BY <2>1, <2>2, StepsAreAside
<1>3. Fault => faults' \in 0..Faults
  BY <1>1 DEF Fault
<1>4. Harm => harms' \in 0..Harms
  BY <1>1 DEF Harm
<1> QED BY <1>1, <1>2, <1>3, <1>4

LEMMA VerdictsAreLines ==
  ASSUME NEW f \in Froms, NEW t \in Tos \cup {"*"}
  PROVE  Border(f, t) \in Line /\ Inside(f, t) \in Line
  BY DEF Border, Inside, Is, Line, Verdicts

LEMMA JudgedAreLines ==
  ASSUME TypeOK
  PROVE  /\ LinesFromInside \subseteq Line /\ LinesOfSilent \subseteq Line
         /\ LinesFromDriver \subseteq Line /\ LinesFromNode \subseteq Line
<1>1. \A p \in Paths : p.from \in Froms /\ p.to \in Tos
  BY DEF Paths, Path
<1>2. LinesFromInside \subseteq Line
  BY <1>1, VerdictsAreLines DEF LinesFromInside
<1>3. LinesOfSilent \subseteq Line
  <2>1. \A v \in Vms : Is("inside", "agent", v, "fail") \in Line
    BY DEF Is, Line, Verdicts, Froms, Tos, Members
  <2> QED BY <2>1 DEF LinesOfSilent, Silent
<1>4. LinesFromDriver \subseteq Line
  BY VerdictsAreLines DEF LinesFromDriver, Froms, Tos
<1>5. LinesFromNode \subseteq Line
  <2>1. Is("border", "node", "*", "skip") \in Line
    BY DEF Is, Line, Verdicts, Froms
  <2>2. \A m \in Members : Border("node", m) \in Line
    BY VerdictsAreLines DEF Froms, Tos
  <2> QED BY <2>1, <2>2 DEF LinesFromNode
<1> QED BY <1>2, <1>3, <1>4, <1>5

LEMMA NetTypesStay ==
  ASSUME Faults \in Nat, Harms \in Nat, TypeOK, Stages, Next
  PROVE  TypeOK'
<1>1. faults' \in 0..Faults /\ harms' \in 0..Harms
  BY BudgetsStay
<1>2. CASE Cluster
  <2>1. UNCHANGED driver /\ UNCHANGED policy
    BY <1>2 DEF Cluster, ComeUp, Enforce, GoWrong, ClusterStep
  <2>2. running' \subseteq Tos /\ answers' \subseteq Paths /\ closed' \subseteq Paths
    BY <1>2, WaysArePaths DEF Cluster, ComeUp, Enforce, GoWrong, TypeOK, Crossing, Inner
  <2>3. lossy' \in BOOLEAN
    BY <1>2, Zenon DEF Cluster, ComeUp, Enforce, GoWrong, TypeOK
  <2> QED BY <1>1, <2>1, <2>2, <2>3 DEF TypeOK, driver
<1>3. CASE Quiet
  <2>1. UNCHANGED <<results, cut, lossy, closed, running>> /\ Goes
    BY <1>3, QuietGoes
  <2>2. pc' \in {"start", "up", "agent", "vms", "driver", "node", "judge", "policy", "wait",
                 "done"}
    BY <2>1 DEF Goes
  <2>3. answers' \subseteq Paths
    <3>1. answers' = answers \/ answers' \in Networks
      BY <1>3 DEF Quiet, Start, TimeIsUp, Wait, SeeUp, GiveUp, Miss, Told, AgentFails,
                  JudgeControl, CreatePolicy, WaitEnforced, Looks, cluster
    <3> QED BY <3>1, NetworksArePaths DEF TypeOK
  <2>4. policy' \in BOOLEAN /\ late' \in BOOLEAN /\ missed' \in BOOLEAN
    BY <1>3, Zenon DEF Quiet, Start, TimeIsUp, Wait, SeeUp, GiveUp, Miss, Told, AgentFails,
                JudgeControl, CreatePolicy, WaitEnforced, Looks, cluster, TypeOK
  <2>5. ready' \subseteq Tos
    <3>1. ready' \in {ready, running, {}}
      BY <1>3, QuietGoes
    <3> QED BY <3>1 DEF TypeOK
  <2>6. todo' \subseteq Tos /\ lines' \subseteq Line
    <3> USE DEF Say, Is, Line, Verdicts
    <3>1. CASE Start \/ TimeIsUp \/ AgentFails \/ JudgeControl \/ CreatePolicy \/ WaitEnforced
      BY <3>1 DEF Start, TimeIsUp, AgentFails, JudgeControl, CreatePolicy, WaitEnforced, TypeOK
    <3>2. CASE Wait
      <4>1. PICK m \in todo : SeeUp(m) \/ GiveUp(m) \/ Miss(m)
        BY <3>2 DEF Wait
      <4>2. m \in Tos
        BY DEF TypeOK
      <4>3. ASSUME NEW says \in {"pass", "fail"}, Told(m, says)
            PROVE  todo' \subseteq Tos /\ lines' \subseteq Line
        BY <4>2, <4>3 DEF Told, TypeOK
      <4> QED BY <4>1, <4>3 DEF SeeUp, GiveUp, Miss, TypeOK
    <3> QED BY <1>3, <3>1, <3>2 DEF Quiet
  <2> QED BY <1>1, <2>1, <2>2, <2>3, <2>4, <2>5, <2>6 DEF TypeOK
<1>4. CASE Asks
  <2>1. /\ UNCHANGED <<running, answers, policy, closed, todo, late, lines, ready, missed>>
        /\ pc' \in {"vms", "driver", "node", "judge"}
    BY <1>4 DEF Asks, NodeFails, Probes, Probers
  <2>2. results' \in [{"control", "isolated"} -> Results]
    BY <1>4, ProbesFind DEF Asks, NodeFails, TypeOK
  <2>3. cut' \in BOOLEAN /\ lossy' \in BOOLEAN
    <3>1. cut' = cut \/ cut' = TRUE
      BY <1>4 DEF Asks, NodeFails, Probes
    <3>2. lossy' = lossy \/ lossy' = (lossy \/ policy)
      BY <1>4 DEF Asks, NodeFails, Probes, Loses
    <3>3. (lossy \/ policy) \in BOOLEAN
      BY Zenon
    <3> QED BY <3>1, <3>2, <3>3, Zenon DEF TypeOK
  <2> QED BY <1>1, <2>1, <2>2, <2>3 DEF TypeOK
<1>5. CASE JudgeIsolated
  <2>1. pc' = "done" /\ UNCHANGED <<policy, results, closed, answers, running, ready, lossy, cut>>
    BY <1>5, JudgeIsAside
  <2>2. UNCHANGED <<todo, late, missed>>
    BY <1>5 DEF JudgeIsolated
  <2>3. lines' \subseteq Line
    BY <1>5, JudgedAreLines DEF JudgeIsolated, Say, TypeOK
  <2> QED BY <1>1, <2>1, <2>2, <2>3 DEF TypeOK
<1> QED BY <1>2, <1>3, <1>4, <1>5, StepsAre

-----------------------------------------------------------------------------
(* The findings *)

LEMMA ReadyStayUp == ASSUME TypeOK, Stages, ReadyAreUp, Next PROVE ReadyAreUp'
<1>1. CASE Cluster
  BY <1>1, ClusterIsAside DEF ReadyAreUp
<1>2. CASE Quiet
  BY <1>2, QuietGoes DEF ReadyAreUp
<1>3. CASE Asks
  BY <1>3 DEF Asks, NodeFails, Probes, ReadyAreUp
<1>4. CASE JudgeIsolated
  BY <1>4, JudgeIsAside DEF ReadyAreUp
<1> QED BY <1>1, <1>2, <1>3, <1>4, StepsAre

\* Broken is a matter of the first pass.
LEMMA BrokenStays ==
  ASSUME \A p \in Paths : Control(p)' = Control(p)
  PROVE  Broken' = Broken
  BY DEF Broken, Silent, Control, Inner, From

LEMMA StagesStay == ASSUME NamesAreTold, TypeOK, Stages, Next PROVE Stages'
<1> USE DEF Stages
<1>1. CASE Cluster
  <2>1. /\ UNCHANGED <<pc, policy, lines, results>>
        /\ closed' # closed => policy
    BY <1>1, ClusterIsAside
  <2>2. Broken' = Broken
    BY <2>1, BrokenStays DEF Control
  <2>3. \A p \in Paths : Control(p)' = Control(p) /\ Isolated(p)' = Isolated(p)
    BY <2>1 DEF Control, Isolated
  <2> QED BY <2>1, <2>2, <2>3
<1>2. CASE Quiet
  <2>1. /\ Goes /\ UNCHANGED <<results, closed>>
        /\ \A l \in lines' \ lines : l.test \notin {"inside", "border"}
    BY <1>2, QuietGoes
  <2>2. Broken' = Broken
    BY <2>1, BrokenStays DEF Control
  <2>3. \A p \in Paths : Control(p)' = Control(p) /\ Isolated(p)' = Isolated(p)
    BY <2>1 DEF Control, Isolated
  <2>4. pc # "done"
    BY <2>1 DEF Goes
  <2>5. \A l \in lines' : l.test \notin {"inside", "border"}
    BY <2>1, <2>4
  <2> QED BY <2>1, <2>2, <2>3, <2>5 DEF Goes
<1>3. CASE Asks
  <2>1. /\ UNCHANGED <<policy, closed, lines>> /\ pc # "done"
        /\ pc' \in {"vms", "driver", "node", "judge"}
    BY <1>3 DEF Asks, NodeFails, Probes, Probers
  <2>2. /\ policy => \A p \in Paths : Control(p)' = Control(p)
        /\ ~policy => \A p \in Paths : Isolated(p)' = Isolated(p)
    <3>1. CASE NodeFails
      BY <3>1 DEF NodeFails, Control, Isolated
    <3>2. ASSUME NEW A \in SUBSET Froms, NEW L \in SUBSET Paths, NEW U \in SUBSET Paths,
                 Probes(A, L, U)
          PROVE  /\ policy => \A p \in Paths : Control(p)' = Control(p)
                 /\ ~policy => \A p \in Paths : Isolated(p)' = Isolated(p)
      BY <3>2, ProbesFind
    <3> QED BY <1>3, <3>1, <3>2 DEF Asks
  <2>3. policy => Broken' = Broken
    BY <2>2, BrokenStays
  <2> QED BY <2>1, <2>2, <2>3
<1>4. CASE JudgeIsolated
  <2>1. pc' = "done" /\ policy /\ UNCHANGED <<policy, results, closed>>
    BY <1>4, JudgeIsAside
  <2>2. Broken' = Broken
    BY <2>1, BrokenStays DEF Control
  <2> QED BY <2>1, <2>2
<1> QED BY <1>1, <1>2, <1>3, <1>4, StepsAre

LEMMA WrongIsCounted ==
  ASSUME Faults \in Nat, Harms \in Nat, TypeOK
  PROVE  /\ Fault => faults' < Faults
         /\ Harm => harms' < Harms
  BY DEF TypeOK, Fault, Harm

LEMMA LossesStay ==
  ASSUME NEW A, NEW L, NEW U, Probes(A, L, U)
  PROVE  /\ lossy => lossy'
         /\ cut => cut'
<1>1. Loses => (lossy => lossy')
  BY Zenon DEF Loses
<1>2. UNCHANGED lossy => (lossy => lossy')
  OBVIOUS
<1> QED BY <1>1, <1>2 DEF Probes

LEMMA NothingIsSeenEarly ==
  ASSUME Stages, pc \in {"start", "up"}
  PROVE  \A p \in Paths : Control(p) = "untold" /\ Isolated(p) = "untold"
  BY DEF Stages

LEMMA ReasonsStay ==
  ASSUME TypeOK, Stages, SilenceHasAReason, Next PROVE SilenceHasAReason'
<1>1. CASE Aside
  <2>1. \A p \in Paths : Control(p)' = Control(p) /\ Isolated(p)' = Isolated(p)
    BY <1>1 DEF Aside, Control, Isolated
  <2>2. CASE pc \in {"start", "up"}
    BY <2>1, <2>2, NothingIsSeenEarly DEF SilenceHasAReason
  <2>3. CASE pc \notin {"start", "up"}
    BY <1>1, <2>1, <2>3 DEF Aside, SilenceHasAReason
  <2> QED BY <2>2, <2>3
<1>2. CASE NodeFails
  BY <1>2 DEF NodeFails, SilenceHasAReason, Control, Isolated
<1>3. ASSUME NEW A \in SUBSET Froms, NEW L \in SUBSET Paths, NEW U \in SUBSET Paths,
             Probes(A, L, U), ~lossy', NEW p \in Paths, Control(p)' = "reached"
      PROVE  p \in answers' /\ (Isolated(p)' = "unanswered" => p \in closed')
  <2>1. UNCHANGED <<answers, policy, closed>> /\ ~lossy
    BY <1>3, LossesStay DEF Probes
  <2>2. CASE ~policy
    <3>1. Isolated(p)' = "untold"
      BY <1>3, <2>2, ProbesFind DEF Stages
    <3>2. Control(p) = "reached" \/ Finding(p) = "reached"
      BY <1>3, <2>2, ProbesFind
    <3> QED BY <2>1, <3>1, <3>2 DEF Finding, SilenceHasAReason
  <2>3. CASE policy
    <3>1. Control(p) = "reached"
      BY <1>3, <2>3, ProbesFind
    <3>2. ~Loses
      BY <1>3, <2>3 DEF Loses
    <3>3. p \notin L \/ p \in U
      BY <1>3, <3>2 DEF Probes, Record
    <3>4. Isolated(p)' = "unanswered" => Isolated(p) = "unanswered" \/ Finding(p) = "unanswered"
      BY <1>3, <2>3, <3>3, ProbesFind
    <3> QED BY <2>1, <3>1, <3>4 DEF Finding, SilenceHasAReason
  <2> QED BY <2>2, <2>3
<1> QED BY <1>1, <1>2, <1>3, StepsAreAside DEF Asks, SilenceHasAReason

\* How far the passes are after a step that asks.
LEMMA AskedIsOver ==
  ASSUME Stages, NamesAreTold,
         NEW A \in SUBSET Froms, pc' # "done",
         UNCHANGED policy, Probers(A)
  PROVE  /\ \A s \in FirstOver' : s \in FirstOver \/ (s \in A /\ ~policy)
         /\ \A s \in SecondOver' : s \in SecondOver \/ (s \in A /\ policy)
  BY DEF Probers, FirstOver, SecondOver, Over, Froms, NamesAreTold, Stages

LEMMA NodeIsOver ==
  ASSUME Stages, NodeFails
  PROVE  /\ \A s \in FirstOver' : s \in FirstOver \/ (s = "node" /\ ~policy)
         /\ \A s \in SecondOver' : s \in SecondOver \/ (s = "node" /\ policy)
  BY DEF NodeFails, FirstOver, SecondOver, Over, Froms, Stages

\* The silent stay silent while others are asked.
LEMMA SilentStay ==
  ASSUME TypeOK, NEW A \in SUBSET Froms, NEW L \in SUBSET Paths, NEW U \in SUBSET Paths,
         Probes(A, L, U), NEW s \in Froms
  PROVE  /\ s \in Silent("control") /\ (s \notin A \/ policy) => s \in Silent("control")'
         /\ s \in Silent("isolated") /\ (s \notin A \/ ~policy) => s \in Silent("isolated")'
<1>1. \A p \in From({s}) : p \in Paths /\ p.from = s
  BY DEF From
<1>2. \A p \in From({s}) :
        /\ (s \notin A \/ policy) => results'["control"][p] = results["control"][p]
        /\ (s \notin A \/ ~policy) => results'["isolated"][p] = results["isolated"][p]
  BY <1>1, ProbesFind DEF Control, Isolated
<1> QED BY <1>2 DEF Silent, From

LEMMA ProbesStayTold ==
  ASSUME NamesAreTold, TypeOK, Stages, ProbesAreTold, Next PROVE ProbesAreTold'
<1>1. CASE Aside
  <2>1. \A p \in Paths : Control(p)' = Control(p) /\ Isolated(p)' = Isolated(p)
    BY <1>1 DEF Aside, Control, Isolated
  <2>2. Silent("control")' = Silent("control") /\ Silent("isolated")' = Silent("isolated")
    BY <1>1 DEF Aside, Silent, From
  <2>3. FirstOver' \subseteq FirstOver /\ SecondOver' \subseteq SecondOver /\ cut' = cut
        /\ (lossy => lossy')
    BY <1>1 DEF Aside
  <2> QED BY <2>1, <2>2, <2>3 DEF ProbesAreTold
<1>2. CASE NodeFails
  <2>1. \A p \in Paths : Control(p)' = Control(p) /\ Isolated(p)' = Isolated(p)
    BY <1>2 DEF NodeFails, Control, Isolated
  <2>2. Silent("control")' = Silent("control") /\ Silent("isolated")' = Silent("isolated")
    BY <1>2 DEF NodeFails, Silent, From
  <2>3. cut' = cut /\ lossy' = lossy
    BY <1>2 DEF NodeFails
  <2> QED BY <1>2, <2>1, <2>2, <2>3, NodeIsOver DEF ProbesAreTold
<1>3. ASSUME NEW A \in SUBSET Froms, NEW L \in SUBSET Paths, NEW U \in SUBSET Paths,
             Probes(A, L, U), ~cut', NEW p \in Paths
      PROVE  /\ Control(p)' = "untold" /\ p.from \in FirstOver' =>
                  p.from = "node" \/ p.from \in Silent("control")'
             /\ Isolated(p)' = "untold" /\ p.from \in SecondOver' =>
                  p.from = "node" \/ (lossy' /\ p.from \in Silent("isolated")')
  <2>0. p.from \in Froms
    BY DEF Paths, Path
  <2>1. ~cut /\ (lossy => lossy') /\ UNCHANGED policy
    BY <1>3, LossesStay DEF Probes
  <2>2. pc' # "done" /\ Probers(A)
    BY <1>3 DEF Probes, Probers
  <2>3. \/ U = {}
        \/ /\ A = Vms /\ (policy => lossy')
           /\ \E v \in Vms : U = From({v})
    BY <1>3 DEF Probes, Loses
  <2>4. ASSUME p.from \in A, p \in U
        PROVE  /\ ~policy => p.from \in Silent("control")'
               /\ policy => lossy' /\ p.from \in Silent("isolated")'
    <3>1. PICK v \in Vms : U = From({v})
      BY <2>3, <2>4
    <3>2. p.from = v /\ v \in A /\ (policy => lossy')
      BY <2>3, <2>4, <3>1 DEF From
    <3>3. \A q \in From({v}) : q \in Paths /\ q.from \in A /\ q \in U
      BY <3>1, <3>2 DEF From
    <3>4. \A q \in From({v}) : /\ ~policy => results'["control"][q] = "untold"
                               /\ policy => results'["isolated"][q] = "untold"
      BY <1>3, <3>3, ProbesFind DEF Control, Isolated
    <3> QED BY <3>2, <3>4 DEF Silent, From
  <2>5. ASSUME p.from \in A, p \notin U
        PROVE  /\ ~policy => Control(p)' # "untold"
               /\ policy => Isolated(p)' # "untold"
    BY <1>3, <2>5, ProbesFind DEF Finding
  <2>6. ASSUME Control(p)' = "untold", p.from \in FirstOver'
        PROVE  p.from = "node" \/ p.from \in Silent("control")'
    <3>1. CASE p.from \in A /\ ~policy
      BY <2>4, <2>5, <2>6, <3>1
    <3>2. CASE ~(p.from \in A /\ ~policy)
      <4>1. p.from \in FirstOver
        BY <2>1, <2>2, <2>6, <3>2, AskedIsOver
      <4>2. Control(p) = "untold"
        BY <1>3, <2>6, <3>2, ProbesFind
      <4> QED BY <1>3, <2>0, <2>1, <3>2, <4>1, <4>2, SilentStay DEF ProbesAreTold
    <3> QED BY <3>1, <3>2
  <2>7. ASSUME Isolated(p)' = "untold", p.from \in SecondOver'
        PROVE  p.from = "node" \/ (lossy' /\ p.from \in Silent("isolated")')
    <3>1. CASE p.from \in A /\ policy
      BY <2>4, <2>5, <2>7, <3>1
    <3>2. CASE ~(p.from \in A /\ policy)
      <4>1. p.from \in SecondOver
        BY <2>1, <2>2, <2>7, <3>2, AskedIsOver
      <4>2. Isolated(p) = "untold"
        BY <1>3, <2>7, <3>2, ProbesFind
      <4> QED BY <1>3, <2>0, <2>1, <3>2, <4>1, <4>2, SilentStay DEF ProbesAreTold
    <3> QED BY <3>1, <3>2
  <2> QED BY <2>6, <2>7
<1> QED BY <1>1, <1>2, <1>3, StepsAreAside DEF Asks, ProbesAreTold

LEMMA StepsAreBeforeTheEnd == ASSUME TypeOK, Next PROVE pc # "done"
<1>1. CASE Cluster
  BY <1>1 DEF Cluster, ComeUp, Enforce, GoWrong, ClusterStep
<1>2. CASE Quiet
  BY <1>2, QuietGoes DEF Goes
<1>3. CASE Asks
  BY <1>3 DEF Asks, NodeFails, Probes, Probers
<1>4. CASE JudgeIsolated
  BY <1>4, JudgeIsAside
<1> QED BY <1>1, <1>2, <1>3, <1>4, StepsAre

LEMMA NodeStaysLast ==
  ASSUME NamesAreTold, TypeOK, Stages, NodeIsLast, Next PROVE NodeIsLast'
<1>0. pc # "done"
  BY StepsAreBeforeTheEnd
<1>1. CASE Aside
  BY <1>0, <1>1 DEF Aside, NodeIsLast, Control, Isolated, From
<1>2. ASSUME pc = "node", pc' = "judge", UNCHANGED policy PROVE NodeIsLast'
  <2>1. "node" \in Froms /\ "node" \in FirstOver' /\ (policy => "node" \in SecondOver')
    BY <1>2 DEF Froms, FirstOver, SecondOver, Over
  <2>2. ~policy => \A q \in From({"node"}) : Isolated(q)' = "untold"
    BY <1>2, StagesStay DEF Stages, From
  <2> QED BY <2>1, <2>2 DEF NodeIsLast, From
<1>3. ASSUME NEW A \in SUBSET Froms, NEW L \in SUBSET Paths, NEW U \in SUBSET Paths,
             Probes(A, L, U), pc # "node"
      PROVE  NodeIsLast'
  <2>1. "node" \notin A
    BY <1>3 DEF Probes, Probers, NamesAreTold
  <2>2. \A q \in From({"node"}) : q \in Paths /\ q.from = "node"
    BY DEF From
  <2>3. \A q \in From({"node"}) : Control(q)' = Control(q) /\ Isolated(q)' = Isolated(q)
    BY <1>3, <2>1, <2>2, ProbesFind
  <2>4. "node" \in FirstOver => "node" \in FirstOver'
    BY <1>3 DEF Probes, Probers, FirstOver, Over
  <2>5. "node" \notin SecondOver
    BY <1>3 DEF Probes, Probers, SecondOver, Over, NamesAreTold
  <2> QED BY <1>0, <2>3, <2>4, <2>5 DEF NodeIsLast, From
<1> QED BY <1>1, <1>2, <1>3, StepsAreAside DEF Asks, NodeFails, Probes, Probers

LEMMA ProbesStayRight ==
  ASSUME Faults \in Nat, Harms \in Nat, NamesAreTold, TypeOK, Stages, NodeIsLast,
         ProbesAreRight, Next
  PROVE  ProbesAreRight'
<1> SUFFICES ASSUME faults' = Faults, harms' = Harms, NEW p \in Paths
             PROVE  /\ Control(p)' # "untold" /\ p \in answers' => Control(p)' = "reached"
                    /\ Isolated(p)' # "untold" /\ p \in answers' \ closed'
                         => Isolated(p)' = "reached"
                    /\ Control(p)' = "untold" /\ p.from \in FirstOver' =>
                         p.from = "node" /\ \A q \in From({"node"}) : Control(q)' = "untold"
                    /\ Isolated(p)' = "untold" /\ p.from \in SecondOver' =>
                         p.from = "node" /\ \A q \in From({"node"}) : Isolated(q)' = "untold"
  BY DEF ProbesAreRight, From
<1>0. ~Fault /\ ~Harm
  BY WrongIsCounted
<1>1. CASE Aside
  <2>1. \A q \in Paths : Control(q)' = Control(q) /\ Isolated(q)' = Isolated(q)
    BY <1>1 DEF Aside, Control, Isolated
  <2>2. faults = Faults /\ harms = Harms /\ (pc \notin {"start", "up"} => answers' = answers)
        /\ closed \subseteq closed'
    BY <1>0, <1>1 DEF Aside
  <2>3. FirstOver' \subseteq FirstOver /\ SecondOver' \subseteq SecondOver
    BY <1>1 DEF Aside
  <2>4. \A q \in From({"node"}) : q \in Paths
    BY DEF From
  <2> QED BY <2>1, <2>2, <2>3, <2>4, NothingIsSeenEarly DEF ProbesAreRight
<1>2. CASE NodeFails
  <2>1. \A q \in Paths : Control(q)' = Control(q) /\ Isolated(q)' = Isolated(q)
    BY <1>2 DEF NodeFails, Control, Isolated
  <2>2. faults = Faults /\ harms = Harms /\ answers' = answers /\ closed = closed' /\ pc = "node"
    BY <1>2 DEF NodeFails
  <2>3. \A q \in From({"node"}) : q \in Paths
    BY DEF From
  <2>4. p.from \in FirstOver' /\ p.from \notin FirstOver =>
          p.from = "node" /\ \A q \in From({"node"}) : Control(q)' = "untold"
    BY <1>2, <2>1, <2>2, <2>3, NodeIsOver DEF NodeIsLast
  <2>5. p.from \in SecondOver' /\ p.from \notin SecondOver =>
          p.from = "node" /\ \A q \in From({"node"}) : Isolated(q)' = "untold"
    BY <1>2, <2>1, <2>2, <2>3, NodeIsOver DEF NodeIsLast
  <2> QED BY <2>1, <2>2, <2>3, <2>4, <2>5 DEF ProbesAreRight
<1>3. ASSUME NEW A \in SUBSET Froms, NEW L \in SUBSET Paths, NEW U \in SUBSET Paths,
             Probes(A, L, U)
      PROVE  /\ Control(p)' # "untold" /\ p \in answers' => Control(p)' = "reached"
             /\ Isolated(p)' # "untold" /\ p \in answers' \ closed'
                  => Isolated(p)' = "reached"
             /\ Control(p)' = "untold" /\ p.from \in FirstOver' =>
                  p.from = "node" /\ \A q \in From({"node"}) : Control(q)' = "untold"
             /\ Isolated(p)' = "untold" /\ p.from \in SecondOver' =>
                  p.from = "node" /\ \A q \in From({"node"}) : Isolated(q)' = "untold"
  <2>1. L = {} /\ U = {} /\ UNCHANGED <<faults, harms>>
    BY <1>0, <1>3 DEF Probes
  <2>2. UNCHANGED <<answers, policy, closed>> /\ pc' # "done" /\ Probers(A)
    BY <1>3 DEF Probes, Probers
  <2>3. \A q \in Paths :
          /\ Control(q)' = IF ~policy /\ q.from \in A THEN Finding(q) ELSE Control(q)
          /\ Isolated(q)' = IF policy /\ q.from \in A THEN Finding(q) ELSE Isolated(q)
    BY <1>3, <2>1, ProbesFind
  <2>4. ~policy => closed = {}
    BY DEF Stages
  <2>5. \A q \in From({"node"}) : q \in Paths /\ q.from = "node"
    BY DEF From
  <2>6. Control(p)' = "untold" /\ p.from \in FirstOver' =>
          p.from = "node" /\ \A q \in From({"node"}) : Control(q)' = "untold"
    <3> SUFFICES ASSUME Control(p)' = "untold", p.from \in FirstOver'
                 PROVE  p.from = "node" /\ \A q \in From({"node"}) : Control(q)' = "untold"
      OBVIOUS
    <3>1. ~(~policy /\ p.from \in A) /\ Control(p) = "untold"
      BY <2>3 DEF Finding
    <3>2. p.from \in FirstOver
      BY <2>2, <3>1, AskedIsOver
    <3>3. p.from = "node" /\ \A q \in From({"node"}) : Control(q) = "untold"
      BY <2>1, <3>1, <3>2 DEF ProbesAreRight
    <3> QED BY <2>3, <2>5, <3>1, <3>3
  <2>7. Isolated(p)' = "untold" /\ p.from \in SecondOver' =>
          p.from = "node" /\ \A q \in From({"node"}) : Isolated(q)' = "untold"
    <3> SUFFICES ASSUME Isolated(p)' = "untold", p.from \in SecondOver'
                 PROVE  p.from = "node" /\ \A q \in From({"node"}) : Isolated(q)' = "untold"
      OBVIOUS
    <3>1. ~(policy /\ p.from \in A) /\ Isolated(p) = "untold"
      BY <2>3 DEF Finding
    <3>2. p.from \in SecondOver
      BY <2>2, <3>1, AskedIsOver
    <3>3. p.from = "node" /\ \A q \in From({"node"}) : Isolated(q) = "untold"
      BY <2>1, <3>1, <3>2 DEF ProbesAreRight
    <3> QED BY <2>3, <2>5, <3>1, <3>3
  <2>8. Control(p)' # "untold" /\ p \in answers' => Control(p)' = "reached"
    BY <2>1, <2>2, <2>3, <2>4 DEF Finding, ProbesAreRight
  <2>9. Isolated(p)' # "untold" /\ p \in answers' \ closed' => Isolated(p)' = "reached"
    BY <2>1, <2>2, <2>3 DEF Finding, ProbesAreRight
  <2> QED BY <2>6, <2>7, <2>8, <2>9
<1> QED BY <1>1, <1>2, <1>3, StepsAreAside DEF Asks

-----------------------------------------------------------------------------
(* The verdicts *)

Findings == {"untold", "reached", "unanswered"}

LEMMA FindingsAre ==
  ASSUME TypeOK
  PROVE  \A p \in Paths : Control(p) \in Findings /\ Isolated(p) \in Findings
  BY DEF TypeOK, Results, Control, Isolated, Findings

LEMMA AllIsOver ==
  ASSUME pc = "judge", policy
  PROVE  \A p \in Paths : p.from \in FirstOver /\ p.from \in SecondOver
<1>1. \A p \in Paths : p.from \in Froms
  BY DEF Paths, Path
<1> QED BY <1>1 DEF FirstOver, SecondOver, Over, Froms

NewLines == LinesFromInside \cup LinesOfSilent \cup LinesFromDriver \cup LinesFromNode

LEMMA LineOfABorder ==
  ASSUME NEW f, NEW t
  PROVE  /\ Border(f, t).test = "border" /\ Border(f, t).from = f /\ Border(f, t).to = t
         /\ Border(f, t).says = IF Judged(ToldOf(f, t)) = {} THEN "skip"
                                ELSE IF Leaks(Judged(ToldOf(f, t))) THEN "fail" ELSE "pass"
         /\ Inside(f, t).test = "inside" /\ Inside(f, t).from = f /\ Inside(f, t).to = t
         /\ Inside(f, t).says = IF \A p \in ToldOf(f, t) : Reached(p) THEN "pass" ELSE "fail"
  BY DEF Border, Inside, Is

LEMMA LineOfIs ==
  ASSUME NEW a, NEW f, NEW t, NEW s
  PROVE  Is(a, f, t, s).test = a /\ Is(a, f, t, s).from = f /\ Is(a, f, t, s).to = t
         /\ Is(a, f, t, s).says = s
  BY DEF Is

\* Which lines the judgement makes.
LEMMA NewLinesAre ==
  ASSUME NEW l \in NewLines
  PROVE  \/ /\ l.test = "border"
            /\ l = Border(l.from, l.to) \/ l.says = "skip"
         \/ /\ l.test = "inside"
            /\ \/ \E q \in Paths : /\ q.from \notin {"driver", "node"} /\ q.to # Outside
                                   /\ l = Inside(q.from, q.to)
               \/ \E v \in Silent("isolated") : l = Is("inside", "agent", v, "fail")
<1>1. CASE l \in LinesFromInside
  <2>1. PICK q \in Paths : /\ q.from \notin {"driver", "node"}
                           /\ l = IF q.to = Outside THEN Border(q.from, q.to)
                                  ELSE Inside(q.from, q.to)
    BY <1>1 DEF LinesFromInside
  <2> QED BY <2>1, LineOfABorder
<1>2. CASE l \in LinesOfSilent
  BY <1>2, LineOfIs DEF LinesOfSilent
<1>3. CASE l \in LinesFromDriver
  BY <1>3, LineOfABorder DEF LinesFromDriver
<1>4. CASE l \in LinesFromNode
  <2>1. l = Is("border", "node", "*", "skip") \/ \E m \in Members : l = Border("node", m)
    BY <1>4 DEF LinesFromNode
  <2> QED BY <2>1, LineOfABorder, LineOfIs
<1> QED BY <1>1, <1>2, <1>3, <1>4 DEF NewLines

LEMMA JudgeSays ==
  ASSUME TypeOK, Stages, JudgeIsolated
  PROVE  /\ lines' = lines \cup NewLines
         /\ \A l \in lines : l.test \notin {"inside", "border"}
<1>1. pc # "done"
  BY JudgeIsAside
<1> QED BY <1>1 DEF JudgeIsolated, Say, NewLines, Stages

LEMMA JudgedPassIsThePolicys ==
  ASSUME NamesAreTold, TypeOK, Stages, SilenceHasAReason, JudgeIsolated
  PROVE  PassIsThePolicys'
<1> SUFFICES ASSUME ~lossy, NEW l \in lines', l.test = "border", l.says = "pass"
             PROVE  \E p \in answers \cap closed : p.from = l.from /\ p.to = l.to
  BY JudgeIsAside DEF PassIsThePolicys
<1>1. l \in NewLines
  BY JudgeSays
<1>2. l = Border(l.from, l.to)
  BY <1>1, NewLinesAre
<1>3. Judged(ToldOf(l.from, l.to)) # {} /\ ~Leaks(Judged(ToldOf(l.from, l.to)))
  BY <1>2, LineOfABorder
<1>4. PICK p : p \in Judged(ToldOf(l.from, l.to))
  BY <1>3
<1>5. /\ p \in Paths /\ p.from = l.from /\ p.to = l.to /\ Isolated(p) # "untold"
      /\ Control(p) = "reached" /\ Isolated(p) # "reached"
  BY <1>3, <1>4 DEF Judged, ToldOf, Meaningful, Leaks, Reached, Control, Isolated
<1>6. Isolated(p) = "unanswered"
  BY <1>5, FindingsAre DEF Findings
<1> QED BY <1>5, <1>6 DEF SilenceHasAReason

\* A VM has a path out, so one that is silent was asked in vain.
LEMMA VmsAskOutside ==
  ASSUME NamesAreTold, NEW v \in Vms
  PROVE  \E p \in Paths : p.from = v
<1> DEFINE w == [ from |-> v, to |-> Outside, proto |-> "tcp" ]
<1>1. w \in Path
  BY DEF Path, Froms, Tos
<1>2. w.from # w.to /\ w.from \notin {"driver", "node"} /\ w.proto = "tcp" /\ w.from = v
  BY DEF NamesAreTold, Members
<1>3. w \in Paths
  BY <1>1, <1>2 DEF Paths
<1> QED BY <1>2, <1>3

LEMMA JudgedFailIsThePolicys ==
  ASSUME NamesAreTold, TypeOK, Stages, SilenceHasAReason, ProbesAreTold, JudgeIsolated
  PROVE  FailIsThePolicys'
<1> SUFFICES ASSUME ~lossy, ~cut, NEW l \in lines', l.test = "inside", l.says = "fail"
             PROVE  \E p \in Inner \cap closed : p.from = l.from /\ p.to = l.to
  BY JudgeIsAside DEF FailIsThePolicys
<1>0. pc = "judge" /\ policy /\ ~Broken
  BY JudgeIsAside DEF Stages
<1>1. l \in NewLines
  BY JudgeSays
<1>2. CASE \E q \in Paths : /\ q.from \notin {"driver", "node"} /\ q.to # Outside
                            /\ l = Inside(q.from, q.to)
  <2>1. PICK q \in Paths : /\ q.from \notin {"driver", "node"} /\ q.to # Outside
                           /\ l = Inside(q.from, q.to)
    BY <1>2
  <2>2. PICK p \in ToldOf(q.from, q.to) : ~Reached(p)
    BY <2>1, LineOfABorder
  <2>3. /\ p \in Paths /\ p.from = q.from /\ p.to = q.to
        /\ Isolated(p) # "untold" /\ Isolated(p) # "reached"
    BY <2>2 DEF ToldOf, Reached, Isolated
  <2>4. p.to \in Members
    BY <2>1, <2>3 DEF Paths, Path, Tos
  <2>5. p \in Inner
    BY <2>1, <2>3, <2>4 DEF Inner
  <2>6. Control(p) # "unanswered"
    BY <1>0, <2>5 DEF Broken, Control
  <2>7. Control(p) # "untold"
    BY <1>0, <2>1, <2>3, AllIsOver DEF ProbesAreTold, Broken
  <2>8. Control(p) = "reached" /\ Isolated(p) = "unanswered"
    BY <2>3, <2>6, <2>7, FindingsAre DEF Findings
  <2>9. p \in closed
    BY <2>3, <2>8 DEF SilenceHasAReason
  <2> QED BY <2>1, <2>3, <2>5, <2>9, LineOfABorder
<1>3. CASE \E v \in Silent("isolated") : l = Is("inside", "agent", v, "fail")
  <2>1. PICK v \in Vms : v \in Silent("isolated")
    BY <1>3 DEF Silent
  <2>2. PICK p \in Paths : p.from = v
    BY VmsAskOutside
  <2>3. Isolated(p) = "untold"
    BY <2>1, <2>2 DEF Silent, From, Isolated
  <2>4. v # "node"
    BY DEF NamesAreTold
  <2> QED BY <1>0, <2>2, <2>3, <2>4, AllIsOver DEF ProbesAreTold
<1> QED BY <1>1, <1>2, <1>3, NewLinesAre

\* The line of a path across the border.
LEMMA BordersAreTold ==
  ASSUME NamesAreTold, NEW p \in Crossing
  PROVE  /\ p.from \notin {"driver", "node"} => p.to = Outside
         /\ p.from \in {"driver", "node"} => p.to \in Members
  BY DEF Crossing, Inner, Paths, Path, Tos

LEMMA OpenBordersFail ==
  ASSUME NEW p \in Paths, Control(p) = "reached", Isolated(p) = "reached"
  PROVE  Border(p.from, p.to) = Is("border", p.from, p.to, "fail")
<1>1. p \in Judged(ToldOf(p.from, p.to)) /\ Reached(p)
  BY DEF Judged, ToldOf, Meaningful, Reached, Control, Isolated
<1> QED BY <1>1 DEF Border, Leaks

LEMMA JudgedLeakIsTold ==
  ASSUME NamesAreTold, TypeOK, Stages, ProbesAreRight, JudgeIsolated
  PROVE  LeakIsTold'
<1> SUFFICES ASSUME faults = Faults, harms = Harms, NEW p \in Crossing, p \in answers,
                    p \notin closed
             PROVE  \/ Is("border", p.from, p.to, "fail") \in NewLines
                    \/ Is("border", p.from, "*", "skip") \in NewLines
  BY JudgeIsAside, JudgeSays DEF LeakIsTold
<1>0. p \in Paths /\ p.from \in FirstOver /\ p.from \in SecondOver
  BY JudgeIsAside, AllIsOver DEF Crossing
<1>1. CASE Control(p) = "untold" \/ Isolated(p) = "untold"
  <2>1. p.from = "node" /\ \/ \A q \in From({"node"}) : results["control"][q] = "untold"
                           \/ \A q \in From({"node"}) : results["isolated"][q] = "untold"
    BY <1>0, <1>1 DEF ProbesAreRight, Control, Isolated
  <2>2. LinesFromNode = {Is("border", "node", "*", "skip")}
    BY <2>1 DEF LinesFromNode
  <2> QED BY <2>1, <2>2 DEF NewLines
<1>2. CASE Control(p) # "untold" /\ Isolated(p) # "untold"
  <2>1. Control(p) = "reached" /\ Isolated(p) = "reached"
    BY <1>0, <1>2 DEF ProbesAreRight
  <2>2. Border(p.from, p.to) = Is("border", p.from, p.to, "fail")
    BY <1>0, <2>1, OpenBordersFail
  <2>3. CASE p.from \notin {"driver", "node"}
    <3>1. p.to = Outside
      BY <2>3, BordersAreTold
    <3>2. Border(p.from, p.to) \in LinesFromInside
      BY <1>0, <2>1, <2>3, <3>1 DEF LinesFromInside, Isolated
    <3> QED BY <2>2, <3>2 DEF NewLines
  <2>4. CASE p.from = "driver"
    BY <2>2, <2>4, BordersAreTold DEF LinesFromDriver, NewLines
  <2>5. CASE p.from = "node"
    <3>1. CASE LinesFromNode = {Is("border", "node", "*", "skip")}
      BY <2>5, <3>1 DEF NewLines
    <3>2. CASE LinesFromNode = { Border("node", m) : m \in Members }
      BY <2>2, <2>5, <3>2, BordersAreTold DEF NewLines
    <3> QED BY <3>1, <3>2 DEF LinesFromNode
  <2> QED BY <2>3, <2>4, <2>5
<1> QED BY <1>1, <1>2

LEMMA JudgedPairsAreTold ==
  ASSUME NamesAreTold, TypeOK, Stages, ProbesAreTold, JudgeIsolated
  PROVE  EveryPairIsTold'
<1> SUFFICES ASSUME ~cut, NEW p \in Paths
             PROVE  \/ \E l \in NewLines : l.test \in {"inside", "border"} /\ l.from = p.from
                                           /\ l.to \in {p.to, "*"}
                    \/ Is("inside", "agent", p.from, "fail") \in NewLines
  BY JudgeIsAside, JudgeSays DEF EveryPairIsTold
<1>0. p.from \in SecondOver /\ p.from \in Froms /\ p.to \in Tos
      /\ (p.to = Outside => p.from \notin {"driver", "node"})
  BY JudgeIsAside, AllIsOver DEF Paths, Path
<1>1. CASE p.from = "driver"
  <2>1. Border("driver", p.to) \in NewLines
    BY <1>0, <1>1 DEF LinesFromDriver, NewLines, Tos
  <2> QED BY <1>1, <2>1, LineOfABorder
<1>2. CASE p.from = "node"
  <2>1. CASE LinesFromNode = {Is("border", "node", "*", "skip")}
    <3>1. Is("border", "node", "*", "skip") \in NewLines
      BY <2>1 DEF NewLines
    <3> QED BY <1>2, <3>1, LineOfIs
  <2>2. CASE LinesFromNode = { Border("node", m) : m \in Members }
    <3>1. Border("node", p.to) \in NewLines
      BY <1>0, <1>2, <2>2 DEF NewLines, Tos
    <3> QED BY <1>2, <3>1, LineOfABorder
  <2> QED BY <2>1, <2>2 DEF LinesFromNode
<1>3. CASE p.from \notin {"driver", "node"} /\ Isolated(p) # "untold"
  <2>1. (IF p.to = Outside THEN Border(p.from, p.to) ELSE Inside(p.from, p.to)) \in NewLines
    BY <1>3 DEF LinesFromInside, NewLines, Isolated
  <2> QED BY <2>1, LineOfABorder
<1>4. CASE p.from \notin {"driver", "node"} /\ Isolated(p) = "untold"
  <2>1. p.from \in Silent("isolated")
    BY <1>0, <1>4 DEF ProbesAreTold
  <2>2. Is("inside", "agent", p.from, "fail") \in LinesOfSilent
    BY <2>1 DEF LinesOfSilent
  <2> QED BY <2>2 DEF NewLines
<1> QED BY <1>1, <1>2, <1>3, <1>4

LEMMA VerdictsStay ==
  ASSUME NamesAreTold, TypeOK, Evidence, Verdicted, Next
  PROVE  Verdicted'
<1>1. CASE JudgeIsolated
  BY <1>1, JudgedPassIsThePolicys, JudgedFailIsThePolicys, JudgedLeakIsTold,
     JudgedPairsAreTold DEF Evidence, Verdicted
<1>2. CASE ~JudgeIsolated
  <2>1. pc # "done"
    BY StepsAreBeforeTheEnd
  <2>2. \A l \in lines : l.test \notin {"inside", "border"}
    BY <2>1 DEF Evidence, Stages
  <2>3. \A l \in lines' \ lines : l.test \notin {"inside", "border"}
    <3>1. CASE Cluster
      BY <3>1, ClusterIsAside DEF Evidence
    <3>2. CASE Quiet
      BY <3>2, QuietGoes
    <3>3. CASE Asks
      BY <3>3 DEF Asks, NodeFails, Probes
    <3> QED BY <1>2, <3>1, <3>2, <3>3, StepsAre
  <2>4. \A l \in lines' : l.test \notin {"inside", "border"}
    BY <2>2, <2>3
  <2> QED BY <2>4 DEF Verdicted, PassIsThePolicys, FailIsThePolicys, LeakIsTold, EveryPairIsTold
<1> QED BY <1>1, <1>2

-----------------------------------------------------------------------------
(* Together *)

NetInv == TypeOK /\ Evidence /\ Verdicted

LEMMA NetInitially ==
  ASSUME Faults \in Nat, Harms \in Nat, Init
  PROVE  NetInv
<1>1. TypeOK
  <2>1. results \in [{"control", "isolated"} -> Results]
    BY DEF Init, Results
  <2>2. faults \in 0..Faults /\ harms \in 0..Harms
    BY DEF Init
  <2>3. /\ running \subseteq Tos /\ answers \subseteq Paths /\ closed \subseteq Paths
        /\ todo \subseteq Tos /\ lines \subseteq Line /\ ready \subseteq Tos /\ pc = "start"
    BY DEF Init
  <2>4. policy \in BOOLEAN /\ late \in BOOLEAN /\ missed \in BOOLEAN /\ lossy \in BOOLEAN
        /\ cut \in BOOLEAN
    BY DEF Init
  <2> QED BY <2>1, <2>2, <2>3, <2>4 DEF TypeOK
<1>2. \A p \in Paths : Control(p) = "untold" /\ Isolated(p) = "untold"
  BY DEF Init, Control, Isolated
<1>3. pc = "start" /\ policy = FALSE /\ closed = {} /\ lines = {} /\ ready = {}
  BY DEF Init
<1>4. Stages /\ ReadyAreUp
  BY <1>2, <1>3 DEF Stages, ReadyAreUp
<1>5. FirstOver = {} /\ SecondOver = {}
  BY <1>3 DEF FirstOver, SecondOver, Over
<1>6. SilenceHasAReason /\ ProbesAreTold /\ ProbesAreRight
  BY <1>2, <1>5 DEF SilenceHasAReason, ProbesAreTold, ProbesAreRight
<1>7. NodeIsLast
  BY <1>2 DEF NodeIsLast, From
<1>8. Verdicted
  BY <1>3 DEF Verdicted, PassIsThePolicys, FailIsThePolicys, LeakIsTold, EveryPairIsTold
<1> QED BY <1>1, <1>4, <1>6, <1>7, <1>8 DEF NetInv, Evidence

LEMMA NetSteps ==
  ASSUME Faults \in Nat, Harms \in Nat, NamesAreTold, NetInv, [Next]_vars
  PROVE  NetInv'
<1>1. CASE Next
  <2> USE DEF NetInv, Evidence
  <2>1. TypeOK'
    BY <1>1, NetTypesStay
  <2>2. Stages' /\ ReadyAreUp'
    BY <1>1, StagesStay, ReadyStayUp
  <2>3. SilenceHasAReason' /\ ProbesAreTold' /\ ProbesAreRight' /\ NodeIsLast'
    BY <1>1, ReasonsStay, ProbesStayTold, ProbesStayRight, NodeStaysLast
  <2>4. Verdicted'
    BY <1>1, VerdictsStay
  <2> QED BY <2>1, <2>2, <2>3, <2>4
<1>2. CASE UNCHANGED vars
  <2>1. UNCHANGED <<running, answers, policy, closed, harms, faults, pc, todo, late, results,
                    lines, ready, missed, cut, lossy>>
    BY <1>2 DEF vars, cluster, driver
  <2>2. \A p \in Paths : Control(p)' = Control(p) /\ Isolated(p)' = Isolated(p)
    BY <2>1 DEF Control, Isolated
  <2>3. TypeOK' /\ ReadyAreUp'
    BY <2>1 DEF NetInv, Evidence, TypeOK, ReadyAreUp
  <2>4. Broken' = Broken
    BY <2>2, BrokenStays
  <2>5. Stages'
    BY <2>1, <2>2, <2>4 DEF NetInv, Evidence, Stages
  <2>6. FirstOver' = FirstOver /\ SecondOver' = SecondOver
        /\ Silent("control")' = Silent("control") /\ Silent("isolated")' = Silent("isolated")
    BY <2>1 DEF FirstOver, SecondOver, Over, Silent, From
  <2>7. SilenceHasAReason' /\ ProbesAreTold'
    BY <2>1, <2>2, <2>6 DEF NetInv, Evidence, SilenceHasAReason, ProbesAreTold
  <2>8. ProbesAreRight' /\ NodeIsLast'
    BY <2>1, <2>2, <2>6 DEF NetInv, Evidence, ProbesAreRight, NodeIsLast, From
  <2>9. Verdicted'
    BY <2>1 DEF NetInv, Verdicted, PassIsThePolicys, FailIsThePolicys, LeakIsTold, EveryPairIsTold
  <2> QED BY <2>3, <2>5, <2>7, <2>8, <2>9 DEF NetInv, Evidence
<1> QED BY <1>1, <1>2

\* One that was up when its wait began is told down only after a look failed.
LEMMA UpStaysSeen ==
  ASSUME Faults \in Nat, NetInv, [Next]_vars
  PROVE  \A m \in ready : Is("up", "-", m, "fail") \in lines' \ lines => faults' < Faults
<1> SUFFICES ASSUME NEW m \in ready, Is("up", "-", m, "fail") \in lines',
                    Is("up", "-", m, "fail") \notin lines
             PROVE  faults' < Faults
  OBVIOUS
<1> DEFINE l == Is("up", "-", m, "fail")
<1>0. l.test = "up" /\ l.to = m /\ l.says = "fail"
  BY DEF Is
<1>1. CASE Wait
  <2>1. PICK n \in todo : SeeUp(n) \/ GiveUp(n) \/ Miss(n)
    BY <1>1 DEF Wait
  <2>2. CASE SeeUp(n)
    <3>1. l = Is("up", "-", n, "pass")
      BY <2>2 DEF SeeUp, Told, Say
    <3> QED BY <1>0, <3>1 DEF Is
  <2>3. CASE GiveUp(n)
    <3>1. l = Is("up", "-", n, "fail")
      BY <2>3 DEF GiveUp, Told, Say
    <3>2. m = n
      BY <1>0, <3>1 DEF Is
    <3>3. Fault
      BY <2>3, <3>2 DEF GiveUp, NetInv, Evidence, ReadyAreUp
    <3> QED BY <3>3 DEF Fault, NetInv, TypeOK
  <2>4. CASE Miss(n)
    BY <2>4 DEF Miss
  <2> QED BY <2>1, <2>2, <2>3, <2>4
<1>2. CASE Start \/ TimeIsUp \/ AgentFails \/ JudgeControl \/ CreatePolicy \/ WaitEnforced
  <2>1. l \in { Is("isolation", "-", "-", "fail"), Is("control", "-", "-", "fail"),
                Is("control", "-", "-", "pass"), Is("policy", "-", "-", "pass"),
                Is("policy", "-", "-", "fail") }
    BY <1>2 DEF Start, TimeIsUp, AgentFails, JudgeControl, CreatePolicy, WaitEnforced, Say
  <2> QED BY <1>0, <2>1 DEF Is
<1>3. CASE JudgeIsolated
  <2>1. l \in NewLines
    BY <1>3, JudgeSays DEF NetInv, Evidence
  <2> QED BY <1>0, <2>1, NewLinesAre
<1>4. CASE Cluster
  BY <1>4, ClusterIsAside DEF NetInv, Evidence
<1>5. CASE Asks
  BY <1>5 DEF Asks, NodeFails, Probes
<1>6. CASE UNCHANGED vars
  BY <1>6 DEF vars, driver
<1> QED BY <1>1, <1>2, <1>3, <1>4, <1>5, <1>6, StepsAre DEF Quiet

LEMMA NetHolds ==
  ASSUME Faults \in Nat, Harms \in Nat, NamesAreTold PROVE Spec => []NetInv
BY NetInitially, NetSteps, PTL DEF Spec

\* Every reachable state of a scenario is well typed.
THEOREM TypeCorrect ==
  ASSUME Faults \in Nat, Harms \in Nat, NamesAreTold PROVE Spec => []TypeOK
<1>1. NetInv => TypeOK
  BY DEF NetInv
<1> QED BY <1>1, NetHolds, PTL

\* A border that passes, and a pair within that fails, were closed by the policy,
\* however the policy comes into force while they are probed.
THEOREM PoliciesAreJudged ==
  ASSUME Faults \in Nat, Harms \in Nat, NamesAreTold
  PROVE  Spec => [](PassIsThePolicys /\ FailIsThePolicys)
<1>1. NetInv => PassIsThePolicys /\ FailIsThePolicys
  BY DEF NetInv, Verdicted
<1> QED BY <1>1, NetHolds, PTL

\* An open border is told where nothing went wrong, and every pair is if no line
\* of a log was lost.
THEOREM NothingGoesUntold ==
  ASSUME Faults \in Nat, Harms \in Nat, NamesAreTold
  PROVE  Spec => [](LeakIsTold /\ EveryPairIsTold)
<1>1. NetInv => LeakIsTold /\ EveryPairIsTold
  BY DEF NetInv, Verdicted
<1> QED BY <1>1, NetHolds, PTL

\* A member that was up when its wait began is told down only after a look at it
\* failed, whatever time the waits before it left.
THEOREM MembersUpAreSeen ==
  ASSUME Faults \in Nat, Harms \in Nat, NamesAreTold PROVE Spec => UpIsSeen
<1>1. NetInv /\ [Next]_vars =>
        [\A m \in ready : Is("up", "-", m, "fail") \in lines' \ lines => faults' < Faults]_vars
  BY UpStaysSeen
<1> QED BY <1>1, NetHolds, PTL DEF Spec, UpIsSeen
=============================================================================
