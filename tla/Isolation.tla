------------------------------ MODULE Isolation ------------------------------
(***************************************************************************)
(* The medium suite's isolation scenario (medium.rs `scenario`, with its   *)
(* agents, agent.rs). The members of a namespace - pods and VMs - and who  *)
(* is outside of it are probed without a policy, the policy is created,    *)
(* and they are probed again: what answered before must not answer across  *)
(* the namespace's border, and must within. The policy takes effect path   *)
(* by path, while probes are made; a probe or a line of a log may be lost. *)
(***************************************************************************)
EXTENDS Naturals

CONSTANTS
  Pods, Vms, \* the members
  Faults,    \* bound: looks, probes and logins that fail
  Harms      \* bound: what goes wrong in the network, or with a log

Members == Pods \cup Vms

\* The four outside targets are judged alike, and are one here.
Outside == "outside"

\* A probe is known by who made it, of what, and how; the agent's name differs
\* between the passes (same_from). An agent and the driver do not ping.
Froms == {"agent", "driver", "node"} \cup Vms
Tos == Members \cup {Outside}

Path == [ from : Froms, to : Tos, proto : {"tcp", "icmp"} ]

Paths ==
  { p \in Path : /\ p.from # p.to
                 /\ p.to = Outside => p.from \notin {"driver", "node"}
                 /\ p.proto = "icmp" => p.from \in Vms }

Inner == { p \in Paths : p.from \notin {"driver", "node"} /\ p.to \in Members }

Crossing == Paths \ Inner

\* What a policy closes at once: the way into a member, or out of one by a protocol.
Way(p) ==
  { q \in Crossing : q.to = p.to /\ q.proto = p.proto /\ (p.to = Outside => q.from = p.from) }

VARIABLES
  \* the cluster
  running,   \* the members, and the outside pod, that are up
  answers,   \* the paths that answer where no policy closes them
  policy,    \* storm-isolate is there
  closed,    \* the paths it closes by now
  faults, harms,
  \* the driver
  pc,
  todo,      \* what is still to be waited for
  late,      \* ready_timeout is over
  results,   \* what each pass says of each path
  lines,     \* the lines so far
  \* ghosts
  ready,     \* what was up when its wait began
  missed,    \* a look of the present wait failed
  lossy,     \* a path ceased to answer, or a probe was lost after the policy
  cut        \* a line of a log was lost

cluster == <<running, answers, policy, closed, harms>>

driver == <<pc, todo, late, results, lines, ready, missed, cut>>

vars == <<cluster, faults, driver, lossy>>

Verdicts == {"pass", "fail", "skip"}

Line == [ test : {"up", "control", "policy", "isolation", "inside", "border"},
          from : Froms \cup {"-"}, to : Tos \cup {"-", "*"}, says : Verdicts ]

Results == [Paths -> {"untold", "reached", "unanswered"}]

TypeOK ==
  /\ running \subseteq Tos /\ answers \subseteq Paths
  /\ policy \in BOOLEAN /\ closed \subseteq Paths
  /\ faults \in 0..Faults /\ harms \in 0..Harms
  /\ pc \in {"start", "up", "agent", "vms", "driver", "node", "judge", "policy", "wait", "done"}
  /\ todo \subseteq Tos /\ late \in BOOLEAN
  /\ results \in [{"control", "isolated"} -> Results]
  /\ lines \subseteq Line
  /\ ready \subseteq Tos
  /\ missed \in BOOLEAN /\ lossy \in BOOLEAN /\ cut \in BOOLEAN

Init ==
  /\ running = {} /\ answers = {} /\ policy = FALSE /\ closed = {}
  /\ faults = Faults /\ harms = Harms
  /\ pc = "start" /\ todo = Tos /\ late = FALSE
  /\ results = [pass \in {"control", "isolated"} |-> [p \in Paths |-> "untold"]]
  /\ lines = {} /\ ready = {} /\ missed = FALSE /\ lossy = FALSE /\ cut = FALSE

-----------------------------------------------------------------------------
(* The cluster *)

\* A pod network in which one path within is broken, or none is, and some ways
\* across the border are shut without a policy. Nobody looks at it before all are up.
Networks ==
  { Paths \ (broken \cup UNION barred) :
      broken \in { {} } \cup { {p} : p \in Inner }, barred \in SUBSET { Way(p) : p \in Crossing } }

ClusterStep == pc \notin {"start", "done"} /\ UNCHANGED <<driver, policy, faults>>

Harm == harms > 0 /\ harms' = harms - 1

ComeUp ==
  /\ ClusterStep /\ pc = "up"
  /\ \E m \in todo \ running : running' = running \cup {m}
  /\ UNCHANGED <<answers, closed, harms, lossy>>

\* The policy comes to close a way across the border.
Enforce ==
  /\ ClusterStep /\ policy /\ \E p \in (Crossing \cap answers) \ closed : closed' = closed \cup Way(p)
  /\ UNCHANGED <<running, answers, harms, lossy>>

\* It closes one within; or a path ceases, or begins, to answer of itself.
GoWrong ==
  /\ ClusterStep /\ pc # "up" /\ Harm /\ UNCHANGED running
  /\ \/ policy /\ \E p \in Inner : closed' = closed \cup {p} /\ UNCHANGED <<answers, lossy>>
     \/ \E p \in answers : answers' = answers \ {p} /\ lossy' = TRUE /\ UNCHANGED closed
     \/ \E p \in Crossing \ answers : answers' = answers \cup {p} /\ UNCHANGED <<closed, lossy>>

Cluster == ComeUp \/ Enforce \/ GoWrong

-----------------------------------------------------------------------------
(* The driver: the members come up *)

Fault == faults > 0 /\ faults' = faults - 1

Goto(p) == pc' = p

Say(ls) == lines' = lines \cup ls

Is(test, from, to, says) == [ test |-> test, from |-> from, to |-> to, says |-> says ]

Looks == UNCHANGED <<cluster, results, cut>>

\* Everything is created; or a create fails, and ends the scenario.
Start ==
  /\ pc = "start"
  /\ \/ Goto("up") /\ UNCHANGED lines
     \/ Goto("done") /\ Say({Is("isolation", "-", "-", "fail")})
  /\ ready' = running /\ missed' = FALSE
  /\ Looks /\ UNCHANGED <<faults, todo, late, lossy>>

\* ready_timeout, for all of them together, ends.
TimeIsUp ==
  /\ pc = "up" /\ ~late /\ late' = TRUE
  /\ Looks /\ UNCHANGED <<faults, pc, todo, lines, ready, missed, lossy>>

\* Pods first, then VMs, then the outside pod.
Waits(m) ==
  /\ m \in Vms => todo \cap Pods = {}
  /\ m = Outside => todo = {Outside}

Down == \E l \in lines : l.test = "up" /\ l.says = "fail"

\* The wait for one ends. Where a member, or the outside pod, is down, so does
\* the scenario, once all were waited for.
Told(m, says) ==
  /\ todo' = todo \ {m} /\ Say({Is("up", "-", m, says)})
  /\ Goto(IF m # Outside THEN "up" ELSE IF says = "fail" \/ Down THEN "done" ELSE "agent")
  /\ IF pc' = "up" THEN ready' = running /\ UNCHANGED <<late, answers>>
     ELSE ready' = {} /\ late' = FALSE /\ answers' \in Networks
  /\ missed' = FALSE
  /\ UNCHANGED <<running, policy, closed, harms, results, cut, lossy>>

SeeUp(m) == m \in running /\ Told(m, "pass") /\ UNCHANGED faults

GiveUpUnseen(m) == late /\ Told(m, "fail") /\ UNCHANGED faults

\* Only a look that did not show it up, or that failed, ends the wait.
GiveUp(m) ==
  /\ late /\ Told(m, "fail")
  /\ IF m \in running THEN Fault ELSE UNCHANGED faults

\* A look fails, and there is time for another.
Miss(m) ==
  /\ ~late /\ ~missed /\ m \in running /\ Fault /\ missed' = TRUE
  /\ Looks /\ UNCHANGED <<pc, todo, late, lines, ready, lossy>>

Wait ==
  /\ pc = "up"
  /\ \E m \in todo : Waits(m) /\ (SeeUp(m) \/ GiveUp(m) \/ Miss(m))

-----------------------------------------------------------------------------
(* The driver: a pass of probes *)

Pass == IF policy THEN "isolated" ELSE "control"

From(sources) == { p \in Paths : p.from \in sources }

Finding(p) == IF p \in answers \ closed THEN "reached" ELSE "unanswered"

\* What the probes in `asked` find is told, except that `lost` ones got no
\* answer, and `untold` ones have no line.
Record(asked, lost, untold) ==
  results' = [results EXCEPT ![Pass] = [p \in Paths |->
                IF p \notin asked THEN @[p]
                ELSE IF p \in untold THEN "untold"
                ELSE IF p \in lost THEN "unanswered"
                ELSE Finding(p)]]

Loses == lossy' = (lossy \/ policy)

\* A probe that was tried three times in vain, though its path answers.
ProbeLost(asked) ==
  /\ Fault /\ Loses /\ UNCHANGED cut
  /\ \E p \in asked \cap answers : Record(asked, {p}, {})

AllTold(asked) == Record(asked, {}, {}) /\ UNCHANGED <<faults, harms, cut, lossy>>

\* A line of the agent's log is cut, and skipped by parse_agent_log.
LineCut(asked) ==
  /\ Harm /\ cut' = TRUE /\ UNCHANGED <<faults, lossy>>
  /\ \E p \in asked : Record(asked, {}, {p})

Probing(from, to) ==
  /\ pc = from /\ Goto(to)
  /\ UNCHANGED <<running, answers, policy, closed, todo, late, lines, ready, missed>>

\* The agent's own; then from the VMs, each of which it may not log in to.
ProbeFromAgent ==
  /\ Probing("agent", "vms")
  /\ \/ AllTold(From({"agent"})) \/ LineCut(From({"agent"}))
     \/ ProbeLost(From({"agent"})) /\ UNCHANGED harms

ProbeFromVms ==
  /\ Probing("vms", "driver")
  /\ \/ AllTold(From(Vms)) \/ LineCut(From(Vms))
     \/ ProbeLost(From(Vms)) /\ UNCHANGED harms
     \/ /\ Fault /\ Loses /\ UNCHANGED <<cut, harms>>
        /\ \E v \in Vms : Record(From(Vms), {}, From({v}))

\* Its pod fails, or its log does not end: the scenario does.
AgentFails ==
  /\ pc \in {"agent", "vms"} /\ Goto("done") /\ Say({Is("isolation", "-", "-", "fail")})
  /\ Looks /\ UNCHANGED <<faults, todo, late, ready, missed, lossy>>

\* inbound: the driver's own probes, from another namespace.
Inbound ==
  /\ Probing("driver", "node")
  /\ \/ AllTold(From({"driver"}))
     \/ ProbeLost(From({"driver"})) /\ UNCHANGED harms

\* node_in: the host-network agent's, which may fail without more ado.
NodeIn ==
  /\ Probing("node", "judge")
  /\ \/ AllTold(From({"node"})) \/ LineCut(From({"node"}))
     \/ ProbeLost(From({"node"})) /\ UNCHANGED harms
     \/ UNCHANGED <<results, faults, harms, cut, lossy>>

-----------------------------------------------------------------------------
(* The driver: the control's verdict, and the policy *)

Silent(pass) == { v \in Vms : \A p \in From({v}) : results[pass][p] = "untold" }

\* The members do not all reach each other.
Broken ==
  \/ \E p \in Inner : results["control"][p] = "unanswered"
  \/ Silent("control") # {}

JudgeControl ==
  /\ pc = "judge" /\ ~policy
  /\ IF Broken THEN Goto("done") /\ Say({Is("control", "-", "-", "fail")})
     ELSE Goto("policy") /\ Say({Is("control", "-", "-", "pass")})
  /\ Looks /\ UNCHANGED <<faults, todo, late, ready, missed, lossy>>

CreatePolicy ==
  /\ pc = "policy"
  /\ \/ policy' = TRUE /\ Goto("wait") /\ UNCHANGED <<lines, faults>>
     \/ policy' \in BOOLEAN /\ Goto("done") /\ Say({Is("isolation", "-", "-", "fail")})
        /\ Fault
  /\ UNCHANGED <<running, answers, closed, harms, todo, late, results, ready, missed, lossy,
                 cut>>

\* The driver's connections that were open go unanswered; or time is up, and the
\* second pass is made all the same.
WaitEnforced ==
  LET still == { p \in From({"driver"}) :
                   results["control"][p] = "reached" /\ Finding(p) = "reached" } IN
  /\ pc = "wait" /\ Goto("agent")
  /\ Say({Is("policy", "-", "-", IF still = {} THEN "pass" ELSE "fail")})
  /\ Looks /\ UNCHANGED <<faults, todo, late, ready, missed, lossy>>

-----------------------------------------------------------------------------
(* The driver: the verdicts *)

ToldOf(from, to) ==
  { p \in Paths : p.from = from /\ p.to = to /\ results["isolated"][p] # "untold" }

\* A path says something of the policy where it answered without it.
Meaningful(p) == results["control"][p] = "reached"

JudgedAll(ps) == ps

Judged(ps) == { p \in ps : Meaningful(p) }

Reached(p) == results["isolated"][p] = "reached"

LeaksByAll(ps) == \A p \in ps : Reached(p)

Leaks(ps) == \E p \in ps : Reached(p)

Border(from, to) ==
  LET ps == Judged(ToldOf(from, to)) IN
  Is("border", from, to, IF ps = {} THEN "skip" ELSE IF Leaks(ps) THEN "fail" ELSE "pass")

Inside(from, to) ==
  Is("inside", from, to, IF \A p \in ToldOf(from, to) : Reached(p) THEN "pass" ELSE "fail")

\* A pair from within has a line where one of its probes has.
LinesFromInside ==
  { IF q.to = Outside THEN Border(q.from, q.to) ELSE Inside(q.from, q.to) :
      q \in { p \in Paths : p.from \notin {"driver", "node"}
                            /\ results["isolated"][p] # "untold" } }

LinesOfSilent == { Is("inside", "agent", v, "fail") : v \in Silent("isolated") }

LinesFromDriver == { Border("driver", m) : m \in Members }

\* judge_node: nothing can be said where it failed in a pass; a member of which
\* it told nothing is skipped.
LinesFromNode ==
  IF \E pass \in {"control", "isolated"} : \A p \in From({"node"}) : results[pass][p] = "untold"
  THEN {Is("border", "node", "*", "skip")}
  ELSE { Border("node", m) : m \in Members }

JudgeIsolated ==
  /\ pc = "judge" /\ policy /\ Goto("done")
  /\ Say(LinesFromInside \cup LinesOfSilent \cup LinesFromDriver \cup LinesFromNode)
  /\ Looks /\ UNCHANGED <<faults, todo, late, ready, missed, lossy>>

Driver ==
  \/ Start \/ TimeIsUp \/ Wait
  \/ ProbeFromAgent \/ ProbeFromVms \/ AgentFails \/ Inbound \/ NodeIn
  \/ JudgeControl \/ CreatePolicy \/ WaitEnforced \/ JudgeIsolated

Next == Cluster \/ Driver

Spec == Init /\ [][Next]_vars

-----------------------------------------------------------------------------
(* Properties *)

\* A member that was up before its wait began is told down only where a look at
\* it failed: a wait that finds the shared time used up looks all the same.
UpIsSeen ==
  [][ \A m \in ready : Is("up", "-", m, "fail") \in lines' \ lines => faults' < Faults ]_vars

\* A border that passes is closed by the policy, on a path that answered without
\* it - unless a path ceased to answer, or a probe was lost after the policy.
PassIsThePolicys ==
  ~lossy =>
    \A l \in lines : l.test = "border" /\ l.says = "pass" =>
      \E p \in answers \cap closed : p.from = l.from /\ p.to = l.to

\* Where nothing went wrong, a path that is open to the end fails its border.
LeakIsTold ==
  (\E l \in lines : l.test = "inside") /\ faults = Faults /\ harms = Harms =>
    \A p \in (Crossing \cap answers) \ closed :
      Is("border", p.from, p.to, "fail") \in lines \/ Is("border", p.from, "*", "skip") \in lines

\* A pair within that fails was closed by the policy - unless a path ceased to
\* answer, a probe was lost after the policy, or the control's line of it was.
FailIsThePolicys ==
  ~lossy /\ ~cut =>
    \A l \in lines : l.test = "inside" /\ l.says = "fail" =>
      \E p \in Inner \cap closed : p.from = l.from /\ p.to = l.to

\* A run that was judged has told of every pair, if no line of a log was lost:
\* of a VM it could not log in to, and of the node's, as one.
EveryPairIsTold ==
  (\E l \in lines : l.test = "inside") /\ ~cut =>
    \A p \in Paths :
      \/ \E l \in lines : l.test \in {"inside", "border"} /\ l.from = p.from /\ l.to \in {p.to, "*"}
      \/ Is("inside", "agent", p.from, "fail") \in lines
=============================================================================
