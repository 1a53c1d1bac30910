---------------------------- MODULE FailedStart ----------------------------
(***************************************************************************)
(* A VM wave's failed-start case (failstart.rs `run`). Two VMs whose start *)
(* fails on the node: one under runStrategy Always, watched until it was   *)
(* tried three times, then fixed and restarted; one under Once, watched    *)
(* until it is Failed and for a while after. Nothing of the run may be on  *)
(* the node in between. The kubelet goes on between any two reads.         *)
(***************************************************************************)
EXTENDS Integers, Sequences, FiniteSets

CONSTANTS
  Faults,    \* bound: requests that get no answer, are refused or fail
  Harms,     \* bound: what the cluster does that it should not
  Tries      \* bound: attempts to start a VMI

Vms == {"always", "once"}

Places == <<"volumes", "registrations", "taps">>

VARIABLES
  \* the cluster
  vm,        \* each VM and its VMI
  left,      \* what failed attempts left on the node, by VM and place
  faults, harms,
  \* the driver
  pc,
  seen,      \* the attempts of the first VM, as seen
  uid,       \* its VMI as last seen, or the second VM's when it was Failed
  says,      \* the second VM was read to be failing
  same,      \* its VMI was read to be the same
  place,     \* the place of the census to be read next
  found,     \* the places with something of the run
  lines,     \* the line of each check that has one
  failed,
  flying,    \* ghost: a create may still land
  unread,    \* ghost: a place of this census was not read
  leftAtCensus,  \* ghost: what had been left when this census began
  upFixed    \* ghost: the VMI that recovered has the fixed template

cluster == <<vm, left, harms>>

driver == <<pc, seen, uid, says, same, place, found, lines, failed, flying, unread,
            leftAtCensus, upFixed>>

vars == <<cluster, faults, driver>>

Attempt == [ n : Nat, delay : Nat ]

Vm ==
  [ made    : BOOLEAN,
    fixed   : BOOLEAN,      \* its template is without the NIC
    restart : BOOLEAN,      \* a restart is under way
    failing : BOOLEAN,      \* its status says that it is failing
    gen     : Nat,          \* its VMI, which has:
    phase   : {"none", "pending", "failed", "running"},
    wired   : BOOLEAN,      \* the template without the NIC
    trying  : BOOLEAN,      \* an attempt is being made
    last    : Attempt ]     \* the last attempt it tells of

Checks == {"retried", "no-residue", "recovered", "once", "drain"}

TypeOK ==
  /\ vm \in [Vms -> Vm]
  /\ left \in [Vms -> SUBSET {"volumes", "registrations", "taps"}]
  /\ faults \in 0..Faults /\ harms \in 0..Harms
  /\ pc \in {"always", "watch", "judge", "residue", "fix", "restart", "up", "ssh", "once",
             "failed", "hold", "status", "look", "verdict", "drain", "done"}
  /\ seen \in Seq(Attempt) /\ Len(seen) <= 3
  /\ uid \in Nat /\ says \in BOOLEAN /\ same \in BOOLEAN
  /\ place \in 1..4 /\ found \subseteq {"volumes", "registrations", "taps"}
  /\ DOMAIN lines \subseteq Checks
  /\ \A c \in DOMAIN lines : lines[c] \in {"pass", "fail", "infra"}
  /\ failed \in BOOLEAN /\ flying \in BOOLEAN /\ unread \in BOOLEAN
  /\ leftAtCensus \subseteq {"volumes", "registrations", "taps"} /\ upFixed \in BOOLEAN

Init ==
  /\ vm = [v \in Vms |-> [ made |-> FALSE, fixed |-> FALSE, restart |-> FALSE,
                           failing |-> FALSE, gen |-> 0, phase |-> "none", wired |-> FALSE,
                           trying |-> FALSE, last |-> [ n |-> 0, delay |-> 0 ] ]]
  /\ left = [v \in Vms |-> {}]
  /\ faults = Faults /\ harms = Harms
  /\ pc = "always" /\ seen = << >> /\ uid = 0 /\ says = FALSE /\ same = FALSE
  /\ place = 1 /\ found = {} /\ lines = << >> /\ failed = FALSE
  /\ flying = FALSE /\ unread = FALSE /\ leftAtCensus = {} /\ upFixed = FALSE

-----------------------------------------------------------------------------
(* The cluster *)

Harm == harms > 0 /\ harms' = harms - 1

\* Always makes a VMI whenever there is none, Once a single time.
MakeVmi(v) ==
  /\ vm[v].made /\ vm[v].phase = "none"
  /\ v = "once" => vm[v].gen = 0
  /\ vm' = [vm EXCEPT ![v].gen = @ + 1, ![v].phase = "pending", ![v].wired = vm[v].fixed,
                      ![v].restart = FALSE, ![v].last = [ n |-> 0, delay |-> 0 ]]
  /\ UNCHANGED <<left, harms>>

StopVmi(v) ==
  /\ vm[v].restart /\ vm[v].phase # "none" /\ ~vm[v].trying
  /\ vm' = [vm EXCEPT ![v].phase = "none"]
  /\ UNCHANGED <<left, harms>>

Try(v) ==
  /\ vm[v].phase = "pending" /\ ~vm[v].trying /\ ~vm[v].wired /\ vm[v].last.n < Tries
  /\ vm' = [vm EXCEPT ![v].trying = TRUE]
  /\ UNCHANGED <<left, harms>>

\* The attempt fails and gives back what it made, and the next is announced
\* later and later; or a delay does not grow, or something is left.
TryFails(v) ==
  /\ vm[v].trying
  /\ \E d \in 0..1, p \in SUBSET {"volumes", "registrations", "taps"} :
       /\ vm' = [vm EXCEPT ![v].trying = FALSE,
                           ![v].phase = IF v = "once" THEN "failed" ELSE "pending",
                           ![v].last = [ n |-> @.n + 1, delay |-> @.delay + d ]]
       /\ left' = [left EXCEPT ![v] = @ \cup p]
       /\ IF d = 1 /\ p = {} THEN UNCHANGED harms ELSE Harm /\ Cardinality(p) <= 1

\* It runs: on a template that is fixed, or though nothing wires its NIC.
RunVmi(v) ==
  /\ vm[v].phase = "pending" /\ ~vm[v].trying
  /\ vm' = [vm EXCEPT ![v].phase = "running"]
  /\ UNCHANGED left
  /\ IF vm[v].wired THEN UNCHANGED harms ELSE Harm

\* The VM's status follows its VMI.
Report(v) ==
  /\ vm' = [vm EXCEPT ![v].failing = vm[v].phase \in {"pending", "failed"} /\ vm[v].last.n > 0]
  /\ vm' # vm
  /\ UNCHANGED <<left, harms>>

\* A VM under Once is tried again after all.
TryOnceAgain ==
  /\ vm["once"].phase = "failed" /\ Harm
  /\ vm' = [vm EXCEPT !["once"].phase = "pending", !["once"].gen = @ + 1,
                      !["once"].last = [ n |-> 0, delay |-> 0 ]]
  /\ UNCHANGED left

Cluster ==
  /\ pc # "done"
  /\ \/ \E v \in Vms : \/ MakeVmi(v) \/ StopVmi(v) \/ Try(v) \/ TryFails(v) \/ RunVmi(v)
                       \/ Report(v)
     \/ TryOnceAgain
  /\ UNCHANGED <<faults, driver>>

\* What is on the node of a VM: an attempt's, a running VMI's, what was left.
OnNode(v, p) == vm[v].trying \/ vm[v].phase = "running" \/ p \in left[v]

-----------------------------------------------------------------------------
(* The driver: runStrategy Always *)

Fault == faults > 0 /\ faults' = faults - 1

Line(check, status) ==
  /\ lines' = [c \in DOMAIN lines \cup {check} |-> IF c = check THEN status ELSE lines[c]]
  /\ failed' = (failed \/ status # "pass")

\* fail!: a failure, given up on or not; Out::failure tells the two apart.
Failure(check) ==
  \/ Line(check, "fail") /\ UNCHANGED faults
  \/ Line(check, "infra") /\ Fault

BeginCensus == place' = 1 /\ found' = {} /\ unread' = FALSE

\* A create that is refused, or given up on. What was seen of the other VM is
\* forgotten.
Create(v, next, check, after) ==
  /\ pc = v
  /\ seen' = << >> /\ uid' = 0 /\ BeginCensus
  /\ leftAtCensus' = {} /\ upFixed' = FALSE
  /\ \/ /\ vm' = [vm EXCEPT ![v].made = TRUE] /\ pc' = next
        /\ UNCHANGED <<faults, lines, failed, flying>>
     \/ /\ Fault /\ Line(check, "fail") /\ pc' = after
        /\ \E m \in BOOLEAN : vm' = [vm EXCEPT ![v].made = m]
        /\ flying' \in {flying, TRUE}
  /\ UNCHANGED <<left, harms, says, same>>

CreateAlways == Create("always", "watch", "retried", "once")

\* One look at the VMI: an attempt is noted when its number is another.
Watch ==
  /\ pc = "watch" /\ Len(seen) < 3 /\ vm["always"].phase # "none"
  /\ uid' = vm["always"].gen
  /\ LET a == vm["always"].last IN
       IF vm["always"].phase = "running" THEN pc' = "judge" /\ UNCHANGED seen
       ELSE /\ UNCHANGED pc
            /\ seen' = IF a.n > 0 /\ (seen = << >> \/ seen[Len(seen)].n # a.n)
                       THEN Append(seen, a) ELSE seen
  /\ UNCHANGED <<cluster, faults, says, same, place, found, lines, failed, flying, unread,
                 leftAtCensus, upFixed>>

\* Three were seen, or the window is over.
WatchEnds ==
  /\ pc = "watch" /\ pc' = "judge"
  /\ UNCHANGED <<cluster, faults, seen, uid, says, same, place, found, lines, failed, flying,
                 unread, leftAtCensus, upFixed>>

\* backoff: at least three attempts, the count rising, the delay growing.
Backoff ==
  /\ Len(seen) >= 3
  /\ \A i \in 1..(Len(seen) - 1) : seen[i + 1].n > seen[i].n /\ seen[i + 1].delay >= seen[i].delay
  /\ seen[1].delay # seen[Len(seen)].delay
  /\ \A i \in 1..Len(seen) : seen[i].delay <= 300

\* The VM's status is read; unread, it says nothing.
JudgeRetries ==
  /\ pc = "judge" /\ pc' = IF seen = << >> THEN "fix" ELSE "residue"
  /\ \/ /\ Line("retried", IF Backoff /\ vm["always"].failing THEN "pass" ELSE "fail")
        /\ UNCHANGED faults
     \/ Fault /\ Line("retried", "fail")
  /\ BeginCensus /\ leftAtCensus' = left["always"]
  /\ UNCHANGED <<cluster, seen, uid, says, same, flying, upFixed>>

\* The census reads one place after the other; unread, it holds nothing.
ReadPlace ==
  /\ pc \in {"residue", "verdict"} /\ place <= Len(Places) /\ place' = place + 1
  /\ \/ /\ found' = found \cup { p \in {Places[place]} : \E v \in Vms : OnNode(v, p) }
        /\ UNCHANGED <<faults, unread>>
     \/ Fault /\ unread' = TRUE /\ UNCHANGED found
  /\ UNCHANGED <<cluster, pc, seen, uid, says, same, lines, failed, flying, leftAtCensus, upFixed>>

NothingFound == found = {}

JudgeResidue ==
  /\ pc = "residue" /\ place > Len(Places) /\ pc' = "fix"
  /\ Line("no-residue", IF NothingFound THEN "pass" ELSE "fail")
  /\ UNCHANGED <<cluster, faults, seen, uid, says, same, place, found, flying, unread,
                 leftAtCensus, upFixed>>

-----------------------------------------------------------------------------
(* The driver: fixed and restarted *)

Recovers(from, to) ==
  /\ pc = from /\ pc' = to
  /\ UNCHANGED <<left, harms, faults, seen, uid, says, same, place, found, flying, unread,
                 leftAtCensus>>

FixTemplate ==
  /\ Recovers("fix", "restart") /\ vm' = [vm EXCEPT !["always"].fixed = TRUE]
  /\ UNCHANGED <<lines, failed, upFixed>>

\* Accepted, and done or not.
PutRestart ==
  /\ Recovers("restart", "up") /\ vm' \in {vm, [vm EXCEPT !["always"].restart = TRUE]}
  /\ UNCHANGED <<lines, failed, upFixed>>

IsAny == TRUE

\* wait_up: not the VMI that was last seen, if any was.
IsNew == uid = 0 \/ vm["always"].gen # uid

WaitUp ==
  /\ Recovers("up", "ssh") /\ vm["always"].phase = "running" /\ IsNew
  /\ upFixed' = vm["always"].wired
  /\ UNCHANGED <<vm, lines, failed>>

WaitSsh ==
  /\ Recovers("ssh", "once") /\ vm["always"].phase = "running"
  /\ Line("recovered", "pass")
  /\ UNCHANGED <<vm, upFixed>>

\* A request or a login fails, or time runs out; a request may have been done.
RecoveryFails ==
  /\ pc \in {"fix", "restart", "up", "ssh"} /\ pc' = "once"
  /\ \/ UNCHANGED vm
     \/ pc = "fix" /\ vm' = [vm EXCEPT !["always"].fixed = TRUE]
     \/ pc = "restart" /\ vm' = [vm EXCEPT !["always"].restart = TRUE]
  /\ Failure("recovered")
  /\ UNCHANGED <<left, harms, seen, uid, says, same, place, found, flying, unread,
                 leftAtCensus, upFixed>>

-----------------------------------------------------------------------------
(* The driver: runStrategy Once *)

CreateOnce == Create("once", "failed", "once", "drain")

SeeFailed ==
  /\ pc = "failed" /\ vm["once"].phase = "failed"
  /\ uid' = vm["once"].gen /\ pc' = "hold"
  /\ UNCHANGED <<cluster, faults, seen, says, same, place, found, lines, failed, flying,
                 unread, leftAtCensus, upFixed>>

NeverFailed ==
  /\ pc = "failed" /\ pc' = "drain" /\ Line("once", "fail")
  /\ UNCHANGED <<cluster, faults, seen, uid, says, same, place, found, flying, unread,
                 leftAtCensus, upFixed>>

HoldEnds ==
  /\ pc = "hold" /\ pc' = "status"
  /\ UNCHANGED <<cluster, faults, seen, uid, says, same, place, found, lines, failed, flying,
                 unread, leftAtCensus, upFixed>>

ReadStatus ==
  /\ pc = "status" /\ pc' = "look"
  /\ \/ says' = vm["once"].failing /\ UNCHANGED faults
     \/ says' = FALSE /\ Fault
  /\ UNCHANGED <<cluster, seen, uid, same, place, found, lines, failed, flying, unread,
                 leftAtCensus, upFixed>>

StillFailed == vm["once"].gen = uid /\ vm["once"].phase = "failed"

LookAgain ==
  /\ pc = "look" /\ pc' = "verdict"
  /\ \/ same' = StillFailed /\ UNCHANGED faults
     \/ same' = FALSE /\ Fault
  /\ BeginCensus /\ leftAtCensus' = left["once"]
  /\ UNCHANGED <<cluster, seen, uid, says, lines, failed, flying, upFixed>>

JudgeOnce ==
  /\ pc = "verdict" /\ place > Len(Places) /\ pc' = "drain"
  /\ Line("once", IF same /\ says /\ NothingFound THEN "pass" ELSE "fail")
  /\ UNCHANGED <<cluster, faults, seen, uid, says, same, place, found, flying, unread,
                 leftAtCensus, upFixed>>

\* The drain of both (module ResidueDrain), in either outcome.
Drain ==
  /\ pc = "drain" /\ pc' = "done"
  /\ \E status \in {"pass", "fail"} : Line("drain", status)
  /\ UNCHANGED <<cluster, faults, seen, uid, says, same, place, found, flying, unread,
                 leftAtCensus, upFixed>>

Driver ==
  \/ CreateAlways \/ Watch \/ WatchEnds \/ JudgeRetries \/ ReadPlace \/ JudgeResidue
  \/ FixTemplate \/ PutRestart \/ WaitUp \/ WaitSsh \/ RecoveryFails
  \/ CreateOnce \/ SeeFailed \/ NeverFailed \/ HoldEnds \/ ReadStatus \/ LookAgain
  \/ JudgeOnce \/ Drain

Next == Cluster \/ Driver

Spec == Init /\ [][Next]_vars

-----------------------------------------------------------------------------
(* Properties *)

Passed(check) == check \in DOMAIN lines /\ lines[check] = "pass"

\* A census that found nothing while the start fails, and read all its places,
\* began with nothing left by the attempts before it - though it reads one
\* place after the other while attempts are made.
NoResidueIsProof ==
  /\ Passed("no-residue") /\ pc = "fix" /\ ~unread => leftAtCensus = {}
  /\ Passed("once") /\ pc = "drain" /\ ~unread => leftAtCensus = {}

\* A case that has not failed recovered on a VMI of the fixed template: a VMI
\* that runs on the broken one after all is not taken for the restarted one.
RecoveredIsFixed == pc = "once" /\ ~failed => upFixed

\* What run_wave relies on: a create given up on, and a check that did not
\* pass or was not made, have failed the case.
FailureIsTold ==
  pc = "done" /\ ~failed =>
    ~flying /\ \A c \in Checks : Passed(c)

\* failstart.rs: "failed-start/once: under runStrategy: Once, the VMI ends
\* Failed, the VM reads Failed, and it stays so" - a cluster that does that,
\* and answers, passes it.
OnceFailsForItsOwn ==
  pc = "drain" /\ harms = Harms /\ faults = Faults /\ says /\ same => Passed("once")
=============================================================================
