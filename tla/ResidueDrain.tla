---------------------------- MODULE ResidueDrain ----------------------------
(***************************************************************************)
(* The drain of one soak wave: its objects are deleted, then a census of   *)
(* what the run has left (census.rs `Sources::take`) is taken again and    *)
(* again, source by source, until it is empty or the drain times out       *)
(* (wave.rs `drain`, containers.rs `drain`). Between two reads the cluster *)
(* goes on: controllers still make what their owners ask for, and collect  *)
(* what lost its owner.                                                    *)
(***************************************************************************)
EXTENDS Integers, Sequences, FiniteSets

CONSTANTS
  Names,    \* the wave's VMs, or its Deployments and their claims
  Wave,     \* the name of its Service
  Faults    \* bound: how many requests get no answer (a number)

OrderByLayer == << "pods", "vmis", "vms", "replicasets", "deployments", "pvcs",
                   "services", "pvs", "volumes", "secrets", "registrations", "taps" >>

\* The sources of `own`, in the order `take` reads them.
Order == << "vms", "vmis", "deployments", "replicasets", "pods", "pvcs",
            "services", "pvs", "volumes", "secrets", "registrations", "taps" >>

SourceSet == { "vms", "vmis", "deployments", "replicasets", "pods", "pvcs",
               "services", "pvs", "volumes", "secrets", "registrations", "taps" }

\* What is made for what: <<owner, owned>>.
Owns == { <<"vms", "vmis">>, <<"vms", "secrets">>, <<"vmis", "volumes">>,
          <<"vmis", "registrations">>, <<"vmis", "taps">>,
          <<"deployments", "replicasets">>, <<"replicasets", "pods">>,
          <<"pvcs", "pvs">>, <<"pvcs", "volumes">> }

Owners(s) == { t \in SourceSet : <<t, s>> \in Owns }

Above(s) == Owners(s) \cup UNION { Owners(t) : t \in Owners(s) }

\* An object: where it is listed, and the VM or Deployment it is of.
Objects == ((SourceSet \ {"services"}) \X Names) \cup { <<"services", Wave>> }

\* What a wave of each kind creates, and its drain deletes.
Roots(kind) == IF kind = "vms" THEN {"vms"} \X Names
               ELSE ({"deployments", "pvcs"} \X Names) \cup { <<"services", Wave>> }

VARIABLES
  \* the cluster
  objs,     \* the objects of the run that exist
  doomed,   \* those whose deletion was accepted
  flying,   \* roots whose create was cut off and may still land
  landed,   \* ghost: those that did land after the drain began
  faults,   \* requests that may still fail
  \* the drain
  kind,     \* the kind of its wave
  stage,    \* delete | take | done
  todo,     \* the roots still to delete
  pos,      \* the source it reads next: Order[pos]
  found,    \* what this census has found: own
  unread,   \* ghost: a source did not answer in it
  cut,      \* ghost: creates were on their way when it began
  outcome   \* what it returns, once it has

vars == <<objs, doomed, flying, landed, faults,
          kind, stage, todo, pos, found, unread, cut, outcome>>

Contract == INSTANCE DrainSpec WITH running <- stage # "done"

DrainTypeOK ==
  /\ objs \subseteq Objects /\ doomed \subseteq Objects
  /\ flying \subseteq Objects /\ landed \subseteq Objects
  /\ faults \in 0..Faults
  /\ kind \in {"vms", "containers"}
  /\ stage \in {"delete", "take", "done"}
  /\ todo \subseteq Roots(kind)
  /\ pos \in 1..Len(Order) + 1
  /\ found \subseteq Objects /\ unread \in BOOLEAN
  /\ cut \in BOOLEAN
  /\ outcome \in Contract!DrainOutcome

\* The sources that belong to the waves of each kind.
Layer(k) == { s \in SourceSet : \E r \in Roots(k) : r[1] = s \/ r[1] \in Above(s) }

\* The hold has ended, or was cut off at the end of the window with creates on
\* their way: of the wave there is anything.
Init ==
  /\ kind \in {"vms", "containers"}
  /\ objs \in SUBSET { o \in Objects : o[1] \in Layer(kind) }
  /\ flying \in SUBSET (Roots(kind) \ objs)
  /\ kind = "containers" => Cardinality(flying) <= 1     \* created one at a time
  /\ doomed = {} /\ landed = {} /\ faults = Faults
  /\ stage = "delete" /\ todo = Roots(kind)
  /\ pos = 1 /\ found = {} /\ unread = FALSE
  /\ cut = (flying # {})
  /\ outcome = Contract!Undrained

-----------------------------------------------------------------------------
(* The cluster *)

ClusterStep ==
  /\ stage # "done"
  /\ UNCHANGED <<faults, kind, stage, todo, pos, found, unread, cut, outcome>>

\* A create that was cut off is committed after all.
Land(o) ==
  /\ o \in flying
  /\ objs' = objs \cup {o} /\ flying' = flying \ {o} /\ landed' = landed \cup {o}
  /\ UNCHANGED doomed

\* A controller makes an object for an owner that is there.
Make(o) ==
  /\ o \notin objs
  /\ \E s \in Owners(o[1]) : <<s, o[2]>> \in objs
  /\ objs' = objs \cup {o}
  /\ UNCHANGED <<doomed, flying, landed>>

\* A deleted root goes; an owned object goes whenever it does.
Vanish(o) ==
  /\ o \in objs
  /\ Owners(o[1]) = {} => o \in doomed
  /\ objs' = objs \ {o} /\ doomed' = doomed \ {o}
  /\ UNCHANGED <<flying, landed>>

Cluster == ClusterStep /\ \E o \in Objects : Land(o) \/ Make(o) \/ Vanish(o)

-----------------------------------------------------------------------------
(* The drain *)

Fault == faults > 0 /\ faults' = faults - 1

\* One DELETE (in the order of the names; nothing depends on it). Its answer
\* is not looked at: it may have been refused, or have failed either way.
Delete ==
  /\ stage = "delete" /\ todo # {}
  /\ \E r \in todo :
       /\ todo' = todo \ {r}
       /\ \/ doomed' = doomed \cup ({r} \cap objs) /\ UNCHANGED faults
          \/ UNCHANGED doomed /\ Fault
  /\ UNCHANGED <<objs, flying, landed, kind, stage, pos, found, unread, cut, outcome>>

\* Everything was deleted: the first census begins.
BeginFromZero ==
  /\ stage = "delete" /\ todo = {}
  /\ stage' = "take" /\ pos' = 0
  /\ UNCHANGED <<objs, doomed, flying, landed, faults, kind, todo, found, unread, cut, outcome>>

Begin ==
  /\ stage = "delete" /\ todo = {}
  /\ stage' = "take"
  /\ UNCHANGED <<objs, doomed, flying, landed, faults, kind, todo, pos, found, unread, cut, outcome>>

\* A source lists what of the run is there.
Read ==
  /\ stage = "take" /\ pos <= Len(Order)
  /\ found' = found \cup { o \in objs : o[1] = Order[pos] }
  /\ pos' = pos + 1
  /\ UNCHANGED <<objs, doomed, flying, landed, faults, kind, stage, todo, unread,
                 cut, outcome>>

\* It does not answer: its part of `own` stays empty.
ReadFails ==
  /\ stage = "take" /\ pos <= Len(Order)
  /\ Fault
  /\ unread' = TRUE
  /\ pos' = pos + 1
  /\ UNCHANGED <<objs, doomed, flying, landed, kind, stage, todo, found,
                 cut, outcome>>

\* What run_wave is told: something is left, or nothing.
RootNamed == found \cap Roots(kind) # {}

Named == found # {}

\* The census is done and found nothing, or it is too late for another: the
\* drain is over.
DrainEnds ==
  /\ stage = "take" /\ pos = Len(Order) + 1
  /\ stage' = "done"
  /\ outcome' = [ own    |-> Named,  unread |-> unread,
                  flying |-> cut,    left   |-> objs # {} ]
  /\ UNCHANGED <<objs, doomed, flying, landed, faults, kind, todo, pos, found, unread, cut>>

\* It found something, and there is time: again, from nothing.
TakeAgain ==
  /\ stage = "take" /\ pos = Len(Order) + 1
  /\ found # {}
  /\ pos' = 1 /\ found' = {} /\ unread' = FALSE
  /\ UNCHANGED <<objs, doomed, flying, landed, faults, kind, stage, todo, cut, outcome>>

Drain == Delete \/ Begin \/ Read \/ ReadFails \/ DrainEnds \/ TakeAgain

Next == Cluster \/ Drain

\* (Safety only: that the drain is over by its timeout is in DrainEnds.)
Spec == Init /\ [][Next]_vars

-----------------------------------------------------------------------------
(* Properties *)

\* What is left is named: of every object that is there when the drain ends,
\* the object or something above it is in the list, or its create landed
\* during the drain. The census is not a snapshot - what is made behind its
\* back is made for an owner it read before (`take` reads owners first) -
\* provided that every source answered.
NothingLeftUnnamed ==
  stage = "done" /\ ~unread =>
    \A o \in objs : \E s \in {o[1]} \cup Above(o[1]) : <<s, o[2]>> \in found \cup landed

\* The drain keeps the promise run_wave relies on.
ImplementsContract == Contract!Spec

\* README: "A drain cannot pass unchecked." A source that does not answer
\* during the drain leaves its part of the list empty.
PassedDrainIsClean == stage = "done" /\ found = {} /\ ~cut => objs = {}
=============================================================================
