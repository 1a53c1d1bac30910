------------------------- MODULE ResidueDrainProofs -------------------------
(***************************************************************************)
(* Proofs about ResidueDrain, for every wave (any names, of either kind)   *)
(* and every number of requests that get no answer.                        *)
(***************************************************************************)
EXTENDS ResidueDrain, TLAPS

-----------------------------------------------------------------------------
(* Facts about the sources *)

LEMMA OrderIsASequence == Order \in Seq(SourceSet) /\ Len(Order) = 12
  BY DEF Order, SourceSet

\* The census reads the owner of what a source lists before that source.
LEMMA OwnersAreReadFirst ==
  ASSUME NEW i \in 1..12, NEW s \in Owners(Order[i])
  PROVE  \E j \in 1..(i - 1) : Order[j] = s
<1>1. <<s, Order[i]>> \in Owns
  BY DEF Owners
<1>2. \/ s = "vms" /\ Order[i] \in {"vmis", "secrets"}
      \/ s = "vmis" /\ Order[i] \in {"volumes", "registrations", "taps"}
      \/ s = "deployments" /\ Order[i] = "replicasets"
      \/ s = "replicasets" /\ Order[i] = "pods"
      \/ s = "pvcs" /\ Order[i] \in {"pvs", "volumes"}
  BY <1>1 DEF Owns
<1>3. /\ Order[1] = "vms" /\ Order[2] = "vmis" /\ Order[3] = "deployments"
      /\ Order[4] = "replicasets" /\ Order[5] = "pods" /\ Order[6] = "pvcs"
  BY DEF Order
<1>4. /\ Order[i] \in {"vmis", "secrets"} => i > 1
      /\ Order[i] \in {"volumes", "registrations", "taps"} => i > 6
      /\ Order[i] = "replicasets" => i > 3
      /\ Order[i] = "pods" => i > 4
      /\ Order[i] = "pvs" => i > 6
  BY <1>3
<1> QED BY <1>2, <1>3, <1>4

\* What is above an owner is above what it owns.
LEMMA AboveIsTransitive ==
  ASSUME NEW s \in SourceSet, NEW t \in Owners(s)
  PROVE  /\ t \in Above(s)
         /\ Above(t) \subseteq Above(s)
<1>1. t \in Above(s) /\ t \in SourceSet /\ <<t, s>> \in Owns
  BY DEF Above, Owners
<1>2. \A u \in Owners(t) : Owners(u) = {}
  BY <1>1 DEF Owners, Owns
<1>3. Above(t) = Owners(t)
  BY <1>2 DEF Above
<1> QED BY <1>1, <1>3 DEF Above

LEMMA EverySourceIsRead == \A s \in SourceSet : \E i \in 1..12 : Order[i] = s
<1>1. /\ Order[1] = "vms" /\ Order[2] = "vmis" /\ Order[3] = "deployments"
      /\ Order[4] = "replicasets" /\ Order[5] = "pods" /\ Order[6] = "pvcs"
      /\ Order[7] = "services" /\ Order[8] = "pvs" /\ Order[9] = "volumes"
      /\ Order[10] = "secrets" /\ Order[11] = "registrations" /\ Order[12] = "taps"
  BY DEF Order
<1> QED BY <1>1 DEF SourceSet

LEMMA RootsAreObjects == Roots(kind) \subseteq Objects
  BY DEF Roots, Objects, SourceSet

-----------------------------------------------------------------------------
(* Types                                                                     *)

LEMMA TypeInitially == ASSUME Faults \in Nat PROVE Init => DrainTypeOK
<1> SUFFICES ASSUME Init PROVE DrainTypeOK
  OBVIOUS
<1>1. outcome \in Contract!DrainOutcome
  BY DEF Init, Contract!Undrained, Contract!DrainOutcome
<1>2. faults \in 0..Faults
  BY DEF Init
<1>3. pos \in 1..Len(Order) + 1
  BY OrderIsASequence DEF Init
<1> QED BY <1>1, <1>2, <1>3, RootsAreObjects DEF Init, DrainTypeOK

LEMMA TypeStep == ASSUME Faults \in Nat PROVE DrainTypeOK /\ [Next]_vars => DrainTypeOK'
<1> SUFFICES ASSUME DrainTypeOK, [Next]_vars PROVE DrainTypeOK'
  OBVIOUS
<1> USE OrderIsASequence DEF DrainTypeOK
<1>1. CASE Cluster
  <2>1. PICK o \in Objects : Land(o) \/ Make(o) \/ Vanish(o)
    BY <1>1 DEF Cluster
  <2>2. /\ objs' \subseteq Objects /\ doomed' \subseteq Objects
        /\ flying' \subseteq Objects /\ landed' \subseteq Objects
    BY <2>1 DEF Land, Make, Vanish
  <2> QED BY <1>1, <2>2 DEF Cluster, ClusterStep
<1>2. CASE Delete
  <2>1. faults' \in 0..Faults /\ doomed' \subseteq Objects
    BY <1>2 DEF Delete, Fault
  <2> QED BY <1>2, <2>1 DEF Delete
<1>3. CASE Begin
  BY <1>3 DEF Begin
<1>4. CASE Read
  BY <1>4 DEF Read
<1>5. CASE ReadFails
  BY <1>5 DEF ReadFails, Fault
<1>6. CASE DrainEnds
  <2>1. outcome' \in Contract!DrainOutcome
    BY <1>6 DEF DrainEnds, Named, Contract!DrainOutcome
  <2> QED BY <1>6, <2>1 DEF DrainEnds
<1>7. CASE TakeAgain
  <2>1. pos' \in 1..Len(Order) + 1 /\ found' \subseteq Objects
    BY <1>7 DEF TakeAgain
  <2> QED BY <1>7, <2>1 DEF TakeAgain
<1>8. CASE UNCHANGED vars
  BY <1>8 DEF vars
<1> QED BY <1>1, <1>2, <1>3, <1>4, <1>5, <1>6, <1>7, <1>8 DEF Next, Drain

(* The drain's state always has its type.                                    *)
THEOREM TypeCorrect == ASSUME Faults \in Nat PROVE Spec => []DrainTypeOK
<1>1. Init => DrainTypeOK
  BY TypeInitially
<1>2. DrainTypeOK /\ [Next]_vars => DrainTypeOK'
  BY TypeStep
<1> QED BY <1>1, <1>2, PTL DEF Spec

-----------------------------------------------------------------------------
(* The sweep: of every object whose source the census has read, the object   *)
(* or something above it has been found, or its create landed meanwhile. It  *)
(* is kept when an object is made behind the census's back, because what it  *)
(* is made for was read before it.                                           *)

Covered(o) == \E s \in {o[1]} \cup Above(o[1]) : <<s, o[2]>> \in found \cup landed

HasRead(s) == \E i \in 1..(pos - 1) : Order[i] = s

Swept == ~unread => \A o \in objs : HasRead(o[1]) => Covered(o)

Sweep ==
  /\ DrainTypeOK
  /\ Swept
  /\ ~cut => flying = {} /\ landed = {}
  /\ stage = "done" => pos = 13
  /\ stage # "done" => outcome = Contract!Undrained

LEMMA SweepInitially == ASSUME Faults \in Nat PROVE Init => Sweep
<1> SUFFICES ASSUME Init PROVE Sweep
  OBVIOUS
<1>1. \A s : ~HasRead(s)
  BY DEF Init, HasRead
<1>2. Swept
  BY <1>1 DEF Swept
<1>3. (~cut => flying = {} /\ landed = {}) /\ stage # "done" /\ outcome = Contract!Undrained
  BY DEF Init
<1> QED BY <1>2, <1>3, TypeInitially DEF Sweep

\* An object the cluster makes is covered if what it is made for is.
LEMMA MadeIsCovered ==
  ASSUME Sweep, ~unread, NEW o \in Objects, NEW s \in Owners(o[1]),
         <<s, o[2]>> \in objs, HasRead(o[1])
  PROVE  Covered(o)
<1>1. s \in SourceSet /\ o[1] \in SourceSet
  BY DEF Owners, Objects, SourceSet
<1>2. pos \in 1..13
  BY OrderIsASequence DEF Sweep, DrainTypeOK
<1>3. PICK i \in 1..(pos - 1) : Order[i] = o[1]
  BY DEF HasRead
<1>4. i \in 1..12
  BY <1>2, <1>3
<1>5. PICK j \in 1..(i - 1) : Order[j] = s
  BY <1>3, <1>4, OwnersAreReadFirst
<1>6. HasRead(s)
  BY <1>2, <1>3, <1>5 DEF HasRead
<1>7. Covered(<<s, o[2]>>)
  BY <1>6 DEF Sweep, Swept
<1>8. PICK u \in {s} \cup Above(s) : <<u, o[2]>> \in found \cup landed
  BY <1>7 DEF Covered
<1>9. u \in Above(o[1])
  BY <1>1, <1>8, AboveIsTransitive
<1> QED BY <1>8, <1>9 DEF Covered

\* The cluster's steps keep the sweep.
LEMMA ClusterKeepsSwept ==
  ASSUME Sweep, Cluster
  PROVE  Swept'
<1> SUFFICES ASSUME ~unread', NEW o \in objs', HasRead(o[1])'
             PROVE  Covered(o)'
  BY DEF Swept
<1>1. ~unread /\ pos' = pos /\ found' = found
  BY DEF Cluster, ClusterStep
<1>2. HasRead(o[1])
  BY <1>1 DEF HasRead
<1>3. PICK p \in Objects : Land(p) \/ Make(p) \/ Vanish(p)
  BY DEF Cluster
<1>4. landed \subseteq landed'
  BY <1>3 DEF Land, Make, Vanish
<1>5. ASSUME Covered(o) PROVE Covered(o)'
  BY <1>1, <1>4, <1>5 DEF Covered
<1>6. CASE o \in objs
  BY <1>1, <1>2, <1>5, <1>6 DEF Sweep, Swept
<1>7. CASE o \notin objs
  <2>1. CASE Land(p)
    <3>1. o = p /\ o \in landed'
      BY <1>7, <2>1 DEF Land
    <3>2. o = <<o[1], o[2]>>
      BY <3>1 DEF Objects
    <3> QED BY <3>1, <3>2 DEF Covered
  <2>2. CASE Make(p)
    <3>1. o = p /\ \E s \in Owners(o[1]) : <<s, o[2]>> \in objs
      BY <1>7, <2>2 DEF Make
    <3>2. Covered(o)
      BY <1>1, <1>2, <3>1, MadeIsCovered
    <3> QED BY <1>5, <3>2
  <2>3. CASE Vanish(p)
    BY <1>7, <2>3 DEF Vanish
  <2> QED BY <1>3, <2>1, <2>2, <2>3
<1> QED BY <1>6, <1>7

\* So does the read of one more source: what it lists is found.
LEMMA ReadKeepsSwept ==
  ASSUME Sweep, Read
  PROVE  Swept'
<1> SUFFICES ASSUME ~unread', NEW o \in objs', HasRead(o[1])'
             PROVE  Covered(o)'
  BY DEF Swept
<1>1. /\ ~unread /\ objs' = objs /\ landed' = landed /\ pos' = pos + 1
      /\ found' = found \cup { p \in objs : p[1] = Order[pos] }
  BY DEF Read
<1>2. pos \in 1..12
  BY OrderIsASequence DEF Read, Sweep, DrainTypeOK
<1>3. HasRead(o[1]) \/ o[1] = Order[pos]
  BY <1>1, <1>2 DEF HasRead
<1>4. CASE HasRead(o[1])
  <2>1. Covered(o)
    BY <1>1, <1>4 DEF Sweep, Swept
  <2> QED BY <1>1, <2>1 DEF Covered
<1>5. CASE o[1] = Order[pos]
  <2>1. o \in found' /\ o = <<o[1], o[2]>>
    BY <1>1, <1>5 DEF Sweep, DrainTypeOK, Objects
  <2> QED BY <2>1 DEF Covered
<1> QED BY <1>3, <1>4, <1>5

LEMMA SweepStep == ASSUME Faults \in Nat PROVE Sweep /\ [Next]_vars => Sweep'
<1> SUFFICES ASSUME Sweep, [Next]_vars PROVE Sweep'
  OBVIOUS
<1>1. DrainTypeOK /\ DrainTypeOK'
  BY TypeStep DEF Sweep
<1>2. Swept'
  <2>1. CASE Cluster
    BY <2>1, ClusterKeepsSwept
  <2>2. CASE Read
    BY <2>2, ReadKeepsSwept
  <2>3. CASE Delete \/ Begin \/ DrainEnds \/ UNCHANGED vars
    <3>1. UNCHANGED <<objs, landed, pos, found, unread>>
      BY <2>3 DEF Delete, Begin, DrainEnds, vars
    <3>2. Swept
      BY DEF Sweep
    <3> QED BY <3>1, <3>2 DEF Swept, HasRead, Covered
  <2>4. CASE ReadFails
    BY <2>4 DEF ReadFails, Swept
  <2>5. CASE TakeAgain
    <3>1. \A s : ~HasRead(s)'
      BY <2>5 DEF TakeAgain, HasRead
    <3> QED BY <3>1 DEF Swept
  <2> QED BY <2>1, <2>2, <2>3, <2>4, <2>5 DEF Next, Drain
<1>3. (~cut => flying = {} /\ landed = {})'
  <2>1. CASE Cluster
    <3>1. PICK o \in Objects : Land(o) \/ Make(o) \/ Vanish(o)
      BY <2>1 DEF Cluster
    <3> QED BY <2>1, <3>1 DEF Cluster, ClusterStep, Land, Make, Vanish, Sweep
  <2>2. CASE Drain \/ UNCHANGED vars
    BY <2>2 DEF Drain, Delete, Begin, Read, ReadFails, DrainEnds, TakeAgain, vars, Sweep
  <2> QED BY <2>1, <2>2 DEF Next
<1>4. (stage = "done" => pos = 13)'
  <2>1. CASE Cluster
    BY <2>1 DEF Cluster, ClusterStep, Sweep
  <2>2. CASE Drain \/ UNCHANGED vars
    BY <2>2, OrderIsASequence
    DEF Drain, Delete, Begin, Read, ReadFails, DrainEnds, TakeAgain, vars, Sweep
  <2> QED BY <2>1, <2>2 DEF Next
<1>5. (stage # "done" => outcome = Contract!Undrained)'
  <2>1. CASE Cluster
    BY <2>1 DEF Cluster, ClusterStep, Sweep, Contract!Undrained
  <2>2. CASE Drain \/ UNCHANGED vars
    BY <2>2 DEF Drain, Delete, Begin, Read, ReadFails, DrainEnds, TakeAgain, vars,
                Sweep, Contract!Undrained
  <2> QED BY <2>1, <2>2 DEF Next
<1> QED BY <1>1, <1>2, <1>3, <1>4, <1>5 DEF Sweep

LEMMA SweepInvariant == ASSUME Faults \in Nat PROVE Spec => []Sweep
<1>1. Init => Sweep
  BY SweepInitially
<1>2. Sweep /\ [Next]_vars => Sweep'
  BY SweepStep
<1> QED BY <1>1, <1>2, PTL DEF Spec

\* A census that has read every source covers every object.
LEMMA FullSweep ==
  ASSUME Sweep, pos = 13, ~unread, NEW o \in objs
  PROVE  Covered(o)
<1>1. o[1] \in SourceSet
  BY DEF Sweep, DrainTypeOK, Objects, SourceSet
<1>2. PICK i \in 1..12 : Order[i] = o[1]
  BY <1>1, EverySourceIsRead
<1>3. HasRead(o[1])
  BY <1>2 DEF HasRead
<1> QED BY <1>3 DEF Sweep, Swept

(* When the drain is over and every source answered, each object that is     *)
(* left is named by the list it returns, itself or by something above it, or *)
(* its create landed during the drain - however the cluster's controllers    *)
(* and the twelve reads of the census interleave.                            *)
THEOREM WhatIsLeftIsNamed == ASSUME Faults \in Nat PROVE Spec => []NothingLeftUnnamed
<1>1. Sweep => NothingLeftUnnamed
  BY FullSweep DEF NothingLeftUnnamed, Covered, Sweep
<1>2. Spec => []Sweep
  BY SweepInvariant
<1> QED BY <1>1, <1>2, PTL

-----------------------------------------------------------------------------
(* The contract                                                              *)

LEMMA ContractStep ==
  ASSUME Sweep, [Next]_vars
  PROVE  [Contract!End]_<<stage # "done", outcome>>
<1>1. CASE Cluster
  BY <1>1 DEF Cluster, ClusterStep
<1>2. CASE DrainEnds
  <2>1. /\ stage # "done" /\ stage' = "done"
        /\ outcome' = [ own |-> found # {}, unread |-> unread,
                        flying |-> cut, left |-> objs # {} ]
        /\ pos = 13
    BY <1>2, OrderIsASequence DEF DrainEnds, Named
  <2>2. outcome' \in Contract!DrainOutcome
    BY <2>1 DEF Contract!DrainOutcome, Sweep, DrainTypeOK
  <2>3. ASSUME found = {}, ~unread, ~cut PROVE objs = {}
    <3>1. landed = {}
      BY <2>3 DEF Sweep
    <3>2. \A o \in objs : Covered(o)
      BY <2>1, <2>3, FullSweep
    <3> QED BY <2>3, <3>1, <3>2 DEF Covered
  <2>4. outcome' \in Contract!DrainOutcomes
    BY <2>1, <2>2, <2>3 DEF Contract!DrainOutcomes
  <2> QED BY <2>1, <2>4 DEF Contract!End
<1>3. CASE Delete \/ Begin \/ Read \/ ReadFails \/ TakeAgain \/ UNCHANGED vars
  <2>1. outcome' = outcome /\ (stage' # "done") = (stage # "done")
    BY <1>3 DEF Delete, Begin, Read, ReadFails, TakeAgain, vars
  <2> QED BY <2>1
<1> QED BY <1>1, <1>2, <1>3 DEF Next, Drain

(* The drain implements its contract: it ends once, and an empty list means  *)
(* that nothing of the run is left, if every source answered its last census *)
(* and the hold left no create in flight.                                    *)
THEOREM DrainImplementsItsContract == ASSUME Faults \in Nat PROVE Spec => ImplementsContract
<1>1. Init => Contract!Init
  BY DEF Init, Contract!Init
<1>2. Sweep /\ [Next]_vars => [Contract!End]_<<stage # "done", outcome>>
  BY ContractStep
<1>3. Spec => []Sweep
  BY SweepInvariant
<1> QED BY <1>1, <1>2, <1>3, PTL DEF Spec, ImplementsContract, Contract!Spec
=============================================================================
