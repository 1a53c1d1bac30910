-------------------------------- MODULE Holds --------------------------------
(***************************************************************************)
(* What a wave is: a container wave's hold, the tasks of a VM wave - a few *)
(* VMs that much befalls, or more of them beside each other - its          *)
(* failed-start case, and a drain. They share no state: a behaviour is of  *)
(* one of them, chosen at the start, the others stay where they began.     *)
(***************************************************************************)
EXTENDS ContainerHold

CONSTANTS
  Parts,                           \* bound: the parts a run looks at
  Few, FewFaults, FewHarms,        \* VmHold's, of the few
  Many, ManyFaults, ManyHarms,     \* and of the many
  CaseFaults, CaseHarms, Tries,    \* FailedStart's
  Drained, Wave, DrainFaults       \* ResidueDrain's

ASSUME PartsAssumption ==
  /\ Parts \subseteq {"containers", "vm", "vms", "failed-start", "drain"}
  /\ Few # {} /\ Many # {}
  /\ {FewFaults, FewHarms, ManyFaults, ManyHarms, CaseFaults, CaseHarms, DrainFaults} \subseteq Nat

VARIABLES
  part,    \* containers | vm | vms | failed-start | drain
  vms, guest, vmFaults, vmHarms, task, joined, vmStage, vmLine, vmFlying, proofs,
  vm, left, fsFaults, fsHarms, pc, seen, uid, says, same, place, found, lines, fsFailed,
  fsFlying, unread, leftAtCensus, upFixed,
  objs, doomed, drainFlying, landed, drainFaults, kind, drainStage, drainTodo, pos,
  drainFound, drainUnread, cut, outcome

vmVars == <<vms, guest, vmFaults, vmHarms, task, joined, vmStage, vmLine, vmFlying, proofs>>

fsVars == <<vm, left, fsFaults, fsHarms, pc, seen, uid, says, same, place, found, lines,
            fsFailed, fsFlying, unread, leftAtCensus, upFixed>>

drainVars == <<objs, doomed, drainFlying, landed, drainFaults, kind, drainStage, drainTodo,
               pos, drainFound, drainUnread, cut, outcome>>

One == INSTANCE VmHold WITH
  Vms <- Few, Faults <- FewFaults, Harms <- FewHarms, faults <- vmFaults, harms <- vmHarms,
  stage <- vmStage, line <- vmLine, flying <- vmFlying

Two == INSTANCE VmHold WITH
  Vms <- Many, Faults <- ManyFaults, Harms <- ManyHarms, faults <- vmFaults, harms <- vmHarms,
  stage <- vmStage, line <- vmLine, flying <- vmFlying

F == INSTANCE FailedStart WITH
  Faults <- CaseFaults, Harms <- CaseHarms, faults <- fsFaults, harms <- fsHarms,
  failed <- fsFailed, flying <- fsFlying

D == INSTANCE ResidueDrain WITH
  Names <- Drained, Faults <- DrainFaults, flying <- drainFlying, faults <- drainFaults,
  stage <- drainStage, todo <- drainTodo, found <- drainFound, unread <- drainUnread

\* A drain's beginnings are many, and each of the other parts has one of them.
HoldsInit ==
  /\ part \in Parts
  /\ Init /\ F!Init /\ D!Init
  /\ part # "drain" => kind = "vms" /\ objs = {} /\ drainFlying = {}
  /\ IF part = "vms" THEN Two!Init ELSE One!Init

HoldsNext ==
  \/ part = "containers" /\ Next /\ UNCHANGED <<part, vmVars, fsVars, drainVars>>
  \/ part = "vm" /\ One!Next /\ UNCHANGED <<part, vars, fsVars, drainVars>>
  \/ part = "vms" /\ Two!Next /\ UNCHANGED <<part, vars, fsVars, drainVars>>
  \/ part = "failed-start" /\ F!Next /\ UNCHANGED <<part, vars, vmVars, drainVars>>
  \/ part = "drain" /\ D!Next /\ UNCHANGED <<part, vars, vmVars, fsVars>>

HoldsSpec == HoldsInit /\ [][HoldsNext]_<<part, vars, vmVars, fsVars, drainVars>>

-----------------------------------------------------------------------------
(* The properties, each of the modules' name for it *)

\* The variables of a behaviour's part are what its module says.
PartTypeOK ==
  CASE part = "containers"   -> TypeOK
    [] part = "vm"           -> One!TypeOK
    [] part = "vms"          -> Two!TypeOK
    [] part = "failed-start" -> F!TypeOK
    [] part = "drain"        -> D!DrainTypeOK

\* A VM wave keeps the contract of a hold.
VmsKeepContract == IF part = "vms" THEN Two!KeepsContract ELSE One!KeepsContract

\* A restart that passed found the package in a later VMI; a key that was added
\* without a restart was.
VmStepsAreProof ==
  IF part = "vms" THEN Two!RestartIsProof /\ Two!KeysWithoutRestart
  ELSE One!RestartIsProof /\ One!KeysWithoutRestart

\* A census that found nothing began with nothing left; a case that has not
\* failed recovered on the fixed template; and what did not pass is told.
CaseIsProof == F!NoResidueIsProof /\ F!RecoveredIsFixed /\ F!FailureIsTold

\* A cluster that does what the Once check asks for passes it.
OnceFailsForItsOwn == F!OnceFailsForItsOwn

\* What is left when a drain ends is named, if every source answered.
NothingLeftUnnamed == D!NothingLeftUnnamed

\* A drain implements its contract.
ImplementsContract == D!ImplementsContract

\* A drain that found nothing left nothing.
PassedDrainIsClean == D!PassedDrainIsClean
=============================================================================
