------------------------------- MODULE VmMove -------------------------------
(***************************************************************************)
(* The mobility suite's VM tests (mobility.rs `vm_live`, `vm_cold`): a     *)
(* running VM with a checksum loop is migrated to another node, or a VM    *)
(* with a checksummed file is stopped, its disks moved, and started there. *)
(* Migrations and moves are other components': they may not answer, fail,  *)
(* misplace the VM, or do it by a new VMI.                                 *)
(***************************************************************************)
EXTENDS Naturals

CONSTANTS
  Faults,    \* bound: requests that get no answer
  Harms,     \* bound: what befalls the VM unasked
  Rounds     \* bound: rounds of the guest's loop that are told apart

VARIABLES
  \* the cluster
  runs,      \* the VM's spec.running
  vmi,       \* its VMI
  disk,      \* its root disk
  loop,      \* the checksum loop runs in the guest
  move,      \* what the migration, or storm.io/move-state, says
  faults, harms,
  \* the driver
  test,      \* live | cold
  pc,
  first,     \* what `up` returned: the VMI and its node
  seen,      \* the guest's state before the migration
  now,       \* the VMI after it
  result,    \* none | pass | fail | skip | infra
  \* ghosts
  since,     \* what happened since the guest's state, or its file, was taken
  read       \* the VMI whose guest was asked last

cluster == <<runs, vmi, disk, loop, move, harms>>

driver == <<test, pc, first, seen, now, result, read>>

vars == <<cluster, driver, faults, since>>

Nodes == {"A", "B", "C"}

\* main has seen to it that there is another Ready node than A.
Target == "B"

\* A VMI's generation stands for its UID, a boot's number for its boot id.
Vmi ==
  [ gen : Nat, phase : {"none", "pending", "running"}, node : Nodes, boot : Nat ]

Disk ==
  [ at : Nodes, file : {"none", "whole", "damaged"}, rounds : 0..Rounds, bad : BOOLEAN ]

Events == {"live", "reboot", "new", "mismatch", "lost", "moved"}

TypeOK ==
  /\ runs \in BOOLEAN /\ vmi \in Vmi /\ disk \in Disk /\ loop \in BOOLEAN
  /\ move \in {"none", "asked", "progress", "done", "failed", "unset"}
  /\ faults \in 0..Faults /\ harms \in 0..Harms
  /\ test \in {"live", "cold"}
  /\ pc \in {"api", "create", "up", "loop", "state", "migrate", "poll", "look", "after",
             "write", "stop", "stopped", "annotate", "wait", "start", "again", "read", "done"}
  /\ first \in [ gen : Nat, node : Nodes ]
  /\ seen \in [ boot : Nat, rounds : 0..Rounds ]
  /\ now \in [ gen : Nat, node : Nodes ]
  /\ result \in {"none", "pass", "fail", "skip", "infra"}
  /\ since \subseteq Events /\ read \in Nat

Init ==
  /\ runs = FALSE /\ loop = FALSE /\ move = "none"
  /\ vmi = [ gen |-> 0, phase |-> "none", node |-> "A", boot |-> 0 ]
  /\ disk = [ at |-> "A", file |-> "none", rounds |-> 0, bad |-> FALSE ]
  /\ faults = Faults /\ harms = Harms
  /\ test \in {"live", "cold"} /\ pc = IF test = "live" THEN "api" ELSE "create"
  /\ first = [ gen |-> 0, node |-> "A" ] /\ now = first
  /\ seen = [ boot |-> 0, rounds |-> 0 ]
  /\ result = "none" /\ since = {} /\ read = 0

-----------------------------------------------------------------------------
(* The cluster *)

Harm == harms > 0 /\ harms' = harms - 1

Happens(e) == since' = since \cup {e}

Running == vmi.phase = "running"

\* A VMI of a VM that is to run starts where its disk is.
MakeVmi ==
  /\ runs /\ vmi.phase = "none"
  /\ vmi' = [vmi EXCEPT !.gen = @ + 1, !.phase = "pending", !.node = disk.at]
  /\ Happens("new") /\ UNCHANGED <<runs, disk, loop, move, harms>>

BootVmi ==
  /\ vmi.phase = "pending"
  /\ vmi' = [vmi EXCEPT !.phase = "running", !.boot = @ + 1]
  /\ UNCHANGED <<runs, disk, loop, move, harms, since>>

\* A VMI goes: it is to stop, or not.
StopVmi ==
  /\ vmi.phase # "none" /\ vmi' = [vmi EXCEPT !.phase = "none"] /\ loop' = FALSE
  /\ IF runs THEN Harm ELSE UNCHANGED harms
  /\ UNCHANGED <<runs, disk, move, since>>

Reboot ==
  /\ Running /\ Harm /\ vmi' = [vmi EXCEPT !.boot = @ + 1] /\ loop' = FALSE
  /\ Happens("reboot") /\ UNCHANGED <<runs, disk, move>>

\* A round of the loop: what is read back is what was written, or not.
Round ==
  /\ Running /\ loop /\ disk.rounds < Rounds
  /\ \/ disk' = [disk EXCEPT !.rounds = @ + 1] /\ UNCHANGED <<harms, since>>
     \/ /\ disk' = [disk EXCEPT !.rounds = @ + 1, !.bad = TRUE]
        /\ Harm /\ Happens("mismatch")
  /\ UNCHANGED <<runs, vmi, loop, move>>

\* The migration, or the move, is taken up.
Answer ==
  /\ move = "asked" /\ move' = "progress"
  /\ UNCHANGED <<runs, vmi, disk, loop, harms, since>>

Elsewhere == { n \in Nodes : n # vmi.node }

\* A live migration ends: the guest is on another node, with its memory. Or it is
\* not, or it was started anew there.
Migrate ==
  /\ test = "live" /\ move = "progress" /\ Running /\ move' = "done"
  /\ \/ /\ \E n \in Elsewhere : vmi' = [vmi EXCEPT !.node = n]
        /\ Happens("live") /\ UNCHANGED <<loop, harms>>
     \/ Harm /\ UNCHANGED <<vmi, loop, since>>
     \/ /\ Harm /\ loop' = FALSE /\ Happens("new")
        /\ \E n \in Elsewhere : vmi' = [vmi EXCEPT !.node = n, !.gen = @ + 1, !.boot = @ + 1]
  /\ disk' = [disk EXCEPT !.at = vmi'.node]
  /\ UNCHANGED runs

\* A cold move ends: the disks are on B, or elsewhere, or not what they were.
MoveDisks ==
  /\ test = "cold" /\ move = "progress" /\ vmi.phase = "none" /\ move' = "done"
  /\ \/ disk' = [disk EXCEPT !.at = Target] /\ Happens("moved") /\ UNCHANGED harms
     \/ Harm /\ UNCHANGED since /\ \E n \in Nodes : disk' = [disk EXCEPT !.at = n]
     \/ /\ Harm /\ Happens("lost")
        /\ \E f \in {"none", "damaged"} : disk' = [disk EXCEPT !.at = Target, !.file = f]
  /\ UNCHANGED <<runs, vmi, loop>>

\* It fails: for the kubelet's missing settings, or otherwise.
MoveFails ==
  /\ move = "progress" /\ move' \in {"failed", "unset"}
  /\ UNCHANGED <<runs, vmi, disk, loop, harms, since>>

Cluster ==
  /\ pc # "done"
  /\ \/ MakeVmi \/ BootVmi \/ StopVmi \/ Reboot \/ Round
     \/ Answer \/ Migrate \/ MoveDisks \/ MoveFails
  /\ UNCHANGED <<driver, faults>>

-----------------------------------------------------------------------------
(* The driver *)

Fault == faults > 0 /\ faults' = faults - 1

Return(r) == pc' = "done" /\ result' = r

Goto(p) == pc' = p /\ UNCHANGED result

At(p) == pc = p

\* What was asked for is refused, ssh fails or time runs out; or a dependency was
\* given up on.
Failure ==
  \/ Return("fail") /\ UNCHANGED faults
  \/ Return("infra") /\ Fault

\* The driver only looks.
Looks == UNCHANGED <<cluster, test>>

\* Whether the apiserver has migrations at all.
ReadApi ==
  /\ At("api")
  /\ \/ Goto("create") \/ Return("skip") \/ Return("infra")
  /\ Looks /\ UNCHANGED <<first, seen, now, faults, since, read>>

CreateVm ==
  /\ At("create")
  /\ \/ runs' = TRUE /\ Goto("up") /\ UNCHANGED faults
     \/ runs' \in BOOLEAN /\ Failure
  /\ UNCHANGED <<vmi, disk, loop, move, harms, test, first, seen, now, since, read>>

\* `up`: Running with an address, and ssh answers. Time runs out as a failure, or
\* as an infra one while the golden image is waited for.
Up ==
  /\ At("up")
  /\ \/ /\ Running /\ first' = [ gen |-> vmi.gen, node |-> vmi.node ]
        /\ Goto(IF test = "live" THEN "loop" ELSE "write") /\ UNCHANGED faults
     \/ (Return("fail") \/ Return("infra")) /\ UNCHANGED <<first, faults>>
  /\ Looks /\ UNCHANGED <<seen, now, since, read>>

-----------------------------------------------------------------------------
(* The driver: vm_live *)

\* The loop is started; a session that fails may have started it.
StartLoop ==
  /\ At("loop")
  /\ \/ Running /\ loop' = TRUE /\ Goto("state") /\ UNCHANGED faults
     \/ loop' \in {loop, Running} /\ Failure
  /\ UNCHANGED <<runs, vmi, disk, move, harms, test, first, seen, now, since, read>>

ReadState ==
  /\ At("state")
  /\ \/ /\ Running /\ Goto("migrate") /\ UNCHANGED faults
        /\ seen' = [ boot |-> vmi.boot, rounds |-> disk.rounds ]
     \/ Failure /\ UNCHANGED seen
  /\ since' = {} /\ Looks /\ UNCHANGED <<first, now, read>>

CreateMigration ==
  /\ At("migrate")
  /\ \/ move' = "asked" /\ Goto("poll") /\ UNCHANGED faults
     \/ move' \in {move, "asked"} /\ Failure
  /\ UNCHANGED <<runs, vmi, disk, loop, harms, test, first, seen, now, since, read>>

\* The migration as the VMI and the migration object say it is; if the latter is
\* not read, the VMI may not say it yet.
Seen(m) ==
  \/ m = move /\ UNCHANGED faults
  \/ m = "asked" /\ Fault

\* The end of it; or nothing started it, or it did not end, in time. A VMI that
\* is not there is a failure.
Poll ==
  /\ At("poll")
  /\ \/ /\ vmi.phase # "none"
        /\ \E m \in {"asked", "progress", "done", "failed", "unset"} :
             /\ Seen(m)
             /\ CASE m = "done"                  -> Goto("look")
                  [] m \in {"asked", "unset"}     -> Return("skip")
                  [] m \in {"progress", "failed"} -> Return("fail")
     \/ Failure
  /\ Looks /\ UNCHANGED <<first, seen, now, since, read>>

Look ==
  /\ At("look")
  /\ \/ /\ vmi.phase # "none" /\ now' = [ gen |-> vmi.gen, node |-> vmi.node ]
        /\ Goto("after") /\ UNCHANGED faults
     \/ Failure /\ UNCHANGED now
  /\ Looks /\ UNCHANGED <<first, seen, since, read>>

NotRebooted == vmi.boot = seen.boot

SameVmi == now.gen = first.gen

LivePassedByBoot ==
  /\ now.node # first.node /\ SameVmi
  /\ ~disk.bad /\ disk.rounds > seen.rounds

\* It is elsewhere, in the same VMI and boot, and the loop went on and never
\* failed.
LivePassed ==
  /\ now.node # first.node /\ SameVmi /\ NotRebooted
  /\ ~disk.bad /\ disk.rounds > seen.rounds

JudgeLive ==
  /\ At("after")
  /\ \/ /\ Running /\ Return(IF LivePassed THEN "pass" ELSE "fail")
        /\ read' = vmi.gen /\ UNCHANGED faults
     \/ Failure /\ UNCHANGED read
  /\ Looks /\ UNCHANGED <<first, seen, now, since>>

-----------------------------------------------------------------------------
(* The driver: vm_cold *)

WriteFile ==
  /\ At("write")
  /\ \/ Running /\ disk' = [disk EXCEPT !.file = "whole"] /\ Goto("stop") /\ UNCHANGED faults
     \/ UNCHANGED disk /\ Failure
  /\ since' = {}
  /\ UNCHANGED <<runs, vmi, loop, move, harms, test, first, seen, now, read>>

SetRunning(from, on, to) ==
  /\ At(from)
  /\ \/ runs' = on /\ Goto(to) /\ UNCHANGED faults
     \/ runs' \in {runs, on} /\ Failure
  /\ UNCHANGED <<vmi, disk, loop, move, harms, test, first, seen, now, since, read>>

Stop == SetRunning("stop", FALSE, "stopped")

Start == SetRunning("start", TRUE, "again")

\* wait_404 of the VMI.
WaitStopped ==
  /\ At("stopped")
  /\ \/ vmi.phase = "none" /\ Goto("annotate")
     \/ Return("fail")
  /\ Looks /\ UNCHANGED <<first, seen, now, faults, since, read>>

Annotate ==
  /\ At("annotate")
  /\ \/ move' = "asked" /\ Goto("wait") /\ UNCHANGED faults
     \/ move' \in {move, "asked"} /\ Failure
  /\ UNCHANGED <<runs, vmi, disk, loop, harms, test, first, seen, now, since, read>>

\* wait_move: of no answer, a skip; of an answer that fails, or lasts, a fail.
WaitMove ==
  /\ At("wait")
  /\ \/ move = "done" /\ Goto("start") /\ UNCHANGED faults
     \/ move = "asked" /\ Return("skip") /\ UNCHANGED faults
     \/ move \in {"progress", "failed", "unset"} /\ Return("fail") /\ UNCHANGED faults
     \/ Failure
  /\ Looks /\ UNCHANGED <<first, seen, now, since, read>>

\* `up` of another VMI than the first.
UpAgain ==
  /\ At("again")
  /\ \/ /\ Running /\ vmi.gen # first.gen /\ now' = [ gen |-> vmi.gen, node |-> vmi.node ]
        /\ Goto("read")
     \/ (Return("fail") \/ Return("infra")) /\ UNCHANGED now
  /\ Looks /\ UNCHANGED <<first, seen, faults, since, read>>

\* It is on B, with the file that was written.
ColdPassed == now.node = Target /\ disk.file = "whole"

\* A file that cannot be read is not the one that was written.
JudgeCold ==
  /\ At("read")
  /\ \/ Running /\ Return(IF ColdPassed THEN "pass" ELSE "fail") /\ read' = vmi.gen
     \/ Return("fail") /\ UNCHANGED read
  /\ Looks /\ UNCHANGED <<first, seen, now, faults, since>>

Next ==
  \/ Cluster
  \/ ReadApi \/ CreateVm \/ Up
  \/ StartLoop \/ ReadState \/ CreateMigration \/ Poll \/ Look \/ JudgeLive
  \/ WriteFile \/ Stop \/ WaitStopped \/ Annotate \/ WaitMove \/ Start \/ UpAgain \/ JudgeCold

Spec == Init /\ [][Next]_vars

-----------------------------------------------------------------------------
(* Properties *)

\* A live migration that passes was one: since the guest's state was taken it
\* went to another node with its memory, and was neither rebooted nor started
\* anew, and no round of its loop read back other bytes than it wrote.
LivePassIsProof ==
  result = "pass" /\ test = "live" =>
    "live" \in since /\ since \cap {"reboot", "new", "mismatch"} = {}

\* A cold move that passes was one: the guest that was asked for the file is in a
\* later VMI than the one that wrote it, and the disks went to B and lost nothing.
ColdPassIsProof ==
  result = "pass" /\ test = "cold" =>
    read > first.gen /\ disk.at = Target /\ "lost" \notin since
=============================================================================
