------------------------------- MODULE VmHold -------------------------------
(***************************************************************************)
(* The hold of a VM wave (long.rs `vm_hold`, wave.rs `hold`): one task per *)
(* VM creates it, waits for it to be up, installs a package, adds a second *)
(* key to the running guest, restarts it and looks for the package. The    *)
(* tasks run beside each other and beside the cluster, and are aborted when *)
(* the window closes.                                                      *)
(***************************************************************************)
EXTENDS HoldVerdict, FiniteSets

CONSTANTS
  Vms,       \* the wave's VMs
  Faults,    \* bound: requests that get no answer, are refused or fail
  Harms      \* bound: what befalls a VM unasked

VARIABLES
  \* the cluster
  vms,       \* the VMs the apiserver has
  guest,     \* the VMI of each VM, and the guest on its disk
  faults, harms,
  \* the driver
  task,      \* the task of each VM
  joined,    \* the VMs whose task was collected
  stage,     \* hold | done
  line,      \* the worst line so far
  flying,    \* ghost: a create may still land
  proofs     \* ghost: what the steps that passed rest on

cluster == <<vms, guest, harms>>

vars == <<cluster, faults, task, joined, stage, line, flying, proofs>>

\* A VMI's generation stands for its UID, a boot's number for its boot id.
Guest ==
  [ gen   : Nat,
    phase : {"none", "pending", "running"},
    boot  : Nat,
    pkg   : BOOLEAN,                        \* on the root disk: the package,
    key   : BOOLEAN,                        \* the second key
    cred  : {"none", "asked", "synced"},    \* of this VMI
    stop  : BOOLEAN ]                       \* a restart is under way

Steps == {"create", "up", "login", "install", "version", "boot", "get", "patch", "sync",
          "second", "old", "put", "again", "ssh", "kept", "ended"}

Task ==
  [ pc     : Steps,
    rdp    : {"open", "pass", "fail"},
    ssh    : {"open", "pass", "fail"},
    boot0  : Nat,          \* the boot id before the key is added
    uid    : Nat,          \* the VMI the key was added to
    old    : Nat,          \* the VMI before the restart, 0: not read
    start  : BOOLEAN,      \* start_ms was set
    failed : BOOLEAN,
    was    : Nat,          \* ghost: the VMI the package was installed in
    patched : Nat ]        \* ghost: the boot the key was asked in

TypeOK ==
  /\ vms \subseteq Vms
  /\ guest \in [Vms -> Guest]
  /\ faults \in 0..Faults /\ harms \in 0..Harms
  /\ task \in [Vms -> Task]
  /\ joined \subseteq { v \in Vms : task[v].pc = "ended" }
  /\ stage \in {"hold", "done"} /\ line \in {"pass", "fail", "infra"}
  /\ flying \in BOOLEAN
  /\ proofs \subseteq [ step : {"restart", "agent-keys"}, read : BOOLEAN,
                        before : Nat, after : Nat ]

Init ==
  /\ vms = {} /\ faults = Faults /\ harms = Harms
  /\ guest = [v \in Vms |-> [ gen |-> 0, phase |-> "none", boot |-> 0, pkg |-> FALSE,
                              key |-> FALSE, cred |-> "none", stop |-> FALSE ]]
  /\ task = [v \in Vms |-> [ pc |-> "create", rdp |-> "open", ssh |-> "open", boot0 |-> 0,
                             uid |-> 0, old |-> 0, start |-> FALSE, failed |-> FALSE,
                             was |-> 0, patched |-> 0 ]]
  /\ joined = {} /\ stage = "hold" /\ line = "pass" /\ flying = FALSE /\ proofs = {}

-----------------------------------------------------------------------------
(* The cluster: stormvm's controllers and the guests *)

Harm == harms > 0 /\ harms' = harms - 1

\* A VMI is made for a VM without one, on its disk or, if that was lost, on a
\* new one.
MakeVmi(v) ==
  /\ v \in vms /\ guest[v].phase = "none"
  /\ LET g == [guest[v] EXCEPT !.gen = @ + 1, !.phase = "pending", !.cred = "none",
                               !.stop = FALSE] IN
       \/ guest' = [guest EXCEPT ![v] = g] /\ UNCHANGED harms
       \/ guest' = [guest EXCEPT ![v] = [g EXCEPT !.pkg = FALSE, !.key = FALSE]] /\ Harm

\* Running with an address.
RunVmi(v) ==
  /\ guest[v].phase = "pending"
  /\ guest' = [guest EXCEPT ![v].phase = "running", ![v].boot = @ + 1]
  /\ UNCHANGED harms

\* Its VMI goes: asked for by a restart, or not.
StopVmi(v) ==
  /\ guest[v].phase # "none"
  /\ guest' = [guest EXCEPT ![v].phase = "none"]
  /\ IF guest[v].stop THEN UNCHANGED harms ELSE Harm

Reboot(v) ==
  /\ guest[v].phase = "running" /\ Harm
  /\ guest' = [guest EXCEPT ![v].boot = @ + 1]

\* The guest agent writes the key, and the VMI says so.
Sync(v) ==
  /\ guest[v].phase = "running" /\ guest[v].cred = "asked"
  /\ guest' = [guest EXCEPT ![v].cred = "synced", ![v].key = TRUE]
  /\ UNCHANGED harms

Cluster ==
  /\ stage = "hold"
  /\ \E v \in Vms : MakeVmi(v) \/ RunVmi(v) \/ StopVmi(v) \/ Reboot(v) \/ Sync(v)
  /\ UNCHANGED <<vms, faults, task, joined, stage, line, flying, proofs>>

-----------------------------------------------------------------------------
(* The driver: a VM's task *)

Fault == faults > 0 /\ faults' = faults - 1

Emit(l) ==
  line' = IF "fail" \in {line, l} THEN "fail" ELSE IF "infra" \in {line, l} THEN "infra" ELSE "pass"

At(v, pc) == stage = "hold" /\ task[v].pc = pc

Goto(v, pc) == task' = [task EXCEPT ![v].pc = pc]

Fail(v, pc) == task' = [task EXCEPT ![v].pc = pc, ![v].failed = TRUE]

Up(v) == guest[v].phase = "running"

\* What a task leaves alone when it only looks.
Looks == UNCHANGED <<cluster, joined, stage, flying>>

\* It failed, or could not run: a dependency was given up on.
Failure ==
  \/ Emit("fail") /\ UNCHANGED faults
  \/ Emit("infra") /\ Fault

\* A create that fails is a failure, given up on or not.
Create(v) ==
  /\ At(v, "create")
  /\ \/ /\ vms' = vms \cup {v} /\ Goto(v, "up")
        /\ UNCHANGED <<faults, line, flying>>
     \/ /\ Fault /\ Emit("fail") /\ Fail(v, "ended")
        /\ vms' \in {vms, vms \cup {v}} /\ flying' \in {flying, TRUE}
  /\ UNCHANGED <<guest, harms, joined, stage, proofs>>

\* wait_up, with no VMI to tell it from.
WaitUp(v) ==
  /\ At(v, "up")
  /\ \/ Up(v) /\ Goto(v, "login") /\ UNCHANGED <<faults, line>>
     \/ Fail(v, "ended") /\ Failure
  /\ Looks /\ UNCHANGED proofs

\* RDP and ssh are tried beside each other, until they answer or time runs out.
TryRdp(v) ==
  /\ At(v, "login") /\ task[v].rdp = "open"
  /\ \/ Up(v) /\ task' = [task EXCEPT ![v].rdp = "pass"]
     \/ task' = [task EXCEPT ![v].rdp = "fail"]
  /\ Looks /\ UNCHANGED <<faults, line, proofs>>

TrySsh(v) ==
  /\ At(v, "login") /\ task[v].ssh = "open"
  /\ \/ Up(v) /\ task' = [task EXCEPT ![v].ssh = "pass"]
     \/ task' = [task EXCEPT ![v].ssh = "fail"]
  /\ Looks /\ UNCHANGED <<faults, line, proofs>>

\* Without RDP the VM has failed and goes on; without ssh it ends.
LoginEnds(v) ==
  LET t == task[v] IN
  /\ At(v, "login") /\ "open" \notin {t.rdp, t.ssh}
  /\ Emit(IF "fail" \in {t.rdp, t.ssh} THEN "fail" ELSE "pass")
  /\ task' = [task EXCEPT ![v].pc = IF t.ssh = "pass" THEN "install" ELSE "ended",
                          ![v].start = t.ssh = "pass",
                          ![v].failed = "fail" \in {t.rdp, t.ssh}]
  /\ Looks /\ UNCHANGED <<faults, proofs>>

Install(v) ==
  /\ At(v, "install") /\ Up(v)
  /\ guest' = [guest EXCEPT ![v].pkg = TRUE]
  /\ task' = [task EXCEPT ![v].pc = "version", ![v].was = guest[v].gen]
  /\ UNCHANGED <<vms, harms, faults, joined, stage, line, flying, proofs>>

ReadVersion(v) ==
  /\ At(v, "version") /\ Up(v) /\ guest[v].pkg /\ Goto(v, "boot")
  /\ Looks /\ UNCHANGED <<faults, line, proofs>>

InstallFails(v) ==
  /\ \/ At(v, "install") /\ \E p \in BOOLEAN : guest' = [guest EXCEPT ![v].pkg = @ \/ (p /\ Up(v))]
     \/ At(v, "version") /\ UNCHANGED guest
  /\ Fail(v, "ended") /\ Emit("fail")
  /\ UNCHANGED <<vms, harms, faults, joined, stage, flying, proofs>>

-----------------------------------------------------------------------------
(* The driver: the second key *)

ReadBoot(v) ==
  /\ At(v, "boot") /\ Up(v)
  /\ task' = [task EXCEPT ![v].pc = "get", ![v].boot0 = guest[v].boot]
  /\ Looks /\ UNCHANGED <<faults, line, proofs>>

ReadVmi(v) ==
  /\ At(v, "get") /\ guest[v].phase # "none"
  /\ task' = [task EXCEPT ![v].pc = "patch", ![v].uid = guest[v].gen]
  /\ Looks /\ UNCHANGED <<faults, line, proofs>>

\* The patch names the VM, not the VMI that was read.
Patched(v) == guest' = [guest EXCEPT ![v].cred = "asked"]

Patch(v) ==
  /\ At(v, "patch") /\ guest[v].phase # "none" /\ Patched(v)
  /\ task' = [task EXCEPT ![v].pc = "sync", ![v].patched = guest[v].boot]
  /\ UNCHANGED <<vms, harms, faults, joined, stage, line, flying, proofs>>

LookSynced(v) ==
  /\ At(v, "sync") /\ guest[v].phase # "none"
  /\ guest[v].gen = task[v].uid /\ guest[v].cred = "synced"
  /\ Goto(v, "second")
  /\ Looks /\ UNCHANGED <<faults, line, proofs>>

SameBoot(v) == guest[v].boot = task[v].boot0

\* ssh with the second key: into the same boot, or it is looked again.
SecondLogin(v) ==
  /\ At(v, "second")
  /\ \/ /\ Up(v) /\ guest[v].key /\ SameBoot(v)
        /\ Goto(v, "old")
        /\ proofs' = proofs \cup {[ step |-> "agent-keys", read |-> TRUE,
                                    before |-> task[v].patched, after |-> guest[v].boot ]}
     \/ ~(Up(v) /\ guest[v].key) /\ Goto(v, "sync") /\ UNCHANGED proofs
  /\ Looks /\ UNCHANGED <<faults, line>>

\* A request or a login fails, the VMI or the boot is another, or time runs
\* out: the VM has failed, and goes on.
KeysFail(v) ==
  /\ \/ \E pc \in {"boot", "get", "patch", "sync", "second"} : At(v, pc) /\ UNCHANGED guest
     \/ At(v, "patch") /\ guest[v].phase # "none" /\ Patched(v)
  /\ Fail(v, "old") /\ Failure
  /\ UNCHANGED <<vms, harms, joined, stage, flying, proofs>>

-----------------------------------------------------------------------------
(* The driver: the restart *)

\* The VMI's UID; a read that fails, or of no VMI, is the empty string.
ReadOldUid(v) ==
  /\ At(v, "old")
  /\ \/ /\ task' = [task EXCEPT ![v].pc = "put",
                                ![v].old = IF guest[v].phase = "none" THEN 0 ELSE guest[v].gen]
        /\ UNCHANGED faults
     \/ Goto(v, "put") /\ Fault
  /\ Looks /\ UNCHANGED <<line, proofs>>

\* A restart that is accepted may still do nothing.
Asked(v) ==
  \E s \in BOOLEAN : guest' = [guest EXCEPT ![v].stop = @ \/ (s /\ guest[v].phase # "none")]

PutRestart(v) ==
  /\ At(v, "put") /\ Asked(v) /\ Goto(v, "again")
  /\ UNCHANGED <<vms, harms, faults, joined, stage, line, flying, proofs>>

IsThere(v) == guest[v].gen # 0

\* wait_up with the old UID not counting.
IsNew(v) == guest[v].gen # task[v].old

WaitUpAgain(v) ==
  /\ At(v, "again") /\ Up(v) /\ IsNew(v) /\ Goto(v, "ssh")
  /\ Looks /\ UNCHANGED <<faults, line, proofs>>

SshAgain(v) ==
  /\ At(v, "ssh") /\ Up(v) /\ Goto(v, "kept")
  /\ Looks /\ UNCHANGED <<faults, line, proofs>>

\* The package is still there, in the same version.
Kept(v) ==
  /\ At(v, "kept") /\ Up(v) /\ guest[v].pkg /\ Goto(v, "ended")
  /\ proofs' = proofs \cup {[ step |-> "restart", read |-> task[v].old # 0,
                              before |-> task[v].was, after |-> guest[v].gen ]}
  /\ Looks /\ UNCHANGED <<faults, line>>

RestartFails(v) ==
  /\ \/ \E pc \in {"put", "again", "ssh", "kept"} : At(v, pc) /\ UNCHANGED guest
     \/ At(v, "put") /\ Asked(v)
  /\ Fail(v, "ended") /\ Failure
  /\ UNCHANGED <<vms, harms, joined, stage, flying, proofs>>

VmTask(v) ==
  \/ Create(v) \/ WaitUp(v) \/ TryRdp(v) \/ TrySsh(v) \/ LoginEnds(v)
  \/ Install(v) \/ ReadVersion(v) \/ InstallFails(v)
  \/ ReadBoot(v) \/ ReadVmi(v) \/ Patch(v) \/ LookSynced(v) \/ SecondLogin(v) \/ KeysFail(v)
  \/ ReadOldUid(v) \/ PutRestart(v) \/ WaitUpAgain(v) \/ SshAgain(v) \/ Kept(v)
  \/ RestartFails(v)

-----------------------------------------------------------------------------
(* The driver: collecting the tasks *)

Join(v) ==
  /\ At(v, "ended") /\ v \notin joined /\ joined' = joined \cup {v}
  /\ UNCHANGED <<cluster, faults, task, stage, line, flying, proofs>>

AllJoined ==
  /\ stage = "hold" /\ joined = Vms /\ stage' = "done"
  /\ UNCHANGED <<cluster, faults, task, joined, line, flying, proofs>>

\* Every task is aborted where it is: a create it is in may still land.
WindowCloses ==
  /\ stage = "hold" /\ joined # Vms /\ stage' = "done" /\ Emit("fail")
  /\ flying' \in {flying, \E v \in Vms : task[v].pc = "create"}
  /\ UNCHANGED <<cluster, faults, task, joined, proofs>>

Next ==
  \/ Cluster
  \/ \E v \in Vms : VmTask(v) \/ Join(v)
  \/ AllJoined \/ WindowCloses

Spec == Init /\ [][Next]_vars

-----------------------------------------------------------------------------
(* Properties *)

FailedOfCollected == { v \in joined : task[v].failed }

\* Those that failed, and those that were not collected.
Failed == { v \in joined : task[v].failed } \cup (Vms \ joined)

\* What run_wave gets.
Outcome ==
  [ failed |-> Failed # {}, line |-> line,
    start |-> IF \E v \in joined : task[v].start THEN 1 ELSE None,
    flying |-> flying ]

\* It keeps the contract of a hold, wherever the window closes: what did not
\* fail was measured, and a create given up on or aborted is told.
KeepsContract == stage = "done" => Outcome \in HonestHolds

\* A restart that passed, its VM's UID read before, found the package in a
\* later VMI than the one it was installed in - though the VMI that was read is
\* not the one of the install if it was replaced in between, and the one that is
\* logged into not the one that was seen up.
RestartIsProof ==
  \A p \in proofs : p.step = "restart" /\ p.read => p.after > p.before

\* A key that was added without a restart was: the second key was accepted in
\* the boot its patch was made in, though the VMI is read, patched and looked
\* at by name.
KeysWithoutRestart == \A p \in proofs : p.step = "agent-keys" => p.after = p.before
=============================================================================
