---------------------------- MODULE VmHoldProofs ----------------------------
(***************************************************************************)
(* Proofs about VmHold, for any VMs, any number of requests that fail and  *)
(* of what befalls a VM.                                                   *)
(***************************************************************************)
EXTENDS VmHold, TLAPS

-----------------------------------------------------------------------------
(* Types *)

\* A step of one task, which has not ended, leaves every other as it is.
LEMMA OneTaskChanges ==
  ASSUME TypeOK, NEW v \in Vms, task[v].pc # "ended", NEW t \in Task,
         task' = [task EXCEPT ![v] = t]
  PROVE  /\ task' \in [Vms -> Task] /\ task'[v] = t
         /\ \A w \in Vms \ {v} : task'[w] = task[w]
         /\ v \notin joined
         /\ joined \subseteq { w \in Vms : task'[w].pc = "ended" }
  BY DEF TypeOK

\* So does a step of one VMI, or of the guest in it.
LEMMA OneGuestChanges ==
  ASSUME TypeOK, NEW v \in Vms, NEW g \in Guest, guest' = [guest EXCEPT ![v] = g]
  PROVE  /\ guest' \in [Vms -> Guest] /\ guest'[v] = g
         /\ \A w \in Vms \ {v} : guest'[w] = guest[w]
  BY DEF TypeOK

\* What a task may become.
LEMMA TasksStayTasks ==
  ASSUME NEW t \in Task
  PROVE  /\ \A pc \in Steps : [t EXCEPT !.pc = pc] \in Task
         /\ \A pc \in Steps : [t EXCEPT !.pc = pc, !.failed = TRUE] \in Task
         /\ \A r \in {"pass", "fail"} : [t EXCEPT !.rdp = r] \in Task
         /\ \A r \in {"pass", "fail"} : [t EXCEPT !.ssh = r] \in Task
         /\ \A pc \in Steps, s, f \in BOOLEAN :
              [t EXCEPT !.pc = pc, !.start = s, !.failed = f] \in Task
         /\ \A pc \in Steps, n \in Nat :
              /\ [t EXCEPT !.pc = pc, !.was = n] \in Task
              /\ [t EXCEPT !.pc = pc, !.boot0 = n] \in Task
              /\ [t EXCEPT !.pc = pc, !.uid = n] \in Task
              /\ [t EXCEPT !.pc = pc, !.patched = n] \in Task
              /\ [t EXCEPT !.pc = pc, !.old = n] \in Task
  BY DEF Task

LEMMA GuestsStayGuests ==
  ASSUME NEW g \in Guest
  PROVE  /\ \A n \in Nat : [g EXCEPT !.gen = n, !.phase = "pending", !.cred = "none",
                                      !.stop = FALSE] \in Guest
         /\ [g EXCEPT !.pkg = FALSE, !.key = FALSE] \in Guest
         /\ \A n \in Nat : [g EXCEPT !.phase = "running", !.boot = n] \in Guest
         /\ \A n \in Nat : [g EXCEPT !.boot = n] \in Guest
         /\ [g EXCEPT !.phase = "none"] \in Guest
         /\ [g EXCEPT !.cred = "synced", !.key = TRUE] \in Guest
         /\ [g EXCEPT !.cred = "asked"] \in Guest
         /\ \A b \in BOOLEAN : [g EXCEPT !.pkg = b] \in Guest
         /\ \A b \in BOOLEAN : [g EXCEPT !.stop = b] \in Guest
  BY DEF Guest

\* The guests change, and a VMI and a boot are only followed by later ones.
GuestsGoOn ==
  /\ guest' \in [Vms -> Guest]
  /\ \A v \in Vms : guest'[v].gen >= guest[v].gen /\ guest'[v].boot >= guest[v].boot

LEMMA OneGuestGoesOn ==
  ASSUME TypeOK, NEW v \in Vms, NEW g \in Guest, guest' = [guest EXCEPT ![v] = g],
         g.gen >= guest[v].gen, g.boot >= guest[v].boot
  PROVE  GuestsGoOn
<1>1. \A w \in Vms : guest[w].gen \in Nat /\ guest[w].boot \in Nat
  BY DEF TypeOK, Guest
<1>2. guest' \in [Vms -> Guest] /\ guest'[v] = g /\ \A w \in Vms \ {v} : guest'[w] = guest[w]
  BY OneGuestChanges
<1>3. ASSUME NEW w \in Vms PROVE guest'[w].gen >= guest[w].gen /\ guest'[w].boot >= guest[w].boot
  <2>1. CASE w = v
    BY <1>2, <2>1
  <2>2. CASE w # v
    <3>1. guest'[w] = guest[w]
      BY <1>2, <2>2
    <3> QED BY <1>1, <3>1
  <2> QED BY <2>1, <2>2
<1> QED BY <1>2, <1>3 DEF GuestsGoOn

LEMMA ClusterMoves ==
  ASSUME TypeOK, Harms \in Nat, Cluster
  PROVE  /\ GuestsGoOn /\ harms' \in 0..Harms
         /\ UNCHANGED <<vms, faults, task, joined, stage, line, flying, proofs>>
<1>1. UNCHANGED <<vms, faults, task, joined, stage, line, flying, proofs>>
  BY DEF Cluster
<1>2. PICK v \in Vms : MakeVmi(v) \/ RunVmi(v) \/ StopVmi(v) \/ Reboot(v) \/ Sync(v)
  BY DEF Cluster
<1>. DEFINE g == guest[v]
<1>3. g \in Guest /\ g.gen \in Nat /\ g.boot \in Nat /\ g = guest[v]
  BY DEF TypeOK, Guest
<1>. HIDE DEF g
<1>4. harms' \in 0..Harms
  BY <1>2 DEF TypeOK, Harm, MakeVmi, RunVmi, StopVmi, Reboot, Sync
<1>5. ASSUME MakeVmi(v) PROVE GuestsGoOn
  <2>. DEFINE h == [g EXCEPT !.gen = g.gen + 1, !.phase = "pending", !.cred = "none",
                             !.stop = FALSE]
              i == [h EXCEPT !.pkg = FALSE, !.key = FALSE]
  <2>1. h \in Guest /\ h.gen = g.gen + 1 /\ h.boot = g.boot
    <3>0. g.gen + 1 \in Nat
      BY <1>3
    <3>1. h \in Guest
      BY <3>0, <1>3, GuestsStayGuests
    <3> QED BY <1>3, <3>1 DEF Guest
  <2>2. i \in Guest /\ i.gen = g.gen + 1 /\ i.boot = g.boot
    <3>1. i \in Guest
      BY <2>1, GuestsStayGuests
    <3> QED BY <2>1, <3>1 DEF Guest
  <2>3. guest' = [guest EXCEPT ![v] = h] \/ guest' = [guest EXCEPT ![v] = i]
    BY <1>3, <1>5 DEF MakeVmi, TypeOK
  <2>. HIDE DEF h, i
  <2>4. h.gen >= g.gen /\ h.boot >= g.boot /\ i.gen >= g.gen /\ i.boot >= g.boot
    BY <1>3, <2>1, <2>2
  <2> QED BY <1>3, <2>1, <2>2, <2>3, <2>4, OneGuestGoesOn
<1>6. ASSUME RunVmi(v) PROVE GuestsGoOn
  <2>. DEFINE h == [g EXCEPT !.phase = "running", !.boot = g.boot + 1]
  <2>1. h \in Guest /\ h.gen = g.gen /\ h.boot = g.boot + 1
    <3>0. g.boot + 1 \in Nat
      BY <1>3
    <3>1. h \in Guest
      BY <3>0, <1>3, GuestsStayGuests
    <3> QED BY <1>3, <3>1 DEF Guest
  <2>2. guest' = [guest EXCEPT ![v] = h]
    BY <1>3, <1>6 DEF RunVmi, TypeOK
  <2>. HIDE DEF h
  <2>3. h.gen >= g.gen /\ h.boot >= g.boot
    BY <1>3, <2>1
  <2> QED BY <1>3, <2>1, <2>2, <2>3, OneGuestGoesOn
<1>7. ASSUME StopVmi(v) PROVE GuestsGoOn
  <2>. DEFINE h == [g EXCEPT !.phase = "none"]
  <2>1. h \in Guest /\ h.gen = g.gen /\ h.boot = g.boot
    <3>1. h \in Guest
      BY <1>3, GuestsStayGuests
    <3> QED BY <1>3, <3>1 DEF Guest
  <2>2. guest' = [guest EXCEPT ![v] = h]
    BY <1>3, <1>7 DEF StopVmi, TypeOK
  <2>. HIDE DEF h
  <2>3. h.gen >= g.gen /\ h.boot >= g.boot
    BY <1>3, <2>1
  <2> QED BY <1>3, <2>1, <2>2, <2>3, OneGuestGoesOn
<1>8. ASSUME Reboot(v) PROVE GuestsGoOn
  <2>. DEFINE h == [g EXCEPT !.boot = g.boot + 1]
  <2>1. h \in Guest /\ h.gen = g.gen /\ h.boot = g.boot + 1
    <3>0. g.boot + 1 \in Nat
      BY <1>3
    <3>1. h \in Guest
      BY <3>0, <1>3, GuestsStayGuests
    <3> QED BY <1>3, <3>1 DEF Guest
  <2>2. guest' = [guest EXCEPT ![v] = h]
    BY <1>3, <1>8 DEF Reboot, TypeOK
  <2>. HIDE DEF h
  <2>3. h.gen >= g.gen /\ h.boot >= g.boot
    BY <1>3, <2>1
  <2> QED BY <1>3, <2>1, <2>2, <2>3, OneGuestGoesOn
<1>9. ASSUME Sync(v) PROVE GuestsGoOn
  <2>. DEFINE h == [g EXCEPT !.cred = "synced", !.key = TRUE]
  <2>1. h \in Guest /\ h.gen = g.gen /\ h.boot = g.boot
    <3>1. h \in Guest
      BY <1>3, GuestsStayGuests
    <3> QED BY <1>3, <3>1 DEF Guest
  <2>2. guest' = [guest EXCEPT ![v] = h]
    BY <1>3, <1>9 DEF Sync, TypeOK
  <2>. HIDE DEF h
  <2>3. h.gen >= g.gen /\ h.boot >= g.boot
    BY <1>3, <2>1
  <2> QED BY <1>3, <2>1, <2>2, <2>3, OneGuestGoesOn
<1> QED BY <1>1, <1>2, <1>4, <1>5, <1>6, <1>7, <1>8, <1>9

-----------------------------------------------------------------------------
(* The inductive invariant *)

\* The steps from the restart on.
Restarting == {"put", "again", "ssh", "kept", "ended"}

\* What a task has noted is not later than what its VM is at. The VMI read before
\* the restart is not before the one the package was installed in, and was
\* replaced once another was seen up; the second key was asked in a boot that is
\* between the first that was read and the present one. And a task that got past
\* its login was measured or has failed.
Fine(t, g) ==
  /\ t.was <= g.gen /\ t.old <= g.gen
  /\ t.pc \notin Restarting => t.old = 0
  /\ t.old = 0 \/ t.was <= t.old
  /\ t.pc \in {"ssh", "kept"} => t.old = 0 \/ t.old < g.gen
  /\ t.pc \in {"get", "patch", "sync", "second"} => t.boot0 <= g.boot
  /\ t.pc \in {"sync", "second"} => t.boot0 <= t.patched /\ t.patched <= g.boot
  /\ t.pc \notin {"create", "up", "login"} => t.start \/ t.failed

Sound(p) ==
  /\ p.step = "restart" /\ p.read => p.after > p.before
  /\ p.step = "agent-keys" => p.after = p.before

\* With the types: each task is fine, what passed was proof, and a create that
\* may still land has its line.
IInv ==
  /\ TypeOK
  /\ \A v \in Vms : Fine(task[v], guest[v])
  /\ \A p \in proofs : Sound(p)
  /\ flying => line # "pass"

LEMMA FineLater ==
  ASSUME NEW t \in Task, NEW g \in Guest, NEW h \in Guest, Fine(t, g),
         h.gen >= g.gen, h.boot >= g.boot
  PROVE  Fine(t, h)
  BY DEF Fine, Task, Guest

\* What a step of v's task does to it.
TaskGoesOn(v) ==
  /\ v \notin joined
  /\ \E t \in Task : task' = [task EXCEPT ![v] = t] /\ Fine(t, guest[v])

LEMMA TaskMoves ==
  ASSUME TypeOK, NEW v \in Vms, task[v].pc # "ended",
         NEW t \in Task, task' = [task EXCEPT ![v] = t], Fine(t, guest[v])
  PROVE  TaskGoesOn(v)
  BY DEF TaskGoesOn, TypeOK

\* The steps that follow another and note nothing.
Follows == { <<"create", "up">>, <<"up", "login">>, <<"version", "boot">>, <<"sync", "second">>,
             <<"second", "sync">>, <<"second", "old">>, <<"old", "put">>, <<"put", "again">>,
             <<"ssh", "kept">>, <<"kept", "ended">> }

LEMMA GotoIsFine ==
  ASSUME NEW t \in Task, NEW g \in Guest, Fine(t, g), NEW pc \in Steps,
         <<t.pc, pc>> \in Follows \/ (t.pc = "again" /\ pc = "ssh" /\ g.gen # t.old)
  PROVE  [t EXCEPT !.pc = pc] \in Task /\ Fine([t EXCEPT !.pc = pc], g)
<1>. DEFINE u == [t EXCEPT !.pc = pc]
<1>1. /\ u \in Task /\ u.pc = pc /\ u.was = t.was /\ u.old = t.old /\ u.boot0 = t.boot0
      /\ u.patched = t.patched /\ u.start = t.start /\ u.failed = t.failed
  <2>1. u \in Task
    BY TasksStayTasks
  <2> QED BY <2>1 DEF Task
<1>2. t.was \in Nat /\ t.old \in Nat /\ t.boot0 \in Nat /\ t.patched \in Nat
      /\ g.gen \in Nat /\ g.boot \in Nat
  BY DEF Task, Guest
<1>. HIDE DEF u
<1>3. Fine(u, g)
  BY <1>1, <1>2 DEF Fine, Restarting, Follows
<1> QED BY <1>1, <1>3 DEF u

LEMMA FailIsFine ==
  ASSUME NEW t \in Task, NEW g \in Guest, Fine(t, g),
         NEW pc \in {"old", "ended"}, pc = "old" => t.pc \notin Restarting
  PROVE  /\ [t EXCEPT !.pc = pc, !.failed = TRUE] \in Task
         /\ Fine([t EXCEPT !.pc = pc, !.failed = TRUE], g)
<1>. DEFINE u == [t EXCEPT !.pc = pc, !.failed = TRUE]
<1>1. /\ u \in Task /\ u.pc = pc /\ u.was = t.was /\ u.old = t.old /\ u.failed = TRUE
  <2>0. pc \in Steps
    BY DEF Steps
  <2>1. u \in Task
    BY <2>0, TasksStayTasks
  <2> QED BY <2>1 DEF Task
<1>. HIDE DEF u
<1>3. Fine(u, g)
  BY <1>1 DEF Fine, Restarting
<1> QED BY <1>1, <1>3 DEF u

LEMMA GotoGoesOn ==
  ASSUME TypeOK, NEW v \in Vms, Fine(task[v], guest[v]), NEW pc \in Steps, Goto(v, pc),
         \/ <<task[v].pc, pc>> \in Follows
         \/ task[v].pc = "again" /\ pc = "ssh" /\ guest[v].gen # task[v].old
  PROVE  TaskGoesOn(v)
<1>. DEFINE t == task[v]
            g == guest[v]
<1>1. t \in Task /\ g \in Guest /\ Fine(t, g) /\ t.pc # "ended"
  BY DEF TypeOK, Follows
<1>2. [t EXCEPT !.pc = pc] \in Task /\ Fine([t EXCEPT !.pc = pc], g)
  BY <1>1, GotoIsFine
<1>3. task' = [task EXCEPT ![v] = [t EXCEPT !.pc = pc]]
  BY DEF Goto, TypeOK
<1> QED BY <1>1, <1>2, <1>3, TaskMoves

LEMMA FailGoesOn ==
  ASSUME TypeOK, NEW v \in Vms, Fine(task[v], guest[v]), NEW pc \in {"old", "ended"},
         Fail(v, pc), task[v].pc # "ended", pc = "old" => task[v].pc \notin Restarting
  PROVE  TaskGoesOn(v)
<1>. DEFINE t == task[v]
            g == guest[v]
<1>1. t \in Task /\ g \in Guest /\ Fine(t, g)
  BY DEF TypeOK
<1>2. /\ [t EXCEPT !.pc = pc, !.failed = TRUE] \in Task
      /\ Fine([t EXCEPT !.pc = pc, !.failed = TRUE], g)
  BY <1>1, FailIsFine
<1>3. task' = [task EXCEPT ![v] = [t EXCEPT !.pc = pc, !.failed = TRUE]]
  BY DEF Fail, TypeOK
<1> QED BY <1>1, <1>2, <1>3, TaskMoves

\* The steps that note something.
LEMMA NotesAreFine ==
  ASSUME NEW t \in Task, NEW g \in Guest, Fine(t, g)
  PROVE  /\ t.pc = "install" => Fine([t EXCEPT !.pc = "version", !.was = g.gen], g)
         /\ t.pc = "boot" => Fine([t EXCEPT !.pc = "get", !.boot0 = g.boot], g)
         /\ t.pc = "get" => Fine([t EXCEPT !.pc = "patch", !.uid = g.gen], g)
         /\ t.pc = "patch" => Fine([t EXCEPT !.pc = "sync", !.patched = g.boot], g)
         /\ t.pc = "old" => \A n \in {0, g.gen} : Fine([t EXCEPT !.pc = "put", !.old = n], g)
<1>1. /\ t.was \in Nat /\ t.old \in Nat /\ t.boot0 \in Nat /\ t.patched \in Nat
      /\ g.gen \in Nat /\ g.boot \in Nat
  BY DEF Task, Guest
<1>2. t.pc = "install" => Fine([t EXCEPT !.pc = "version", !.was = g.gen], g)
  BY <1>1 DEF Fine, Task, Restarting
<1>3. t.pc = "boot" => Fine([t EXCEPT !.pc = "get", !.boot0 = g.boot], g)
  BY <1>1 DEF Fine, Task, Restarting
<1>4. t.pc = "get" => Fine([t EXCEPT !.pc = "patch", !.uid = g.gen], g)
  BY <1>1 DEF Fine, Task, Restarting
<1>5. t.pc = "patch" => Fine([t EXCEPT !.pc = "sync", !.patched = g.boot], g)
  BY <1>1 DEF Fine, Task, Restarting
<1>6. ASSUME t.pc = "old", NEW n \in {0, g.gen} PROVE Fine([t EXCEPT !.pc = "put", !.old = n], g)
  BY <1>1, <1>6 DEF Fine, Task, Restarting
<1> QED BY <1>2, <1>3, <1>4, <1>5, <1>6

\* Every step of a task leaves it fine.
LEMMA TasksGoOn ==
  ASSUME TypeOK, NEW v \in Vms, Fine(task[v], guest[v]), VmTask(v)
  PROVE  TaskGoesOn(v)
<1>. DEFINE t == task[v]
            g == guest[v]
<1>0. t \in Task /\ g \in Guest /\ g.gen \in Nat /\ g.boot \in Nat /\ Fine(t, g)
  BY DEF TypeOK, Guest
<1>1. ASSUME Create(v) PROVE TaskGoesOn(v)
  BY <1>1, GotoGoesOn, FailGoesOn DEF Create, At, Follows, Restarting, Steps
<1>2. ASSUME WaitUp(v) PROVE TaskGoesOn(v)
  BY <1>2, GotoGoesOn, FailGoesOn DEF WaitUp, At, Follows, Restarting, Steps
<1>3. ASSUME TryRdp(v) PROVE TaskGoesOn(v)
  <2>1. PICK r \in {"pass", "fail"} : task' = [task EXCEPT ![v] = [t EXCEPT !.rdp = r]]
    BY <1>3 DEF TryRdp, TypeOK
  <2>2. [t EXCEPT !.rdp = r] \in Task
    BY <1>0, TasksStayTasks
  <2>3. t.pc # "ended" /\ Fine([t EXCEPT !.rdp = r], g)
    BY <1>0, <1>3 DEF TryRdp, At, Fine, Task
  <2> QED BY <2>1, <2>2, <2>3, TaskMoves
<1>4. ASSUME TrySsh(v) PROVE TaskGoesOn(v)
  <2>1. PICK r \in {"pass", "fail"} : task' = [task EXCEPT ![v] = [t EXCEPT !.ssh = r]]
    BY <1>4 DEF TrySsh, TypeOK
  <2>2. [t EXCEPT !.ssh = r] \in Task
    BY <1>0, TasksStayTasks
  <2>3. t.pc # "ended" /\ Fine([t EXCEPT !.ssh = r], g)
    BY <1>0, <1>4 DEF TrySsh, At, Fine, Task
  <2> QED BY <2>1, <2>2, <2>3, TaskMoves
<1>5. ASSUME LoginEnds(v) PROVE TaskGoesOn(v)
  <2>1. PICK pc \in {"install", "ended"}, s \in BOOLEAN, f \in BOOLEAN :
          /\ task' = [task EXCEPT ![v] = [t EXCEPT !.pc = pc, !.start = s, !.failed = f]]
          /\ s \/ f
    <3>. DEFINE pc == IF t.ssh = "pass" THEN "install" ELSE "ended"
                s == t.ssh = "pass"
                f == "fail" \in {t.rdp, t.ssh}
    <3>1. t.ssh \in {"open", "pass", "fail"} /\ t.ssh # "open"
      BY <1>0, <1>5 DEF Task, LoginEnds
    <3>2. pc \in {"install", "ended"} /\ s \in BOOLEAN /\ f \in BOOLEAN /\ (s \/ f)
      BY <3>1
    <3>3. task' = [task EXCEPT ![v] = [t EXCEPT !.pc = pc, !.start = s, !.failed = f]]
      BY <1>5 DEF LoginEnds, TypeOK
    <3>. HIDE DEF pc, s, f
    <3> QED BY <3>2, <3>3
  <2>. DEFINE u == [t EXCEPT !.pc = pc, !.start = s, !.failed = f]
  <2>2. pc \in Steps /\ u \in Task
    BY <1>0, TasksStayTasks DEF Steps
  <2>3. t.pc = "login"
    BY <1>5 DEF LoginEnds, At
  <2>4. /\ u.pc = pc /\ u.start = s /\ u.failed = f /\ u.was = t.was /\ u.old = t.old
    BY <1>0 DEF Task
  <2>. HIDE DEF u
  <2>5. Fine(u, g)
    BY <1>0, <2>1, <2>3, <2>4 DEF Fine, Restarting
  <2> QED BY <2>1, <2>2, <2>3, <2>5, TaskMoves DEF u
<1>6. ASSUME Install(v) PROVE TaskGoesOn(v)
  <2>. DEFINE u == [t EXCEPT !.pc = "version", !.was = g.gen]
  <2>1. task' = [task EXCEPT ![v] = u] /\ t.pc = "install"
    BY <1>6 DEF Install, At, TypeOK
  <2>2. u \in Task
    BY <1>0, TasksStayTasks DEF Steps
  <2> QED BY <1>0, <2>1, <2>2, NotesAreFine, TaskMoves
<1>7. ASSUME ReadVersion(v) PROVE TaskGoesOn(v)
  BY <1>7, GotoGoesOn DEF ReadVersion, At, Follows, Steps
<1>8. ASSUME InstallFails(v) PROVE TaskGoesOn(v)
  BY <1>8, FailGoesOn DEF InstallFails, At
<1>9. ASSUME ReadBoot(v) PROVE TaskGoesOn(v)
  <2>. DEFINE u == [t EXCEPT !.pc = "get", !.boot0 = g.boot]
  <2>1. task' = [task EXCEPT ![v] = u] /\ t.pc = "boot"
    BY <1>9 DEF ReadBoot, At, TypeOK
  <2>2. u \in Task
    BY <1>0, TasksStayTasks DEF Steps
  <2> QED BY <1>0, <2>1, <2>2, NotesAreFine, TaskMoves
<1>10. ASSUME ReadVmi(v) PROVE TaskGoesOn(v)
  <2>. DEFINE u == [t EXCEPT !.pc = "patch", !.uid = g.gen]
  <2>1. task' = [task EXCEPT ![v] = u] /\ t.pc = "get"
    BY <1>10 DEF ReadVmi, At, TypeOK
  <2>2. u \in Task
    BY <1>0, TasksStayTasks DEF Steps
  <2> QED BY <1>0, <2>1, <2>2, NotesAreFine, TaskMoves
<1>11. ASSUME Patch(v) PROVE TaskGoesOn(v)
  <2>. DEFINE u == [t EXCEPT !.pc = "sync", !.patched = g.boot]
  <2>1. task' = [task EXCEPT ![v] = u] /\ t.pc = "patch"
    BY <1>11 DEF Patch, At, TypeOK
  <2>2. u \in Task
    BY <1>0, TasksStayTasks DEF Steps
  <2> QED BY <1>0, <2>1, <2>2, NotesAreFine, TaskMoves
<1>12. ASSUME LookSynced(v) PROVE TaskGoesOn(v)
  BY <1>12, GotoGoesOn DEF LookSynced, At, Follows, Steps
<1>13. ASSUME SecondLogin(v) PROVE TaskGoesOn(v)
  BY <1>13, GotoGoesOn DEF SecondLogin, At, Follows, Steps
<1>14. ASSUME KeysFail(v) PROVE TaskGoesOn(v)
  BY <1>14, FailGoesOn DEF KeysFail, At, Restarting
<1>15. ASSUME ReadOldUid(v) PROVE TaskGoesOn(v)
  <2>1. CASE Goto(v, "put") /\ Fault
    BY <1>15, <2>1, GotoGoesOn DEF ReadOldUid, At, Follows, Steps
  <2>2. CASE ~(Goto(v, "put") /\ Fault)
    <3>. DEFINE n == IF g.phase = "none" THEN 0 ELSE g.gen
                u == [t EXCEPT !.pc = "put", !.old = n]
    <3>1. task' = [task EXCEPT ![v] = u] /\ t.pc = "old"
      BY <1>15, <2>2 DEF ReadOldUid, At, TypeOK
    <3>2. n \in Nat /\ n \in {0, g.gen}
      BY <1>0
    <3>. HIDE DEF n
    <3>3. u \in Task
      BY <1>0, <3>2, TasksStayTasks DEF Steps
    <3> QED BY <1>0, <3>1, <3>2, <3>3, NotesAreFine, TaskMoves
  <2> QED BY <2>1, <2>2
<1>16. ASSUME PutRestart(v) PROVE TaskGoesOn(v)
  BY <1>16, GotoGoesOn DEF PutRestart, At, Follows, Steps
<1>17. ASSUME WaitUpAgain(v) PROVE TaskGoesOn(v)
  BY <1>17, GotoGoesOn DEF WaitUpAgain, At, IsNew, Steps
<1>18. ASSUME SshAgain(v) PROVE TaskGoesOn(v)
  BY <1>18, GotoGoesOn DEF SshAgain, At, Follows, Steps
<1>19. ASSUME Kept(v) PROVE TaskGoesOn(v)
  BY <1>19, GotoGoesOn DEF Kept, At, Follows, Steps
<1>20. ASSUME RestartFails(v) PROVE TaskGoesOn(v)
  BY <1>20, FailGoesOn DEF RestartFails, At
<1> QED BY <1>1, <1>2, <1>3, <1>4, <1>5, <1>6, <1>7, <1>8, <1>9, <1>10, <1>11, <1>12, <1>13,
           <1>14, <1>15, <1>16, <1>17, <1>18, <1>19, <1>20 DEF VmTask

-----------------------------------------------------------------------------
(* What else a step of a task does *)

\* What it writes into a guest leaves the VMI and the boot.
LEMMA TasksLeaveBoots ==
  ASSUME TypeOK, NEW v \in Vms, VmTask(v)
  PROVE  GuestsGoOn
<1>. DEFINE g == guest[v]
<1>0. g \in Guest /\ g.gen \in Nat /\ g.boot \in Nat /\ g = guest[v]
  BY DEF TypeOK, Guest
<1>. HIDE DEF g
<1>1. CASE UNCHANGED guest
  BY <1>1 DEF TypeOK, Guest, GuestsGoOn
<1>2. ASSUME NEW b \in BOOLEAN, guest' = [guest EXCEPT ![v] = [g EXCEPT !.pkg = b]] PROVE GuestsGoOn
  <2>1. [g EXCEPT !.pkg = b] \in Guest
    BY <1>0, GuestsStayGuests
  <2>2. [g EXCEPT !.pkg = b].gen >= g.gen /\ [g EXCEPT !.pkg = b].boot >= g.boot
    BY <1>0 DEF Guest
  <2> QED BY <1>0, <1>2, <2>1, <2>2, OneGuestGoesOn
<1>3. ASSUME NEW b \in BOOLEAN, guest' = [guest EXCEPT ![v] = [g EXCEPT !.stop = b]] PROVE GuestsGoOn
  <2>1. [g EXCEPT !.stop = b] \in Guest
    BY <1>0, GuestsStayGuests
  <2>2. [g EXCEPT !.stop = b].gen >= g.gen /\ [g EXCEPT !.stop = b].boot >= g.boot
    BY <1>0 DEF Guest
  <2> QED BY <1>0, <1>3, <2>1, <2>2, OneGuestGoesOn
<1>4. ASSUME Patched(v) PROVE GuestsGoOn
  <2>1. [g EXCEPT !.cred = "asked"] \in Guest
    BY <1>0, GuestsStayGuests
  <2>2. [g EXCEPT !.cred = "asked"].gen >= g.gen /\ [g EXCEPT !.cred = "asked"].boot >= g.boot
    BY <1>0 DEF Guest
  <2>3. guest' = [guest EXCEPT ![v] = [g EXCEPT !.cred = "asked"]]
    BY <1>0, <1>4 DEF Patched, TypeOK
  <2> QED BY <1>0, <2>1, <2>2, <2>3, OneGuestGoesOn
<1>5. ASSUME Asked(v) PROVE GuestsGoOn
  <2>1. PICK s \in BOOLEAN :
          guest' = [guest EXCEPT ![v] = [g EXCEPT !.stop = g.stop \/ (s /\ g.phase # "none")]]
    BY <1>0, <1>5 DEF Asked, TypeOK
  <2>2. (g.stop \/ (s /\ g.phase # "none")) \in BOOLEAN
    OBVIOUS
  <2> QED BY <1>3, <2>1, <2>2
<1>6. ASSUME Install(v) PROVE GuestsGoOn
  <2>1. guest' = [guest EXCEPT ![v] = [g EXCEPT !.pkg = TRUE]]
    BY <1>0, <1>6 DEF Install, TypeOK
  <2> QED BY <1>2, <2>1
<1>7. ASSUME InstallFails(v), ~UNCHANGED guest PROVE GuestsGoOn
  <2>1. PICK p \in BOOLEAN : guest' = [guest EXCEPT ![v] = [g EXCEPT !.pkg = g.pkg \/ (p /\ Up(v))]]
    BY <1>0, <1>7 DEF InstallFails, TypeOK
  <2>2. (g.pkg \/ (p /\ Up(v))) \in BOOLEAN
    OBVIOUS
  <2> QED BY <1>2, <2>1, <2>2
<1>8. \/ UNCHANGED guest \/ Install(v) \/ InstallFails(v) \/ Patched(v) \/ Asked(v)
  BY DEF VmTask, Looks, cluster, Create, WaitUp, TryRdp, TrySsh, LoginEnds, ReadVersion, ReadBoot,
         ReadVmi, Patch, LookSynced, SecondLogin, KeysFail, ReadOldUid, PutRestart, WaitUpAgain,
         SshAgain, Kept, RestartFails
<1> QED BY <1>1, <1>4, <1>5, <1>6, <1>7, <1>8

LEMMA LinesOnlyWorsen ==
  ASSUME TypeOK, NEW l \in {"pass", "fail", "infra"}, Emit(l)
  PROVE  /\ line' \in {"pass", "fail", "infra"} /\ (line # "pass" => line' # "pass")
         /\ l # "pass" => line' # "pass"
  BY DEF Emit, TypeOK

\* A create that may still land has its line.
LEMMA TasksAreTyped ==
  ASSUME TypeOK, Faults \in Nat, flying => line # "pass", NEW v \in Vms, VmTask(v)
  PROVE  /\ vms' \subseteq Vms /\ faults' \in 0..Faults /\ flying' \in BOOLEAN
         /\ line' \in {"pass", "fail", "infra"} /\ (flying' => line' # "pass")
         /\ UNCHANGED <<harms, joined, stage>>
<1>1. vms' \subseteq Vms /\ UNCHANGED <<harms, joined, stage>>
  BY DEF TypeOK, VmTask, Looks, cluster, Create, WaitUp, TryRdp, TrySsh, LoginEnds, Install,
         ReadVersion, InstallFails, ReadBoot, ReadVmi, Patch, LookSynced, SecondLogin, KeysFail,
         ReadOldUid, PutRestart, WaitUpAgain, SshAgain, Kept, RestartFails
<1>2. UNCHANGED faults \/ Fault
  BY DEF VmTask, Looks, Failure, Create, WaitUp, TryRdp, TrySsh, LoginEnds, Install,
         ReadVersion, InstallFails, ReadBoot, ReadVmi, Patch, LookSynced, SecondLogin, KeysFail,
         ReadOldUid, PutRestart, WaitUpAgain, SshAgain, Kept, RestartFails
<1>3. faults' \in 0..Faults
  BY <1>2 DEF Fault, TypeOK
<1>4. /\ UNCHANGED line \/ \E l \in {"pass", "fail", "infra"} : Emit(l)
      /\ UNCHANGED flying \/ (Emit("fail") /\ flying' \in {flying, TRUE})
  BY DEF VmTask, Looks, Failure, Create, WaitUp, TryRdp, TrySsh, LoginEnds, Install,
         ReadVersion, InstallFails, ReadBoot, ReadVmi, Patch, LookSynced, SecondLogin, KeysFail,
         ReadOldUid, PutRestart, WaitUpAgain, SshAgain, Kept, RestartFails
<1>5. line' \in {"pass", "fail", "infra"} /\ (line # "pass" => line' # "pass")
  BY <1>4, LinesOnlyWorsen DEF TypeOK
<1>6. flying' \in BOOLEAN /\ (flying' => line' # "pass")
  <2>1. CASE UNCHANGED flying
    BY <1>5, <2>1 DEF TypeOK
  <2>2. CASE Emit("fail") /\ flying' \in {flying, TRUE}
    BY <2>2, LinesOnlyWorsen DEF TypeOK
  <2> QED BY <1>4, <2>1, <2>2
<1> QED BY <1>1, <1>3, <1>5, <1>6

Proof == [ step : {"restart", "agent-keys"}, read : BOOLEAN, before : Nat, after : Nat ]

\* What it takes for proof is proof.
LEMMA TasksProve ==
  ASSUME TypeOK, NEW v \in Vms, Fine(task[v], guest[v]), VmTask(v),
         \A p \in proofs : Sound(p)
  PROVE  proofs' \subseteq Proof /\ \A p \in proofs' : Sound(p)
<1>. DEFINE t == task[v]
            g == guest[v]
<1>0. t \in Task /\ g \in Guest /\ Fine(t, g) /\ proofs \subseteq Proof
  BY DEF TypeOK, Proof
<1>1. /\ t.was \in Nat /\ t.old \in Nat /\ t.boot0 \in Nat /\ t.patched \in Nat
      /\ g.gen \in Nat /\ g.boot \in Nat
  BY <1>0 DEF Task, Guest
<1>2. CASE UNCHANGED proofs
  BY <1>0, <1>2
<1>3. ASSUME NEW p \in Proof, Sound(p), proofs' = proofs \cup {p}
      PROVE  proofs' \subseteq Proof /\ \A q \in proofs' : Sound(q)
  BY <1>0, <1>3
<1>4. ASSUME SecondLogin(v), ~UNCHANGED proofs
      PROVE  proofs' \subseteq Proof /\ \A p \in proofs' : Sound(p)
  <2>. DEFINE p == [ step |-> "agent-keys", read |-> TRUE, before |-> t.patched, after |-> g.boot ]
  <2>1. t.pc = "second" /\ g.boot = t.boot0 /\ proofs' = proofs \cup {p}
    BY <1>4 DEF SecondLogin, SameBoot, At
  <2>2. t.patched = g.boot
    BY <1>0, <1>1, <2>1 DEF Fine
  <2>3. p \in Proof /\ Sound(p)
    BY <1>1, <2>2 DEF Proof, Sound
  <2>. HIDE DEF p
  <2> QED BY <1>3, <2>1, <2>3
<1>5. ASSUME Kept(v)
      PROVE  proofs' \subseteq Proof /\ \A p \in proofs' : Sound(p)
  <2>. DEFINE p == [ step |-> "restart", read |-> t.old # 0, before |-> t.was, after |-> g.gen ]
  <2>1. t.pc = "kept" /\ proofs' = proofs \cup {p}
    BY <1>5 DEF Kept, At
  <2>2. t.old # 0 => g.gen > t.was
    BY <1>0, <1>1, <2>1 DEF Fine
  <2>3. p \in Proof /\ Sound(p)
    BY <1>1, <2>2 DEF Proof, Sound
  <2>. HIDE DEF p
  <2> QED BY <1>3, <2>1, <2>3
<1>6. UNCHANGED proofs \/ SecondLogin(v) \/ Kept(v)
  BY DEF VmTask, Create, WaitUp, TryRdp, TrySsh, LoginEnds, Install, ReadVersion, InstallFails,
         ReadBoot, ReadVmi, Patch, LookSynced, KeysFail, ReadOldUid, PutRestart, WaitUpAgain,
         SshAgain, RestartFails
<1> QED BY <1>2, <1>4, <1>5, <1>6

-----------------------------------------------------------------------------
(* Every step keeps the invariant *)

LEMMA InitInvariant ==
  ASSUME Faults \in Nat, Harms \in Nat, Init
  PROVE  IInv
<1>1. TypeOK
  <2>1. guest \in [Vms -> Guest]
    BY DEF Init, Guest
  <2>2. task \in [Vms -> Task]
    BY DEF Init, Task, Steps
  <2>3. /\ vms = {} /\ faults = Faults /\ harms = Harms /\ joined = {} /\ stage = "hold"
        /\ line = "pass" /\ flying = FALSE /\ proofs = {}
    BY DEF Init
  <2>4. faults \in 0..Faults /\ harms \in 0..Harms
    BY <2>3
  <2>5. vms \subseteq Vms /\ joined \subseteq { v \in Vms : task[v].pc = "ended" }
    BY <2>3
  <2>6. stage \in {"hold", "done"} /\ line \in {"pass", "fail", "infra"} /\ flying \in BOOLEAN
    BY <2>3
  <2>7. proofs \subseteq [ step : {"restart", "agent-keys"}, read : BOOLEAN,
                           before : Nat, after : Nat ]
    BY <2>3
  <2> QED BY <2>1, <2>2, <2>4, <2>5, <2>6, <2>7 DEF TypeOK
<1>2. \A v \in Vms : Fine(task[v], guest[v])
  BY DEF Init, Fine, Restarting
<1> QED BY <1>1, <1>2 DEF IInv, Init

\* A task that stays as it is stays fine while its VM goes on.
LEMMA OthersStayFine ==
  ASSUME IInv, GuestsGoOn, NEW v \in Vms, task'[v] = task[v]
  PROVE  Fine(task'[v], guest'[v])
<1>1. /\ task[v] \in Task /\ guest[v] \in Guest /\ guest'[v] \in Guest
      /\ Fine(task[v], guest[v])
      /\ guest'[v].gen >= guest[v].gen /\ guest'[v].boot >= guest[v].boot
  BY DEF IInv, TypeOK, GuestsGoOn
<1>2. Fine(task[v], guest'[v])
  BY <1>1, FineLater
<1> QED BY <1>2

LEMMA StepInvariant ==
  ASSUME Faults \in Nat, Harms \in Nat, IInv, [Next]_vars
  PROVE  IInv'
<1>0. /\ TypeOK /\ (\A v \in Vms : Fine(task[v], guest[v]))
      /\ (\A p \in proofs : Sound(p)) /\ (flying => line # "pass")
  BY DEF IInv
<1>1. ASSUME Cluster PROVE IInv'
  <2>1. /\ GuestsGoOn /\ harms' \in 0..Harms
        /\ UNCHANGED <<vms, faults, task, joined, stage, line, flying, proofs>>
    BY <1>0, <1>1, ClusterMoves
  <2>2. TypeOK'
    BY <1>0, <2>1 DEF TypeOK, GuestsGoOn
  <2>3. \A v \in Vms : Fine(task'[v], guest'[v])
    BY <2>1, OthersStayFine
  <2> QED BY <1>0, <2>1, <2>2, <2>3 DEF IInv
<1>2. ASSUME NEW v \in Vms, VmTask(v) PROVE IInv'
  <2>1. GuestsGoOn
    BY <1>0, <1>2, TasksLeaveBoots
  <2>2. /\ vms' \subseteq Vms /\ faults' \in 0..Faults /\ flying' \in BOOLEAN
        /\ line' \in {"pass", "fail", "infra"} /\ (flying' => line' # "pass")
        /\ UNCHANGED <<harms, joined, stage>>
    BY <1>0, <1>2, TasksAreTyped
  <2>3. proofs' \subseteq Proof /\ \A p \in proofs' : Sound(p)
    BY <1>0, <1>2, TasksProve
  <2>4. TaskGoesOn(v)
    BY <1>0, <1>2, TasksGoOn
  <2>5. PICK t \in Task : task' = [task EXCEPT ![v] = t] /\ Fine(t, guest[v])
    BY <2>4 DEF TaskGoesOn
  <2>6. /\ task' \in [Vms -> Task] /\ task'[v] = t
        /\ \A w \in Vms \ {v} : task'[w] = task[w]
        /\ joined \subseteq { w \in Vms : task'[w].pc = "ended" }
    BY <1>0, <2>4, <2>5 DEF TypeOK, TaskGoesOn
  <2>7. TypeOK'
    BY <1>0, <2>1, <2>2, <2>3, <2>6 DEF TypeOK, GuestsGoOn, Proof
  <2>8. Fine(task'[v], guest'[v])
    <3>1. /\ guest[v] \in Guest /\ guest'[v] \in Guest
          /\ guest'[v].gen >= guest[v].gen /\ guest'[v].boot >= guest[v].boot
      BY <1>0, <2>1 DEF TypeOK, GuestsGoOn
    <3> QED BY <2>5, <2>6, <3>1, FineLater
  <2>9. \A w \in Vms \ {v} : Fine(task'[w], guest'[w])
    BY <2>1, <2>6, OthersStayFine
  <2>10. \A w \in Vms : Fine(task'[w], guest'[w])
    BY <2>8, <2>9
  <2> QED BY <2>2, <2>3, <2>7, <2>10 DEF IInv
<1>3. ASSUME NEW v \in Vms, Join(v) PROVE IInv'
  <2>1. TypeOK'
    BY <1>0, <1>3 DEF Join, At, TypeOK, cluster
  <2> QED BY <1>0, <1>3, <2>1 DEF Join, IInv, cluster
<1>4. ASSUME AllJoined PROVE IInv'
  <2>1. TypeOK'
    BY <1>0, <1>4 DEF AllJoined, TypeOK, cluster
  <2> QED BY <1>0, <1>4, <2>1 DEF AllJoined, IInv, cluster
<1>5. ASSUME WindowCloses PROVE IInv'
  <2>1. line' = "fail" /\ flying' \in BOOLEAN
    BY <1>0, <1>5 DEF WindowCloses, Emit, TypeOK
  <2>2. TypeOK'
    BY <1>0, <1>5, <2>1 DEF WindowCloses, TypeOK, cluster
  <2> QED BY <1>0, <1>5, <2>1, <2>2 DEF WindowCloses, IInv, cluster
<1>6. CASE UNCHANGED vars
  <2>1. TypeOK'
    BY <1>0, <1>6 DEF vars, cluster, TypeOK
  <2> QED BY <1>0, <1>6, <2>1 DEF vars, cluster, IInv
<1> QED BY <1>1, <1>2, <1>3, <1>4, <1>5, <1>6 DEF Next

-----------------------------------------------------------------------------
(* What the tasks show *)

\* What is collected of a task that has not failed was measured; a create that
\* may still land has its line.
LEMMA InvariantKeepsContract ==
  ASSUME Vms # {}, None \notin Nat, IInv
  PROVE  KeepsContract
<1>1. Outcome \in Hold
  BY DEF Outcome, Hold, IInv, TypeOK
<1>2. ASSUME Failed = {} PROVE Outcome.start # None
  <2>1. PICK v \in Vms : v \in joined /\ ~task[v].failed
    BY <1>2 DEF Failed
  <2>2. task[v].pc = "ended" /\ Fine(task[v], guest[v])
    BY <2>1 DEF IInv, TypeOK
  <2>3. task[v].start
    BY <2>1, <2>2 DEF Fine
  <2>4. Outcome.start = 1
    BY <2>1, <2>3 DEF Outcome
  <2> QED BY <2>4
<1>3. Outcome.flying => Outcome.line # "pass"
  BY DEF Outcome, IInv
<1>4. ~Outcome.failed => Failed = {}
  BY DEF Outcome
<1> QED BY <1>1, <1>2, <1>3, <1>4 DEF HonestHolds, KeepsContract

LEMMA AlwaysIInv ==
  ASSUME Faults \in Nat, Harms \in Nat
  PROVE  Spec => []IInv
<1>1. Init => IInv
  BY InitInvariant
<1>2. IInv /\ [Next]_vars => IInv'
  BY StepInvariant
<1> QED BY <1>1, <1>2, PTL DEF Spec

\* The VMs, their guests and the tasks have their types in every state, whatever
\* fails.
THEOREM TypeCorrect ==
  ASSUME Faults \in Nat, Harms \in Nat
  PROVE  Spec => []TypeOK
<1>1. IInv => TypeOK
  BY DEF IInv
<1> QED BY <1>1, AlwaysIInv, PTL

\* vm_hold keeps the contract of a hold for any wave: wherever the window closes,
\* what did not fail was measured, and a create that was given up on or aborted is
\* told.
THEOREM HoldKeepsContract ==
  ASSUME Faults \in Nat, Harms \in Nat, Vms # {}, None \notin Nat
  PROVE  Spec => []KeepsContract
<1>1. IInv => KeepsContract
  BY InvariantKeepsContract
<1> QED BY <1>1, AlwaysIInv, PTL

\* A restart that passed, its VM's UID read before, found the package in a later
\* VMI than the one it was installed in.
THEOREM RestartsAreProof ==
  ASSUME Faults \in Nat, Harms \in Nat
  PROVE  Spec => []RestartIsProof
<1>1. IInv => RestartIsProof
  BY DEF IInv, Sound, RestartIsProof
<1> QED BY <1>1, AlwaysIInv, PTL

\* A second key that was accepted was asked for in the same boot.
THEOREM KeysAddedWithoutRestart ==
  ASSUME Faults \in Nat, Harms \in Nat
  PROVE  Spec => []KeysWithoutRestart
<1>1. IInv => KeysWithoutRestart
  BY DEF IInv, Sound, KeysWithoutRestart
<1> QED BY <1>1, AlwaysIInv, PTL
=============================================================================
