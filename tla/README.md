# stormcos_qa, specified

TLA+ models of the `qa-test` suites of this repository (`crates/qa-test`, Rust),
checked with TLC, and theorems about them proved with TLAPS.

Source references are to files under the repository's root; line numbers for
every definition are in `PROJECT.json` under `map`.

## The system

`qa-test` runs inside a StormCOS image under test, beside the kubelet, apiserver
and storage it tests, and says in a few lines and an exit code whether they
work. Its verdict is only worth something if its own control flow is right: a
test that retries, cleans up, times out and talks to an apiserver that loses
answers can report a pass that conceals a leak, or a failure that was its own.
That control flow is what is specified here.

| Part | Source | State it keeps | Operations |
|---|---|---|---|
| turbomode driver | `turbomode.rs` `run`, `profile`, `retryable`, `attempt_fits`; `report.rs` `Out` | profile in hand, its attempts, time since the start, the sqlite block, result lines and counters | preflight, each profile's attempts, retries within the window, exit code |
| turbomode attempt | `turbomode.rs` `attempt`, `body`, `create`, `capture_pvs`, `cleanup`; `turbo_audit.rs` | Pods, claims and PVs it knows; failures; verification of its cleanup | concurrent creates, wait, evidence, audits, delete, drain |
| turbomode observer | `turbomode.rs` `Observer` | Pod objects, timing records, peak, resourceVersion, gaps | list, watch, timeout, error, relist |
| apiserver client, retry helper | `kube.rs`; `stormgather-retry` (dependency) | the tries of one call | post, post_once, get, delete, list, watch |
| soak driver | `long.rs` | wave number, baseline and previous drain, latencies, window | waves, regressions, hold, verdict |
| residue census | `census.rs` | one census | take, slack, growth |
| container wave | `containers.rs`, `claim.rs` | Pods by name, restarts, times | ramp, ready, restart in place, reschedule, drain |
| VM wave | `wave.rs` `hold`, `long.rs` `vm_hold` | a task per VM: the VMI, boot and package it has seen | create, up, login, install, second key, restart, abort, drain |
| failed start | `failstart.rs` | attempts seen, the VMI last seen, a census | always-then-fixed, once |
| mobility suite | `mobility.rs` | the window; of a test, the pod or VMI seen before the move | claim moves, live migration, cold move, cleanup |
| medium suite | `medium.rs`, `agent.rs` | the findings of two passes of probes | wait for members, control, policy, second pass, verdicts |
| topology suites | `topology.rs` | the masters that answered, the workers with a pod | replication, placing, reaching, reattaching a claim |
| podapi suite | `podapi.rs` | the probe pod's log | tokens, rbac, watch, rotation, deletion |
| engine resolution | `engine.rs` | scheme and CA | probe, choose |
| short suite | `short.rs` | counters of `Out` | independent checks of one node |
| must-gather, ssh, rdp, crash, dispatch | same names | none | I/O |

How they interact. `turbomode` starts from `run`, which calls `profile` once per
profile, which calls `attempt` for each attempt. `attempt` shares the Pod
objects and timings with an observer task through a lock and a notification, and
starts one task per Pod under a semaphore; it is joined before it returns, and
returns a report from which `profile` decides. `soak` alternates VM waves and
container waves over one window and compares a census of the node after each
drain. All of them emit their lines through `Out`, whose counters make the exit
code. The other suites are runs of their own: a driver that changes the
cluster, and looks - through a pod's log, a probe, another node - whether that
took effect. All of them create through `kube.rs`, and reach the storage engine
by the transport `engine.rs` chose. The apiserver, kubelet, volume driver,
stormblock and stormvm are external; they answer requests in any order, may lose
answers, and act on their own.

### What makes them correct

* **driver** - a pass conceals nothing an earlier attempt did; no attempt starts
  that cannot end, with its cleanup, inside the window; nothing is given up
  without reason; the exit code is what the lines say.
* **attempt** - a pass is proof; a verified cleanup leaves nothing behind; what
  was created is cleaned though its acknowledgement was lost; it ends.
* **observer** - without errors no phase of a Pod is lost, whatever the watch's
  timeouts cut off; after an error the inventory is right again; a Pod that
  finished is seen to have.
* **soak and census** - what leaks is reported by some drain, and an unread
  source is never a zero; a wave that cannot end before the window is not begun.
* **container and VM waves** - a step passes only if what it did took place: a
  restart that is reported restarted, a reschedule that deleted, a drain that
  drained.
* **failed start** - what is called free of residue is, though attempts go on
  while it is counted; what recovered is the fixed VMI.
* **mobility** - a move that passes moved, and kept what was there before it; the
  cleanup comes while there is a window.
* **medium** - a border is judged by paths that were open before the policy, and
  only a policy closes it; no path and no member is passed over in silence.
* **topology** - masters with stores of their own, a worker that is not reached
  and a claim that came back empty are told.
* **podapi** - each item is told once, if there is a client and a reviewer's
  token, and a pass is of the change the driver made, not of a look from before it.
* **client** - a create that is reported as done is the run's own.
* **engine resolution** - a refused certificate is final; a run goes on in plain
  only with an engine that offers it, or that could not be asked.

### What is hard here

Creates, the watch and the kubelet interleave freely; a lost acknowledgement
leaves an object nobody was told of; a timeout of the client cuts the watch in
the middle of an event; a relist is applied to objects that are still old;
cleanup lists, captures, deletes and drains while PVs are still being bound;
retries run against a clock that the retry delay advances. A VMI is read,
patched, restarted and logged into by its name, and may be another each time; a
probe's two answers are of two moments; a policy closes one path after the other
while they are probed; a container that is killed reports as a new one.
`PROJECT.json` lists each hazard with its line and the properties that would
catch it.

## The modules

```
AttemptOutcome            the contract: how an attempt may end, and what may be retried
  |-- TurboRun            the driver around the attempts
  `-- AttemptSpec         the attempt as the driver sees it: one step
        `-- TurboAttempt  the attempt against a cluster, implements AttemptSpec
PodWatch                  the observer against an apiserver's watch
DrainVerdict, HoldVerdict the contracts: how the drain, and the hold, of a soak wave may end
  |-- Soak                the soak around the waves              SoakProofs
  |-- DrainSpec           the drain as run_wave sees it: one step
  |     `-- ResidueDrain  the drain and its census, implements DrainSpec   ResidueDrainProofs
  |-- ContainerHold       the hold of a container wave against a cluster
  `-- VmHold              the hold of a VM wave against a cluster          VmHoldProofs
FailedStart               a VM wave's failed-start case
MobilityRun               the mobility run and its window
  tests: ClaimMove, VmMove
Isolation                 the medium suite's scenario and its probes   IsolationProofs
Topology                  the topology suites
PodApi                    the podapi suite and its probe pod
Create                    one create through the client
EngineChoice              the choice of the engine's transport
```

Five modules put them together:

| Module | Of | Proofs | Values for TLC |
|---|---|---|---|
| `Turbomode` | `TurboRun`, and beside it `PodWatch` | `TurbomodeProofs` | `MCTurboRun` |
| `TurboAttempts` | `TurboAttempt` twice: `early` without late commits, `late` with them | `TurboAttemptProofs` | `MCTurboAttempt` |
| `Soak` | itself | `SoakProofs` | `MCSoak` |
| `Holds` | `ContainerHold`, and beside it `VmHold` of few VMs and of many, `FailedStart`, `ResidueDrain` | `HoldsProofs` | `MCHolds` |
| `Suites` | `MobilityRun`, and beside it `ClaimMove`, `VmMove`, `PodApi`, `Isolation` twice, `Topology`, `Create`, `EngineChoice` | `SuitesProofs` | `MCSuites` |

"Beside" is no composition: `part`, chosen at the start, says of which of them a
behaviour is, and the others' variables - renamed by `INSTANCE ... WITH` where
they have a name twice - stay where they began. One TLC run then checks what are
several programs that share no state, each with its own constants; a property
of such a module is named for what its parts' properties say, and is their
conjunction. They are modules of their own, and not written in the MC modules,
so that what is proved is literally what a run checks: the theorems name the same
definitions, and the MC modules and the cfgs only give values to the constants.
`Parts` is a bound: which of the parts a run looks at.

The driver and the attempt are composed through the contract rather than by a
product of their states: `TurboRun` lets an attempt end in any outcome of
`AttemptOutcomes`, and `TurboAttempt` is checked to implement `AttemptSpec`,
whose only step ends in such an outcome (`ImplementsContract`, with
`running <- stage # "done"`). What is proved of `TurboRun` for every set of
outcomes of the contract therefore holds of the driver with that attempt.
`Soak` and `ResidueDrain` are composed through `DrainVerdict` in the same way,
and `Soak` with `ContainerHold` and `VmHold` through `HoldVerdict`: `Soak` lets a
hold end in any outcome of `HonestHolds`, and `KeepsContract` says
`ContainerHold`, and `VmHold`, ends in one. `Soak` lets a failed-start case fail
or not; `FailureIsTold` of `FailedStart` is what it relies on there.

### AttemptOutcome

`Outcome` has the fields of the attempt's report the driver reads (`kinds` of
the failures, `passed`, `verified`) and three ghosts the program does not see:
`left` (something the attempt could have found is still there), `corrupt` (data
or image damaged) and `infra` (every failure was the retry helper giving up).
`Retryable` is `retryable` of `turbomode.rs`.

"Could have found" is meant exactly (`LeftToFind` in `TurboAttempt`): objects
with the attempt's label, its PVs, volumes of claims it knows, cgroups of Pods
it knows. What the code does not look at is not in `left`; that it does not look
is what the violation runs show.

### TurboRun

One action per exit of `run`'s preflight, per turn of the loop over profiles
and per verdict of `profile`. `clock` is `began.elapsed()` in seconds; an
attempt is one step that takes one of `AttemptDurations`. `lines` carries, with
each result line, the attempts behind it and when it was emitted, so that the
properties can relate a verdict to its reasons. Strings, notes and
`summary.json` are left out.

### TurboAttempt

The cluster is one small machine per item - a Pod, and for sqlite its claim, PV
and backend volume - in whatever order an apiserver, kubelet and volume driver
could take. The driver's creates are one machine per item (`task`): issued under
the semaphore, committed, acknowledged; a create may be refused, or lost before
or after its commit. `stage` is the program counter of `attempt`, which goes
through `body` and `cleanup`. Reads that fail, logs that do not prove, refused
deletes (applied or not) and a changed image draw on a budget of `Faults`.

### PodWatch

The apiserver is a log of events, a revision up to which it has compacted, and
the events sent on the open watch. The observer has `rv`, its objects, records
and peak; `listing` is what of a relist is still to be observed, as the events the
list stands for, in any order. A watch may end normally, time out in the client with events received
and not handled, break, deliver an `ERROR`, or be refused as expired; all but
the first two relist, and the relist is observed Pod by Pod.

### DrainSpec and ResidueDrain

`drain` (`wave.rs`, `containers.rs`) deletes what the wave created and takes a
census (`census.rs` `Sources::take`) until it is empty or the drain times out.
A census is twelve reads of twelve lists, one after the other, and the cluster
works on between them: `Make` adds an object for an owner that is there, `Vanish`
removes one that was deleted or whose owner may have been. `Order` is the order
of the reads, `Owns` what is made for what. The ghosts of the outcome say what
`run_wave` cannot see: that a source did not answer (`unread`), that creates
were cut off with the hold (`flying`), that something is there (`left`).
`DrainSpec` promises that an empty list means nothing is left, with neither of
the first two. `Objects` are a wave's own; `found` is `own`.

### Soak

`run` and `soak` of `long.rs`, one action per outcome of the preflight, per turn
of the loop and per phase of `run_wave`: `BeginWave`, `FailedStart` (VM waves),
`HoldEnds` or `HoldIsCut`, `Drain`, `TakeCensus`. `wave` is the wave in hand and
`records` the `WaveRecord`s; `clock` is `started.elapsed()`. The numbers of a
census are `Metrics` that read a number or `None`, `growth_metrics` for the
code; `Needed` is what `unmeasured` asks of the baseline for each kind.

A hold is one step that ends in one of `Holds`, whose contract `HonestHolds`
(`HoldVerdict`) is
that a wave of which nothing failed has a median latency, and that a create
given up on is told by a failure or by a line. A drain is one step that ends in
one of `Drains`, part of `DrainVerdict`. Three ghosts carry what the program
does not see: `flying` (a create may still land), `unread` (a source did not
answer in a drain's last census), `left` (something of the run was there when
the last drain ended).

`WaveSize` is the code's f64 arithmetic in quarters, `EstimateFits` its estimate
cross-multiplied. `SlowLimit` has the default slowdown of 3/2, and the
failed-start case is on. How the preflights size a kind is left out; each kind
ends planned, skipped or unable to run. `Kinds` is the list after `dedup`.
`CannotRun` is a run without a node under test or, from `main`, without a client,
a namespace, an engine or a key.

Every phase spends time: the preflights, the failed-start case (which may outlast
what is reserved for it), the hold, the census before the first wave and after
each drain (a dozen requests, retried), and the deletes of `cleanup`. A drain
that tells of something left ends after its deadline: the deadline is looked at
only when a census is in (`wave.rs:373`), so a drain takes the time until its
last look begins and that look's own. `Reserve`, all that the window check keeps
free, is the drain's timeout and the hold's floor. The ghost `beyond` adds up what
it keeps nothing for since the wave in hand began: what the failed-start case and
the drain take beyond their own times, the census after that drain, the cleanup.

### ContainerHold

`hold` of `containers.rs`, with `claim.rs` in the Pods. `stage` is the program
counter; each list of Pods is one step (`LookReady`, `LookStep`,
`ListForDelete`) and each log a step of its own (`ReadLog`), as each is a
request: `view` holds the Pods of the last list whose logs are still to read.
A request that is not answered or refused draws on `Faults`; a list then reads
as empty and a log as one that says nothing. A deadline may come at any time:
`ReadyEnds`, `RestartEnds` and `RescheduleEnds` are enabled whatever was seen.

The cluster is a controller that keeps one Pod per Deployment that is not being
deleted (`MakePod`), and a kubelet that starts containers, sees them Ready,
restarts one that exits and ends a Pod that is deleted. `Start` is what
`claim.rs` does first: it writes an empty claim or checks what is there, and
sees whether the marker of the exit is on it; `ExitOnce` puts it there. `Harm`
is what the wave is there to find: a claim that is empty, or holds other bytes,
the next time it is used. Ghosts: `writes` (how often an app's data was
written), `readback` (which container of which Pod found it), `flying` (a create
may still land; what lands after its app was given up on is not the hold's).
The Service check is one step with any result.

### VmHold

`hold` of `wave.rs` and `vm_hold` of `long.rs`. Each VM has a task, whose `pc` is
where in `hold` it is; tasks run beside each other, are collected one by one
(`Join`), and are aborted where they are when the window closes
(`WindowCloses`). A VMI's generation stands for its UID and a boot's number for
its boot id; the package and the second key are on the root disk, the request
for the key is the VMI's. Each request and each login is a step: that the VMI of
`wait_up` is the one that is then read, patched, restarted or logged into is
nothing the model assumes. The controllers make a VMI when there is none, and
`Harms` lets a VMI go, a guest reboot, or a disk be lost, unasked. `proofs` is
what the steps that passed rest on: the VMI the package was installed in and the
one it was found in, the boot the key was asked in and the one it was accepted
in. Deadlines may come at any time, as in `ContainerHold`.

### FailedStart

`run` of `failstart.rs`: the case under `Always` up to its recovery, the case
under `Once`, and the drain of both. A VMI is tried up to `Tries` times; an
attempt (`Try`, `TryFails`) has things on the node while it lasts, gives them
back or not, and announces the next one later or not. `seen` is what
`seen.push` collected, `uid` the VMI last seen. The census (`on_node`) is one
read for each of `Places`, as in `ResidueDrain`, and the kubelet goes on between
them.

### MobilityRun, ClaimMove and VmMove

`MobilityRun` is `main` of `mobility.rs`: where it is (`at`, in the order of
`Follows`), the time since the start, and the line of each test. A test takes
any time up to the longest its waits allow (`Longest`), and a deletion of a VM
up to `Gone`; what a window check reserves is `Worst`. `Margin` is the 60 s that
no test may use, and also the 60 s in `vm_worst`.

`ClaimMove` is `claim_move`, for a move to another node (`toNode`) or to a RAID
set. The pods run `claim.rs`: `Say` is `check_or_write` at the start of a
container, `Kill` a container that is killed while it serves or in the middle of
its write, whose restart then finds a torn claim. The mover takes the
annotation up or not, and completes, fails, puts the claim elsewhere or loses
what it holds. `VmMove` is `vm_live` and `vm_cold`; the migration, or the move
of the disks, is again another component that may leave the VM where it was,
start it anew, or lose what was on the disk. Ghosts say what befell the claim or
the VM since the driver took its state.

### Isolation

`scenario` of `medium.rs` with its agents. A path is who probes, what, and how;
`answers` are the paths that are open without a policy, `closed` those the
policy closes by now: `Enforce` closes them one way after the other, while the
second pass is made. The waits for the members share one deadline (`late`). Each
group of probes - the agent's, the VMs', the driver's, the node's - is a step
that records what it finds of every path of its own, save that one probe may be
lost, one line of a log cut, or one login fail. The verdicts are the code's, of
the control, of a pair within, of a border, and `judge_node`. `lossy` and `cut`
are ghosts: what a verdict cannot be held to. The four outside
targets, judged alike, are one.

### Topology

`main`, `replicated` and `workloads` of `topology.rs`. Masters in `apart` have a
store of their own; `Replicate` brings the ConfigMap from one master of a store
to another. The masters are asked in one order, the write goes to the first that
is ready and the reads to the rest. On the workers, a serve pod each, the agent
that probes them, and the writer and the reader of a claim; `reaches` are the
workers the agent's node reaches. A pod may end, or run where it is not pinned to.

### PodApi

`checks` of `podapi.rs` with the probe pod it starts. `allowed` follows `bound`
some time later (`Authorize`). The probe's two requests of a look are two steps
(`LookGet`, `LookList`), its log is the last line `said`; its watch has a queue
of events on their way. A read of the log that fails shows nothing
(`Logs`). Items whose verdict is about a single request or file are told as
`"told"`: that they are told, and once, is checked. `turns` and `heard` are what
really happened to the pod's rights and on its watch. A run that finds no client
ends `unstarted`: it prints a line of the API and none of an item. A reviewer's
token that is an empty string leaves `tokens` at `"blank"`, and the review untold.

### Create and EngineChoice

`Create` is one `post` of `kube.rs`: a POST is answered, certainly not sent, or
unsure - committed, lost, or on its way (`onItsWay`) - and after an unsure one
the object is looked for by name and labels. `Settle` is what others do in
between. `EngineChoice` is `resolve` and `offered` of `engine.rs`, with a node
whose engine is switched from plain to both to TLS only while it is asked.

## The runs

| Run | Instance | What it shows |
|---|---|---|
| `turbo_run_day` | the driver with both profiles, 2 attempts, 900 s, bounds 240 and 120 s, attempts of 60, 300 and 480 s, preflight of 40 or 500 s, one outcome of each class; the observer of 2 Pods, capacity 2, 2 faults, 1 timeout | lines, window and exit code are right, a pass hides nothing, nothing is given up without reason, the run ends; without errors the observer loses nothing and the peak is exact, with them the inventory is right, and a Pod that finishes is seen to have |
| `turbo_run_gave_up` (violation) | the same | an attempt that only met dependencies the helper gave up on makes the run exit 1, where the README says 2 |
| `turbo_attempt` | either profile, 2 Pods (with claims): 2 at once and 2 faults, or 1 and 1 with late commits | a pass is proof, lost acknowledgements are cleaned and the contract is implemented (without late commits); the attempt ends, with a watch that shows nothing and a cluster that cleans nothing too |
| `turbo_attempt_cgroup` (violation) | sqlite, 2 Pods, 1 fault | a Pod whose acknowledgement was lost is deleted by its label but its UID is not audited: its cgroup may stay |
| `turbo_attempt_damage` (violation) | the same | on the finish timeout the logs of the Pods that did finish are not read: a damaged database is retried over |
| `soak` | both kinds in turn, 3 waves, sizes 1 to 3 and 1 to 2, a timeout of 9 with a reserve of 3, preflights of 0, 2 or 7 each, a census of 0 or 1, a cleanup of 1, one metric reading 0, 1, 2 or nothing | growth is reported, exit 0 is clean and not slower, the run is over by its timeout but for what nothing is reserved for |
| `holds` | 2 Deployments with 1 fault and 2 harms; 1 VM with 1 fault and 2 harms; 2 VMs without; the failed-start case with 1 fault, 1 harm, 3 tries; the drain of a wave of either kind, any part of it there at the start, 1 unanswered request | a wave, a restart, a second key and a case that pass are proof; a claim that holds other bytes fails; what is left is named; the contracts are kept, the drain's implemented |
| `container_hold_kept` (violation) | 2 Deployments, 1 harm | a claim that comes back empty is written anew, and the wave passes |
| `holds_once` (violation) | the failed-start case, no fault, no harm | the VM of the case before, running as it should, fails the `Once` case |
| `residue_drain_unread` (violation) | the drain | a source that does not answer in the last census counts as nothing left: the drain passes with objects there |
| `suites` | each of the other suites, see below | moves, borders, replication, reattachment, rbac and watches that pass are proof; a failure within is the policy's; no pair, item or test is passed over; a create is told as it is; the transport is TLS where it can be |
| `mobility_window` (violation) | the mobility run, a window of 30 | a cold move is begun that may outlast what the window check reserved for it, and with it the window |

### Bounds, and why they are enough

* Durations in `turbo_run_day`: with the day's preset the worst case of an
  attempt is 480 s. A preflight of 500 s leaves no room at all, one of 40 s
  does; 60 s leaves room for a retry, 480 s does not, and 300 s decides by the
  profile that follows. 900 s leave just enough for both profiles or not. The
  theorems cover every other value, the night's preset included.
* Outcomes: one of each class the driver or a property distinguishes (a pass,
  transient, transient given up on, an error given up on, integrity with and
  without a transient beside it, cleanup with something left, cleanup unread).
  The theorems cover every outcome of the contract.
* Two items let a create be refused or lost while the other succeeds, one
  volume be bound while another is late, and one Pod finish while the other
  hangs. No guard relates three items.
* Two faults let a failure of the body be followed by one of the cleanup, and
  an error of the watch by one of the relist. A third would be one more of
  either.
* `LateCommits` is FALSE where the contract is checked. A POST the client gave
  up on and that the apiserver commits after cleanup listed by label is never
  deleted, and nothing in a client could exclude it; the assumption is stated
  here because the code does not. It is TRUE in the other instance, where the
  attempt's end is checked.
* One timeout of the watch can fall at each of its points, alone, before or
  after an error. A second would resume from the same revision as the first.
* One name in a drain: an object is made for one of its own name, and no guard
  relates two names; the theorems cover any number. One unanswered request is
  one in the last census, or in an earlier one, or a delete. Of a container
  wave's creates, which are sent one after the other, at most one is in flight.
* Three waves of two kinds give one kind two waves around the other's, which is
  what `regressions` (the drain before, of any kind) and the latency (the first
  of the kind) compare. A third wave of one kind would add a middle one, which
  no comparison reads; a run whose preflight skips or cannot plan one kind has
  three waves of the other, and is part of the instance. Readings of 0, 1 and 2
  are at, above and further above a baseline.
* Times in `soak` are in minutes: preflights leave the whole window, a part of
  it, or none; a failed-start case does not fit, keeps to its worst case (3), or
  outlasts it (4); a hold is done or cut; a drain is done at once or in its last
  look at the deadline (2), which ends there or 1 past it, as any census takes 0
  or 1; the cleanup takes 1.
* Two Deployments let one fail while the other goes on; no guard of the hold
  relates two of them but through the size of `done` and the emptiness of
  `failed`. One fault can be any request. Two harms are one before and one after
  the restart, or one undoing the other. Two Pods per Deployment are the one
  deleted and its replacement: the driver deletes once. The theorems cover any
  number of each but the last.
* VM tasks share nothing but the line and the window, so what befalls a VM is
  looked at with one, and the abort and the collecting with two. Two harms are
  two replacements of a VMI between the driver's steps, or one and a lost disk.
* Three tries are what the case waits for; one fault is any request or any place
  of a census; one harm is something left, a delay that does not grow, a VMI
  that runs on the broken template, or a `Once` VM that is tried again.
* `MobilityRun` in `suites`: a window of 16 with a margin of 1 and tests of up to
  9 and 15: each test fits, or does not, after any part of the tests before it.
  In `mobility_window` 30 is just enough for a cold move as it is reserved.
* `ClaimMove` and `VmMove`: one fault, two harms - a kill or a reboot before and
  after the move, or one beside a move that goes wrong. Two rounds of the
  guest's loop are one before and one after the migration.
* `Isolation`: one pod and one VM give each kind of path - within, in, out, from
  the node, by both protocols - once. It is instantiated twice, with one probe
  or look that fails, and with one thing that goes wrong: the verdicts except
  each other's.
* `Topology`: two masters, two workers, one fault, one harm. `PodApi`: one of
  each. With more masters or workers a loop is gone through more often, with no
  guard that relates two of them but the count of the Ready.
* `Create`: the five attempts of `Policy::API` and four requests without an
  answer, so that all POSTs but the last may be on their way. `EngineChoice`: the
  three attempts of `Policy::PROBE`, and five failing connections of six.

Deadlock is not checked: every one of these programs ends, and the clusters come
to rest.

### Fairness

* `TurboRun`: weak fairness of `Next`. The driver is one task without a wait of
  its own; that an attempt returns is `TurboAttempt`'s `Terminates`.
* `PodWatch`: Pods that can go on do, the open watch is sent its events, and
  the observer's task runs. Timeouts and errors are not fair, and bounded. The
  property is about Pods that finish, so their progress is assumed; that a
  watch delivers is the apiserver's contract. `TurbomodeSpec` has, of each part,
  the fairness of its module.
* `TurboAttempt`: weak fairness of the driver's steps only. Each wait has a
  deadline and each request ends by the retry policy. Neither the cluster nor
  the watch is fair, so the attempt is shown to end without their help.
* The others: none; only safety is stated. That a drain, a hold or a test ends is
  its deadlines, and when a soak ends, and when a mobility run cleans up, is
  stated in time (`RunEndsInTime`, `ClaimsAreCleanedInTime`).

## What is proved

Every invariant and action property a passing run checks, and both refinements,
are stated by a theorem. Nothing is assumed of the models but the named
assumptions on constants, which TLC evaluates in each run, and the hypotheses
named below.

In `TurbomodeProofs`, of the driver, for every list of profiles, window, timeout,
number of attempts, set of durations and set of outcomes of the contract, from the
named assumptions of `TurboRun` (types of the constants; `Outcomes` is part of
the contract):

* `TypeCorrect` - the type invariant. It is not inductive alone: that `index`
  stays within the profiles and `history` is not empty when it is judged is
  needed (`Control`).
* `RetriesConcealNothing` - `PassHidesNothing`. The strengthening `RetriesClean`
  says every attempt that was followed by another was retryable; with the
  contract (`HarmlessOutcome`) such an attempt left and damaged nothing.
* `AttemptsEndInWindow` - `AttemptEndsInWindow`, if no attempt outlasts the
  worst case the window check reserves (`AttemptsBounded`). The code does not
  enforce that hypothesis: creates, lists and log reads have no deadline of
  their own beyond the retry policy's. `InTime` adds that a running attempt's
  worst case fits.
* `NothingGivenUpIdly` - `GivenUpForAReason`: each profile reported as failed
  had a final or unclean attempt, or used them all, or left no room in the
  window for another. `ReasonedStep` shows it of the line just emitted; the
  earlier lines keep the attempts and the clock they were emitted with.
* `ExitIsTold` - `ExitTellsTheLines`. `Tally` keeps the counters equal in sign
  to the lines and the number of lines equal to the profiles passed.

In the same module, of the observer, for every finite set of Pods and any number
of slots, faults and timeouts (`WatchAssumption`):

* `WatchTypeCorrect` - `WatchTypeOK`, inductive as it stands.
* `ObserversAreRight` - `ObserverIsRight`: that without an error every phase of
  every Pod has its time and the peak is exact, and that between relists the
  observer's objects are the apiserver's. `Following` says that what was handled
  was received, and that a relist and an open watch exclude each other.
  `History` makes "the last event of p up to n" mean something: a Pod with events
  has a last one, and nothing follows a deletion. `Listing` and `Inventory` carry
  the relist: what is still to be observed is what there is at the list's revision,
  and a Pod whose object is old is one of those. The object an event moves
  is then the one the event follows, and the recorded times are those of the
  events up to `rv` (`Timed`).

In `TurboAttemptProofs`, for any Pods, profiles, concurrency and number of
faults, from `TurboAttemptAssumption`:

* `TypeCorrect` - the type invariant, inductive as it stands, with POSTs that are
  committed late.

The other three assume `~LateCommits` (a Pod that is committed after cleanup's
lists is one cleanup does not know, see the bounds). Their inductive invariant
`IInv` has a part for each place where one actor relies on another:

* `PodsOnlyAge`: what the watch last showed of a Pod is not ahead of it, and a Pod
  that found its database wrong was not seen to succeed. The cluster only moves
  Pods, claims and volumes one way (`ClusterGoesOn`), so it survives what happens
  between two steps of the driver.
* `ClaimsAreKnown`: a volume has or had a claim, and a claim that was deleted is
  one cleanup knows. It is what makes an empty drain empty (`DrainedIsDrained`):
  a bound volume of a claim that is gone would have been captured.
* `BodyIsThere`, `BodyIsTold`: how far the body is, and that it ends without a
  failure only if every Pod was acknowledged, seen to succeed and (sqlite) has its
  volume; damage that was to be seen in the logs is an integrity failure by then.
* `CleanupIsTold`: what is in the API is in cleanup's hands when it deletes, and
  what was verified to be gone stays gone until the verdict.

From it `PassesAreProof` (`PassIsProof`), `LostAcksAreAlwaysCleaned`
(`LostAcksAreCleaned`), and `AttemptImplementsItsContract`
(`ImplementsContract`): every step is a stutter of `AttemptSpec` but the last,
whose outcome is one of the contract's (`ConclusionIsOfTheContract`).
`EarlyAttemptsAreProof` (`EarlyIsProof`) and `EarlyAttemptsImplementContract`
(`EarlyImplementsContract`) are the same of the two attempts in `TurboAttempts`,
where `EarlyAssumption` is that the early one has no late commits. So what
`TurbomodeProofs` shows of the driver around attempts of the contract, it shows of
the driver around these, if no create is committed late.

In `ResidueDrainProofs`, for every wave (any names) and any number of failed
requests (`Faults \in Nat` is a hypothesis of the theorems that need it):

* `TypeCorrect` - the type invariant `DrainTypeOK`, inductive as it stands.
* `WhatIsLeftIsNamed` - `NothingLeftUnnamed`. The inductive invariant `Sweep`
  says it of every source the census has read so far (`Swept`). The step that
  needs an argument is `Make`: an object of a source already read is made for
  an owner whose source was read earlier still (`OwnersAreReadFirst`, where the
  order of `take` matters), so the owner is covered, and what is above the owner
  is above the object (`AboveIsTransitive`).
* `DrainImplementsItsContract` - `ImplementsContract`: every step is a stutter
  but the last, and there an empty list with every source read and no create in
  flight leaves nothing for `Sweep` to cover.

In `SoakProofs`, for any kinds, ranges, schedule, windows, metrics, slacks and
readings, any holds and drains of their contracts, from the assumptions of
`Soak` (types of the constants, smallest sizes of at least 1, the contracts):

* `TypeCorrect` - the type invariant, with every wave's size in its kind's
  range. `SizeInRange` is the arithmetic of `wave_size`; `Control` says which
  stages have a wave in hand and that a wave needs a plan.
* `GrowthIsAlwaysReported` - `GrowthIsReported`, inductive with the type
  invariant. In a census a metric above its slack either grew, and is reported
  now, or is at most the reading before it, which was then above it too; that a
  missing reading counts as growth closes the only gap.
* `PassedRunsAreClean` - `PassedRunIsClean`. `Told` says that a create in
  flight, or something left, is owed a failure: one that is counted already, or
  one of the wave in hand, whose census will count it (`Owed`).
* `PassedRunsDidNotSlow` - `PassedRunDidNotSlow`. `Steady` says that while
  nothing has failed every wave was measured and within the limit of the first
  of its kind: an unmeasured wave has failed by the time of its census.
* `RunsEndInTime` - `RunEndsInTime`. `InTime` bounds the clock in each stage: a
  wave after the first begins in the window (`LaterWavesBeginInTime`, from the
  estimate), a hold ends by the window's end or its floor past it, and the
  drain fits in the reserve, each but for `beyond`, which is added to as time is
  spent. Nothing is assumed of how long any step takes.

In `HoldsProofs`, of a container wave, for any set of Deployments and any number
of faults and harms, from `HoldAssumption` (at least one Deployment, types):

* `TypeCorrect` - the type invariant, with `PodsAreDeployed` (the marker is put
  on a claim that exists) and `DeletesAreOfOld`.
* `HoldKeepsItsContract` - `KeepsContract`. `Accounted` says that every app is
  still to create, created or failed, and after the wait for Ready also Ready
  or failed; `Told` that a create in flight has its failure or its line.
* `PassedWavesAreProof` - `PassIsProof`. Three parts: a log that says found is
  of a container that found its data (`LogsAreReadBack`, where `LogOf` says
  which container the log of a Pod that waits to be restarted is of); a Pod that
  was listed is still what it was listed for when its log is read
  (`ViewIsRight`); and what is done and has not failed was read (`StepsAreProof`).
* `PassedWavesRescheduleAll` - `PassIsOfAll`. `AllAreDeleted`: until the driver
  deletes Pods none is going, so each Ready app has one to be listed.
* `GarbledClaimsAreSeen` - `MismatchIsSeen`. A log is read after the list that
  chose its Pod, and shows the container before while its Pod waits, so what the
  driver read may not be what serves. `FirstThenSecond` orders the Pods of an app
  and the deletes; `FoundStays` says that a container that found its data serves
  on; and so `FoundAsRead`: what a step that did not fail has read is what the
  wave ends with.

Of what is beside it in `Holds`, from `PartsAssumption` (types, and at least one
VM). One inductive invariant, `HoldsInv`, joins those of the parts; what a part does
leaves the others' variables as they are, and each part's invariant is of all steps:

* `PartsAreTyped` - `PartTypeOK`.
* `CasesAreProof` - `CaseIsProof`, of the failed-start case. `AlwaysIsOne` says the
  first VM has one VMI until it is restarted, on the fixed template by then, and
  `SeenIsFirst` that the attempts the driver has seen were of that one: so the VMI
  that is up and another is fixed. `CensusIsProof` says of each place already read
  and found empty that it was so when the census began, however the VM is tried
  in between; `CaseTold` that a case not yet failed has passed every item due.
* `VmWavesKeepTheContract` (`VmsKeepContract`), `VmPassesAreProof`
  (`VmStepsAreProof`), `LeftIsNamed` (`NothingLeftUnnamed`) and
  `DrainsKeepTheirPromise` (`ImplementsContract`) rest on the two modules of
  proofs about `VmHold` and `ResidueDrain`, instantiated here.

In `VmHoldProofs`, for any set of VMs and any number of faults and harms
(`Faults \in Nat` and `Harms \in Nat` are hypotheses of the theorems):

* `TypeCorrect` - the type invariant.
* `HoldKeepsContract` - `KeepsContract`, if there is a VM and `None` is no number:
  a task that is past its login was measured or has failed, and a create that may
  still land has its line, which only ever gets worse (`LinesOnlyWorsen`).
* `RestartsAreProof` - `RestartIsProof`, and `KeysAddedWithoutRestart` -
  `KeysWithoutRestart`. `Fine` orders what a task has noted: the VMI of the
  install, the one read before the restart, and the one that is there now; the
  boot read before the key, the one it was asked in, and the present one. The
  cluster only moves VMIs and boots forward (`ClusterMoves`), so `Fine` survives
  it (`FineLater`) between any two steps of a task, and the check on the last step
  closes the gap: the same boot as the first is the one in between.

In `IsolationProofs`, for any pods and VMs and any number of faults and harms, if
no VM has the name of another source (`NamesAreTold`). `NetInv` is inductive and
says, of the findings so far, what the verdicts will need of them:

* `Stages`: before the policy is made nothing is closed and the second pass is
  untold, and a run whose control broke makes none.
* `SilenceHasAReason`: unless a path ceased to answer or a probe was lost, a path
  found open answers still, and one then found silent was closed by the policy.
  Paths only ever close (`Enforce`), so it survives what happens between the passes.
* `ProbesAreTold`: if no line was cut, a probe that is over was told, but for those
  of the node, and of a VM that could not be logged in to. `FirstOver` and
  `SecondOver` are the sources whose probes of each pass are over.
* `ProbesAreRight`: where nothing went wrong, what was told is what there is.
* `NodeIsLast`: the node's findings come last, without which what is told of it
  as one is not inductive.

`LEMMA ProbersAsk` puts the four groups of probes in one form (`Asks`), and all
other steps leave the findings alone (`Aside`), so each part is shown twice and
not once for every action. From it: `TypeCorrect`, `PoliciesAreJudged`
(`PassIsThePolicys`, `FailIsThePolicys`), `NothingGoesUntold` (`LeakIsTold`,
`EveryPairIsTold`) and `MembersUpAreSeen` (`UpIsSeen`).

In `SuitesProofs`, of a mobility run, for any times, from `TimesAssumption`:

* `TypeCorrect` - the type invariant.
* `ClaimsCleanedInTime` - `ClaimsAreCleanedInTime`. The inductive invariant says
  of each place up to the cleanup that the clock is in the window, less the
  margin; `LongestClaimIsReserved` is the step of a claim test: what its waits
  can take is what the window check asked for. (Of a VM test it is not, which is
  what `mobility_window` shows.)
* `EveryTestTold` - `EveryTestIsTold`: each place comes with the tests that have
  their line by then.

And of the suites beside it, for any bounds, from `SuitesAssumption` (types; at least
one attempt; names of VMs that are no other source's). A step of
the suites is one, or a stutter, of each part (`SuitesStep`), and the conjunction of
the parts' invariants, `SuitesInv`, is inductive:

* `PassedMovesMoved` - `MovesAreProof`. `ClaimInv`: each pod is made once and by
  turns (`Turns`, `PodsAreMadeOnce`), one that is up holds the claim where it is
  (`UpHolds`), and what was lost is not found again unless a container is killed
  (`LossIsSaid`). `VmInv`: a VMI that is there is where its disk is
  (`VmisAreCounted`), the one that was brought up leaves its node by a live
  migration only (`LiveIsSeen`), and a reboot shows in the boot (`BootsAreCounted`).
* `LooksTellTrue` - `LooksAreTrue`, of the same invariants: the starts read before
  the request are not more than those at it (`StartsAreCounted`), so a pod
  whose starts are as before was not restarted since.
* `PodItemsAreProof` - `PodApiIsProof`. `TurnsAreCounted` relates the codes of the
  last look and of the last line to how often the pod's rights have changed;
  `EventsAreHeard` says what the first connection saw was heard on it; an item is
  untold up to its place (`ItemsAreTold`). A run without a client ends before
  any of it.
* `TopologyItemsAreProof` - `TopologyIsProof`, for any number of masters and
  workers. `Spread`: what a master has came from the first, within its store, and
  each master read so far has it; `Reached`: a pod counted as placed is, and a
  probe that says open is of a worker that is reached; `Reread`: the reader
  comes after the writer is gone, and what was lost it does not find.
* `VerdictsFollowThePolicy` (`VerdictsAreThePolicys`) and `NothingIsUntold`
  (`NothingIsPassedOver`): `IsolationProofs`, instantiated for either network.
* `CreatesAreTold` - `CreateIsToldAsItIs`. `Pending`: while the create goes on it has
  no result, and what is ours never becomes another's, so POSTs still on their
  way disturb nothing; `Untried`: before the first try ends there is nothing of ours
  and nothing on its way; `Counted`: there are at most as many on their way as
  tries.
* `EngineKeepsTls` - `TlsIsKept`. A refusal ends the choice (`RefusedEnds`); an
  engine that began as TLS only stays so, and each attempt that did not end the
  choice took a failing connection off the budget (`Unlucky`).
* `SuitesAreTyped` - `SuitesTypeOK`.

Only model-checked: liveness - `DriverTerminates`, `FinishesAreSeen`,
`Terminates` - as fairness and ENABLED are outside the prover's reach; and, by
their nature, the counterexamples of the runs that expect a violation.

## Where code and documentation disagree

* `turbo_run_gave_up` - `profile` emits a plain Fail when its attempts failed
  only because the retry helper gave up (`turbomode.rs:1086`): exit 1. The
  README (line 167) says a dependency given up on is `could not run`, exit 2.
* `turbo_attempt_damage` - after the finish timeout `body` returns without
  reading logs (`turbomode.rs:709`), so a database found damaged by a Pod that
  finished is not seen, and the attempt is retried. The module's own comment
  says a later pass never hides corruption.
* `turbo_attempt_cgroup` - `audit` asks for the UIDs of acknowledged and
  watched Pods only (`turbomode.rs:647`), while cleanup also deletes Pods found
  by label.
* `residue_drain_unread` - a list of `take` that is refused or does not answer
  leaves its part of `own` empty (`census.rs:173`), and a drain passes when
  `own` is empty. The module's comment (`census.rs:31`) says an unread source
  is never a silent zero, and the README (line 550) that a drain cannot pass
  unchecked; what was unread is looked at once, in the baseline census, and for
  the lists of the run's namespace not at all.
* `container_hold_kept` - the marker that makes the workload exit once is on the
  claim (`claim.rs:137`) whose loss the wave is to find. A claim that comes back
  empty is written anew, the container exits again, and the next one finds what
  was just written: restart and reschedule (`containers.rs:411`) wait for a log
  that says so, and pass. The README (line 403) says the replacement reads back
  what the old Pod wrote.
* `holds_once` - the `Once` case passes only if `on_node` finds nothing of the run
  (`failstart.rs:264`), and at that time the VM of the case before it is fixed
  and runs: its volumes and registrations are of the run. A cluster that does
  what the module's comment (`failstart.rs:22`) asks of `Once` fails the case.
* `mobility_window` - `vm_worst` (`mobility.rs:816`) reserves two `vm_timeout`s,
  the move's and 60 s, and `vm_cold` may wait for three: the VM up, its VMI gone,
  and the VM up again. Between the two the move is begun, and its cleanup comes
  after the window, where the comment (`mobility.rs:797`) says that a test that
  does not fit is skipped so that cleanup always runs.

Noted while modelling, no run kept:

* `turbomode.rs`: `--timeout`'s comment (`turbomode.rs:108`) says 300 s are
  reserved beyond finish and cleanup timeouts, `ATTEMPT_RESERVE` is 120 s. The
  recorded peak of Running Pods (`turbomode.rs:381`) can exceed the node's
  capacity after a gap, as a relist is observed over old objects.
* `long.rs`: the run's first wave is not checked against the window
  (`long.rs:704`), so it begins also when the preflight used the window up, and
  "the window closed before a single wave" (`long.rs:712`) is unreachable;
  `RunEndsInTime` excepts such a run. A failure that the retry helper gave up on
  counts as failed in a wave's record as well as being a `could not run` line, so
  the wave fails and the run exits 1, as in `turbo_run_gave_up`. Attachments,
  veths, cgroups, memory and file handles that the baseline could not read are
  never compared, and `unmeasured` does not ask for them. A run may outlast its
  `--timeout`, "seconds the whole run may take" (`long.rs:83`): the drain's
  timeout and 60 s are reserved, but a drain that times out ends a census later
  than its deadline (`wave.rs:373`), another census follows it (`long.rs:824`),
  and then the cleanup (`long.rs:404`), each of many requests with retries;
  `RunEndsInTime` bounds a run by its timeout and that.
* `containers.rs`: a list that fails before the deletes makes the reschedule a
  Skip that says every pod failed an earlier step (`containers.rs:430`), and the
  wave passes without it; `PassIsOfAll` is for waves whose requests were all
  answered.
* `wave.rs`: a VMI whose UID could not be read before its restart
  (`wave.rs:263`) is empty, and the same VMI is accepted after it; `RestartIsProof`
  is of restarts whose UID was read.
* `failstart.rs`: a place of the census that is not read counts as one without
  residue; and an attempt made within the hold of `Once` in the same VMI is not
  seen, as the VMI's UID and phase are all that is compared.
* `kube.rs`: a create that is refused with 409 after an unsure one can be the
  run's own (the first POST lands while the second is sent): `post` returns the
  409, and its caller a failure.
* `engine.rs`: one failing TLS connection decides for plain with an engine that
  offers both, though the comment says TLS first "so an engine answering both is
  reached over TLS" (`engine.rs:81`).
* `claim.rs` in `mobility.rs`: a container that is killed after the loss of a
  claim finds the claim it has itself written anew, as in `container_hold_kept`,
  and one that is killed before its log is read says found of a new claim, which
  fails the test for nothing (a new claim must have been written). A kill in the
  middle of the write leaves a torn token, of which every later reader fails; none
  passes. The move's state after `synced` is printed and not judged.
* `podapi.rs`: "one line per item, so the matrix keeps its shape when a run cannot
  start" (`podapi.rs:60`) is not so of a run that has no client: it prints a line
  named `api` and returns 2 (`podapi.rs:812`). Nor is `projected/token-review` told
  when the reviewer's token is an empty string (`podapi.rs:713`). `ToldOnce` says
  which items it is of. The comment says a failed look, code 0, is the next look's to
  correct (`podapi.rs:1104`), but the driver takes the first line there is and
  judges a 0 in it as a failure. `rbac/revoked` passes of a line from before the
  grant when `rbac/granted` failed.
* `medium.rs`: a border of which one protocol was open without the policy is
  judged by that one, and a path that is reached only after the policy is a skip
  (its control says nothing); a VM that could not be logged in to is told twice;
  a line of the log that is cut drops its pair without a word; the policy's line
  passes though nothing inbound was open; the second pass is made, and judged,
  after a policy that was not enforced in time; the cleanup ignores its errors.
* `topology.rs`: the comment says that the same value and resourceVersion are read
  back (`topology.rs:368`), the value alone is compared; a read that fails leaves
  the ConfigMap behind; that the agent runs on its worker is not looked at.

## The plan

Done: the driver, the attempt and the observer of turbomode; the soak with its
census, its drain and its holds of both kinds; the failed-start case; the
mobility run with its claim and VM tests; isolation, topology and podapi; the
create and the engine's transport; the proofs above.

Left, in the order of what they would add:

1. The longest gap of a live migration's samples (`mobility.rs` `longest_gap`)
   and the percentiles and median of `long.rs`, against reference definitions.
2. The pod-network case (`podnet.rs`).

## Not modelled, and why

* The short suite is a sequence of checks that each judge what one look at the
  cluster, the node or the engine read (the smoke test looks again for a while),
  and one Pod that is made, waited for and deleted; it keeps no state between
  them but the counters of `Out`.
* `podnet.rs` reports pings between pods; it shares the scenario's waits.
* `ssh`, `rdp`, `mustgather`, `crash` and `main` are I/O; the Python reference,
  the fake apiserver of the tests, the boot log table, packaging and slides are
  not part of the program. The retry helper is a dependency; what its callers
  see of it - answered, refused, given up on, unsure - is modelled.
* Reading `/proc`, cgroupfs and stormblock's JSON, what is exchanged over a
  console or ssh, the contents of volumes and environments, the wording of lines,
  `summary.json`, evidence files, and the times themselves in the timings are
  abstracted.
* The finish wait is modelled as a loop that looks again, which is what its 5 s
  fallback makes it; how soon it looks is not modelled. So are the other waits:
  a deadline may come after any look.
