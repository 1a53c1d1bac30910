-------------------------------- MODULE Soak --------------------------------
(***************************************************************************)
(* The overnight soak (long.rs `run_mode`, `soak`, `run_wave`): the        *)
(* preflight of each kind, waves of the planned kinds in turn until the    *)
(* window or the count of waves runs out, the census after each drain, and *)
(* the exit code. A wave's hold and its drain are one step each: a hold    *)
(* ends in any result HoldVerdict allows, a drain in any of DrainVerdict's;*)
(* ContainerHold and ResidueDrain show that the code keeps to them.        *)
(***************************************************************************)
EXTENDS DrainVerdict, HoldVerdict, Integers, Sequences

CONSTANTS
  Kinds,             \* --kinds, in turn
  Sizes,             \* per kind, its smallest and largest wave
  Waves,             \* --waves: 0, or how many
  Timeout,           \* --timeout
  DrainTimeout,      \* --drain-timeout
  HoldFloor,         \* what a hold gets when the window has less
  FailedStartNeeds,  \* the worst case of the failed-start case
  SlowdownGrace,     \* --slowdown-grace-secs
  Metrics, Slack,    \* what must not grow across drains, and the slack of each
  Needed,            \* per kind, the metrics its drains rely on
  Readings,          \* bound: what a metric may read
  PreflightTimes, FailedStartTimes, HoldTimes,   \* bounds
  DrainTimes,        \* bound: until a drain's last look at what is left begins
  CensusTimes,       \* bound: a census, and that look is one
  CleanupTimes,      \* bound: the deletes at the end
  Holds,             \* bound: the results of holds
  Drains             \* bound: the outcomes of drains

WaveKinds == {"containers", "vms"}

Max2(a, b) == IF a > b THEN a ELSE b

ASSUME PlanAssumption ==
  /\ None \notin Nat \cup WaveKinds
  /\ Kinds \in Seq(WaveKinds)
  /\ Sizes \in [WaveKinds -> { r \in [min : Nat, max : Nat] : 1 <= r.min /\ r.min <= r.max }]
  /\ Needed \in [WaveKinds -> SUBSET Metrics]

ASSUME NumbersAssumption ==
  /\ {Waves, Timeout, DrainTimeout, HoldFloor, FailedStartNeeds, SlowdownGrace} \subseteq Nat
  /\ Slack \in [Metrics -> Nat]
  /\ Readings \subseteq Nat
  /\ PreflightTimes \cup FailedStartTimes \cup HoldTimes \subseteq Nat
  /\ DrainTimes \cup CensusTimes \cup CleanupTimes \subseteq Nat

ASSUME OutcomesAssumption == Holds \subseteq HonestHolds /\ Drains \subseteq DrainOutcomes

Census == [Metrics -> Readings \cup {None}]

\* What is kept of a wave.
WaveRecord ==
  [ kind      : WaveKinds,
    size      : Nat \ {0},
    began     : Nat,
    took      : Nat,
    start     : Nat \cup {None},
    residue   : Census,
    regressed : SUBSET Metrics ]

Reserve == DrainTimeout + HoldFloor

WindowEndBeforeDrain == Max2(Timeout - DrainTimeout, 0)

\* When the last drain must begin at the latest.
WindowEnd == Max2(Timeout - Reserve, 0)

VARIABLES
  clock,      \* started.elapsed()
  stage,      \* preflight | waves (loop head) | failedstart | hold | drain
              \* | census | cleanup | ended
  todo,       \* the kinds still to preflight
  plans,      \* those that can run
  baseline,   \* the census before the first wave
  records,    \* the waves so far
  wave,       \* the one in hand
  failed,     \* Out: something really failed
  infra,      \* Out: something could not run
  flying,     \* ghost: a create of some wave may still land
  unread,     \* ghost: a source did not answer in some drain's last census
  left,       \* ghost: something of the run was left by the last drain
  beyond,     \* ghost: what the last wave and the end took beyond the reserve
  exit        \* the exit code

vars == <<clock, stage, todo, plans, baseline, records, wave,
          failed, infra, flying, unread, left, beyond, exit>>

Ghosts == <<flying, unread, left>>

NoWave == [kind |-> None, size |-> 0, began |-> 0, start |-> None, failed |-> FALSE]

\* The wave in hand; failed is what fails its line, the census aside.
InHand ==
  [ kind : WaveKinds, size : Nat \ {0}, began : Nat, start : Nat \cup {None}, failed : BOOLEAN ]

TypeOK ==
  /\ clock \in Nat
  /\ stage \in {"preflight", "waves", "failedstart", "hold", "drain", "census",
                "cleanup", "ended"}
  /\ todo \in Seq(WaveKinds) /\ plans \in Seq(WaveKinds)
  /\ baseline \in Census
  /\ records \in Seq(WaveRecord)
  /\ wave \in InHand \cup {NoWave}
  /\ wave # NoWave => wave.size \in Sizes[wave.kind].min .. Sizes[wave.kind].max
  /\ failed \in BOOLEAN /\ infra \in BOOLEAN
  /\ flying \in BOOLEAN /\ unread \in BOOLEAN /\ left \in BOOLEAN
  /\ beyond \in Nat
  /\ exit \in {None, 0, 1, 2}

Init ==
  /\ clock = 0 /\ stage = "preflight"
  /\ todo = Kinds /\ plans = << >>
  /\ baseline = [m \in Metrics |-> None] /\ records = << >> /\ wave = NoWave
  /\ failed = FALSE /\ infra = FALSE
  /\ flying = FALSE /\ unread = FALSE /\ left = FALSE
  /\ beyond = 0 /\ exit = None

\* Time passes; and of it what the window check reserved nothing for.
Spend(t)  == clock' = clock + t
Exceed(t) == beyond' = beyond + t

-----------------------------------------------------------------------------
(* Before the first wave *)

\* The whole test could not run: the node under test cannot be told, or, and
\* then no line says so, there is no client, no namespace, no engine, no key.
CannotRun ==
  /\ stage = "preflight" /\ todo = Kinds
  /\ \E t \in PreflightTimes : Spend(t)
  /\ infra' \in {infra, TRUE}
  /\ stage' = "ended" /\ exit' = 2
  /\ UNCHANGED <<todo, plans, baseline, records, wave, failed, Ghosts, beyond>>

\* One kind is checked on its own: it is planned, skipped, or cannot run.
PreflightKind ==
  /\ stage = "preflight" /\ todo # << >>
  /\ \E t \in PreflightTimes : Spend(t)
  /\ todo' = Tail(todo)
  /\ \/ plans' = Append(plans, Head(todo)) /\ UNCHANGED infra
     \/ UNCHANGED <<plans, infra>>
     \/ infra' = TRUE /\ UNCHANGED plans
  /\ UNCHANGED <<stage, baseline, records, wave, failed, Ghosts, beyond, exit>>

\* unmeasured: a source the planned drains rely on and the baseline lacks.
Unmeasured(b) ==
  \E i \in DOMAIN plans : \E m \in Needed[plans[i]] : b[m] = None

Baseline ==
  /\ stage = "preflight" /\ todo = << >> /\ plans # << >>
  /\ \E c \in CensusTimes : Spend(c)
  /\ baseline' \in Census
  /\ infra' = (infra \/ Unmeasured(baseline'))
  /\ stage' = "waves"
  /\ UNCHANGED <<todo, plans, records, wave, failed, Ghosts, beyond, exit>>

NothingPlanned ==
  /\ stage = "preflight" /\ todo = << >> /\ plans = << >>
  /\ stage' = "cleanup"
  /\ UNCHANGED <<clock, todo, plans, baseline, records, wave, failed, infra, Ghosts,
                 beyond, exit>>

-----------------------------------------------------------------------------
(* The loop over the waves *)

\* schedule: which kind wave k (from 0) is of, and its index among that kind's.
KindOf(k)  == plans[(k % Len(plans)) + 1]
IndexOf(k) == k \div Len(plans)

\* wave_size: the smallest first, then across the range, in quarters of it.
Mix == <<0, 4, 2, 0, 3, 4, 1>>

WaveSizeOfMax(j, kind) ==
  Sizes[kind].min + (2 * Sizes[kind].max * Mix[(j % 7) + 1] + 4) \div 8

WaveSize(j, kind) ==
  Sizes[kind].min + (2 * (Sizes[kind].max - Sizes[kind].min) * Mix[(j % 7) + 1] + 4) \div 8

Earlier(kind) == { i \in DOMAIN records : records[i].kind = kind }

\* The last wave of the kind, scaled up to this one's size, and a fifth more,
\* has room before the end of the window. A kind's first wave needs only to
\* begin in it, and the run's first not even that.
EstimateFits(kind, size) ==
  \E i \in Earlier(kind) :
    /\ \A j \in Earlier(kind) : j <= i
    /\ 5 * records[i].size * clock + 6 * records[i].took * Max2(size, records[i].size)
         <= 5 * records[i].size * WindowEnd

RoomFor(kind, size) ==
  IF Earlier(kind) = {} THEN records = << >> \/ clock < WindowEnd
  ELSE EstimateFits(kind, size)

MoreWaves == Waves = 0 \/ Len(records) < Waves

NextKind == KindOf(Len(records))
NextSize == WaveSize(IndexOf(Len(records)), NextKind)

BeginWave ==
  /\ stage = "waves" /\ MoreWaves /\ RoomFor(NextKind, NextSize)
  /\ wave' = [kind |-> NextKind, size |-> NextSize, began |-> clock,
              start |-> None, failed |-> FALSE]
  /\ stage' = IF NextKind = "vms" THEN "failedstart" ELSE "hold"
  /\ beyond' = 0
  /\ UNCHANGED <<clock, todo, plans, baseline, records, failed, infra, Ghosts, exit>>

\* The loop ends (its "the window closed before a single wave" is never said:
\* the run's first wave always begins).
EndWaves ==
  /\ stage = "waves" /\ ~(MoreWaves /\ RoomFor(NextKind, NextSize))
  /\ failed' = (failed \/ records = << >>)
  /\ stage' = "cleanup"
  /\ UNCHANGED <<clock, todo, plans, baseline, records, wave, infra, Ghosts, beyond, exit>>

\* The failed-start case of a VM wave, when the window has its worst case: steps
\* of it may fail, one may not be able to run, and it may take longer than that.
FailedStart ==
  /\ stage = "failedstart" /\ stage' = "hold"
  /\ IF clock + FailedStartNeeds > WindowEnd
     THEN UNCHANGED <<clock, wave, failed, infra, flying, beyond>>
     ELSE \E t \in FailedStartTimes, f \in BOOLEAN, i \in BOOLEAN, u \in BOOLEAN :
            /\ u => f
            /\ Spend(t) /\ Exceed(Max2(t - FailedStartNeeds, 0))
            /\ wave' = [wave EXCEPT !.failed = f \/ i]
            /\ failed' = (failed \/ f)
            /\ infra' = (infra \/ i)
            /\ flying' = (flying \/ u)
  /\ UNCHANGED <<todo, plans, baseline, records, unread, left, exit>>

Remaining == Max2(WindowEnd - clock, HoldFloor)

HoldEnds ==
  /\ stage = "hold" /\ stage' = "drain"
  /\ \E t \in HoldTimes : t < Remaining /\ Spend(t)
  /\ \E h \in Holds :
       /\ wave' = [wave EXCEPT !.failed = @ \/ h.failed, !.start = h.start]
       /\ failed' = (failed \/ h.line = "fail")
       /\ infra' = (infra \/ h.line = "infra")
       /\ flying' = (flying \/ h.flying)
  /\ UNCHANGED <<todo, plans, baseline, records, unread, left, beyond, exit>>

\* The window closes mid-wave. Of a VM wave what was measured is kept.
HoldIsCut ==
  /\ stage = "hold" /\ stage' = "drain"
  /\ Spend(Remaining)
  /\ failed' = TRUE
  /\ \E h \in Holds :
       wave' = [wave EXCEPT !.failed = TRUE,
                            !.start = IF wave.kind = "vms" THEN h.start ELSE None]
  /\ flying' \in {flying, TRUE}
  /\ UNCHANGED <<todo, plans, baseline, records, infra, unread, left, beyond, exit>>

\* The wave is drained; what is left is a failure of its own, and told only by a
\* look that ends past the deadline.
Drain ==
  /\ stage = "drain" /\ stage' = "census"
  /\ \E o \in Drains, t \in DrainTimes, c \in CensusTimes :
       /\ o.flying = flying
       /\ o.own => t + c >= DrainTimeout
       /\ Spend(t + c) /\ Exceed(Max2(t + c - DrainTimeout, 0))
       /\ failed' = (failed \/ o.own)
       /\ wave' = [wave EXCEPT !.failed = @ \/ o.own]
       /\ unread' = (unread \/ o.unread)
       /\ left' = o.left
  /\ UNCHANGED <<todo, plans, baseline, records, infra, flying, exit>>

-----------------------------------------------------------------------------
(* What the census after a drain says *)

Above(v, m) == v # None /\ baseline[m] # None /\ v > baseline[m] + Slack[m]

\* The reading of the wave before, of whichever kind.
Previous(m) == IF records = << >> THEN None ELSE records[Len(records)].residue[m]

GrowsSinceMeasured(now, m) == Previous(m) # None /\ now[m] > Previous(m)

Grows(now, m) == Previous(m) = None \/ now[m] > Previous(m)

\* regressions: above the baseline by more than the slack, and still growing.
Regressed(now) == { m \in Metrics : Above(now[m], m) /\ Grows(now, m) }

\* What the latency of a kind's waves is compared with.
LastStart(kind) ==
  { records[i].start : i \in { j \in Earlier(kind) : \A l \in Earlier(kind) : l <= j } } \ {None}

FirstStart(kind) ==
  { records[i].start : i \in { j \in Earlier(kind) : \A l \in Earlier(kind) : j <= l } } \ {None}

SlowLimit(first) == (3 * first) \div 2 + SlowdownGrace

TooSlow == wave.start # None /\ \E f \in FirstStart(wave.kind) : wave.start > SlowLimit(f)

\* The census after the drain, the wave's record and its line.
TakeCensus ==
  /\ stage = "census" /\ stage' = "waves"
  /\ \E c \in CensusTimes : Spend(c) /\ Exceed(c)
  /\ \E now \in Census :
       /\ records' = Append(records,
            [ kind |-> wave.kind, size |-> wave.size, began |-> wave.began,
              took |-> clock' - wave.began, start |-> wave.start,
              residue |-> now, regressed |-> Regressed(now) ])
       /\ failed' = (failed \/ wave.failed \/ Regressed(now) # {} \/ TooSlow)
  /\ wave' = NoWave
  /\ UNCHANGED <<todo, plans, baseline, infra, Ghosts, exit>>

-----------------------------------------------------------------------------
(* The end *)

ExitCodeOfFailures == IF failed THEN 1 ELSE 0

ExitCode == IF failed THEN 1 ELSE IF infra THEN 2 ELSE 0

\* cleanup's deletes decide nothing.
Finish ==
  /\ stage = "cleanup" /\ stage' = "ended"
  /\ \E t \in CleanupTimes : Spend(t) /\ Exceed(t)
  /\ exit' = ExitCode
  /\ UNCHANGED <<todo, plans, baseline, records, wave, failed, infra, Ghosts>>

Next ==
  \/ CannotRun \/ PreflightKind \/ Baseline \/ NothingPlanned
  \/ BeginWave \/ EndWaves \/ FailedStart \/ HoldEnds \/ HoldIsCut \/ Drain
  \/ TakeCensus \/ Finish

Spec == Init /\ [][Next]_vars

-----------------------------------------------------------------------------
(* Properties *)

\* Growth that no wave reports does not exist: once a metric is read above its
\* baseline and slack, some wave until then has been failed for it - also when
\* the drain before could not read it, and when it then stays where it is.
GrowthIsReported ==
  \A i \in DOMAIN records, m \in Metrics :
    Above(records[i].residue[m], m) => \E j \in 1..i : m \in records[j].regressed

\* A run that ends in 0 left the node as it found it: nothing of the run after
\* its last drain, and no metric read above its baseline and slack - unless a
\* source was unread in a drain, which a drain takes for nothing left.
PassedRunIsClean ==
  exit = 0 =>
    /\ ~unread => ~left
    /\ \A i \in DOMAIN records, m \in Metrics : ~Above(records[i].residue[m], m)

FirstMeasured(kind) ==
  { i \in Earlier(kind) :
      /\ records[i].start # None
      /\ \A l \in Earlier(kind) : l < i => records[l].start = None }

\* No wave of a run that ends in 0 was slower than the slowdown allows over the
\* first of its kind that was measured: that nothing is compared for the rest of
\* the run when the first was not hides nothing, as that wave failed.
PassedRunDidNotSlow ==
  exit = 0 =>
    \A j \in DOMAIN records : \A i \in FirstMeasured(records[j].kind) :
      i < j /\ records[j].start # None => records[j].start <= SlowLimit(records[i].start)

\* A run whose first wave begins in the window is over by its timeout, but for
\* what the window check reserves nothing for: what the failed-start case and the
\* drain of its last wave took beyond their own times, the census after that
\* drain, and the cleanup. However late earlier waves ended, and though a hold
\* that begins late gets its floor, nothing else comes on top.
RunEndsInTime ==
  stage = "ended" /\ Reserve <= Timeout /\ records # << >> /\ records[1].began <= WindowEnd =>
    clock <= Timeout + beyond
=============================================================================
