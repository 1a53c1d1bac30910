----------------------------- MODULE SoakProofs -----------------------------
(***************************************************************************)
(* Proofs about Soak, for every choice of kinds, sizes, windows, metrics,  *)
(* readings, and every set of results of holds and drains that keep their  *)
(* contracts.                                                              *)
(***************************************************************************)
EXTENDS Soak, TLAPS

-----------------------------------------------------------------------------
(* Sizes and times *)

LEMMA TimesAreNat ==
  /\ Reserve \in Nat /\ WindowEnd \in Nat
  /\ \A c \in Nat : Max2(WindowEnd - c, HoldFloor) \in Nat
<1>1. Timeout \in Nat /\ DrainTimeout \in Nat /\ HoldFloor \in Nat
  BY NumbersAssumption
<1> QED BY <1>1 DEF Reserve, WindowEnd, Max2

LEMMA MixIsQuarters == Len(Mix) = 7 /\ \A i \in 1..7 : Mix[i] \in 0..4
  BY DEF Mix

\* No wave is smaller than its kind's smallest, or larger than its largest.
LEMMA SizeInRange ==
  ASSUME NEW j \in Nat, NEW k \in WaveKinds
  PROVE  WaveSize(j, k) \in Sizes[k].min .. Sizes[k].max
<1> DEFINE lo == Sizes[k].min
           hi == Sizes[k].max
           q  == Mix[(j % 7) + 1]
<1>1. lo \in Nat /\ hi \in Nat /\ lo <= hi
  BY PlanAssumption
<1>2. q \in 0..4
  <2>1. (j % 7) + 1 \in 1..7
    OBVIOUS
  <2> QED BY <2>1, MixIsQuarters
<1>3. PICK d \in Nat : d = hi - lo
  BY <1>1
<1> HIDE DEF lo, hi, q
<1>4. (2 * d * q + 4) \div 8 \in 0..d
  <2>1. CASE q = 0 BY <2>1, <1>3
  <2>2. CASE q = 1 BY <2>2, <1>3
  <2>3. CASE q = 2 BY <2>3, <1>3
  <2>4. CASE q = 3 BY <2>4, <1>3
  <2>5. CASE q = 4 BY <2>5, <1>3
  <2> QED BY <1>2, <2>1, <2>2, <2>3, <2>4, <2>5
<1>5. lo + (2 * d * q + 4) \div 8 \in lo .. hi
  BY <1>1, <1>3, <1>4
<1>6. WaveSize(j, k) = lo + (2 * d * q + 4) \div 8
  BY <1>3 DEF WaveSize, lo, hi, q
<1> QED BY <1>5, <1>6 DEF lo, hi

\* The kind and the size of the next wave, when there is a plan.
LEMMA NextWaveIsPlanned ==
  ASSUME TypeOK, plans # << >>
  PROVE  NextKind \in WaveKinds /\ NextSize \in Sizes[NextKind].min .. Sizes[NextKind].max
<1>1. Len(records) \in Nat /\ Len(plans) \in Nat \ {0}
  BY DEF TypeOK
<1>2. (Len(records) % Len(plans)) + 1 \in 1..Len(plans) /\ Len(records) \div Len(plans) \in Nat
  BY <1>1
<1>3. NextKind \in WaveKinds
  BY <1>2 DEF NextKind, KindOf, TypeOK
<1> QED BY <1>2, <1>3, SizeInRange DEF NextSize, IndexOf

-----------------------------------------------------------------------------
(* Types. The type invariant is not inductive alone: a wave is in hand from  *)
(* its begin to its census, there is a plan by then, and time does not run   *)
(* backwards.                                                                *)

InWave == {"failedstart", "hold", "drain", "census"}

Control ==
  /\ stage \in InWave => wave \in InHand /\ wave.began <= clock
  /\ stage \notin InWave => wave = NoWave
  /\ stage \in InWave \cup {"waves"} => plans # << >>
  /\ stage = "preflight" => records = << >>

TypeInv == TypeOK /\ Control

LEMMA NoneIsNoNumber == None \notin Nat /\ None # 0 /\ None \notin WaveKinds
  BY PlanAssumption

LEMMA NoWaveIsNotInHand == NoWave \notin InHand
  BY PlanAssumption DEF NoWave, InHand

\* What a drain takes, and how much of it is beyond its deadline.
LEMMA DrainTakes ==
  ASSUME Drain
  PROVE  \E t \in Nat, x \in Nat :
           clock' = clock + t /\ beyond' = beyond + x /\ t <= DrainTimeout + x
<1>1. PICK o \in Drains, d \in DrainTimes, c \in CensusTimes :
        Spend(d + c) /\ Exceed(Max2(d + c - DrainTimeout, 0))
  BY Zenon DEF Drain
<1>2. d \in Nat /\ c \in Nat /\ d + c \in Nat /\ DrainTimeout \in Nat
  BY NumbersAssumption
<1>3. clock' = clock + (d + c)
  BY <1>1 DEF Spend
<1>4. CASE d + c > DrainTimeout
  <2>1. beyond' = beyond + (d + c - DrainTimeout)
    BY <1>1, <1>2, <1>4 DEF Exceed, Max2
  <2>2. d + c - DrainTimeout \in Nat /\ d + c <= DrainTimeout + (d + c - DrainTimeout)
    BY <1>2, <1>4
  <2> QED BY <1>2, <1>3, <2>1, <2>2
<1>5. CASE d + c <= DrainTimeout
  <2>1. beyond' = beyond + 0
    BY <1>1, <1>2, <1>5 DEF Exceed, Max2
  <2> QED BY <1>2, <1>3, <1>5, <2>1
<1> QED BY <1>2, <1>4, <1>5

LEMMA TypeInitially == Init => TypeInv
<1> SUFFICES ASSUME Init PROVE TypeInv
  OBVIOUS
<1>1. Kinds \in Seq(WaveKinds)
  BY PlanAssumption
<1>2. baseline \in Census
  BY DEF Init, Census
<1>3. Control
  BY DEF Init, Control, InWave
<1>4. todo \in Seq(WaveKinds) /\ plans \in Seq(WaveKinds) /\ records \in Seq(WaveRecord)
  BY <1>1 DEF Init
<1>5. TypeOK
  BY <1>2, <1>4 DEF Init, TypeOK
<1> QED BY <1>3, <1>5 DEF TypeInv

LEMMA TypeStep == TypeInv /\ [Next]_vars => TypeInv'
<1> SUFFICES ASSUME TypeInv, [Next]_vars PROVE TypeInv'
  OBVIOUS
<1> USE DEF TypeInv
<1>1. CASE CannotRun
  <2>1. clock' \in Nat
    BY <1>1, NumbersAssumption DEF CannotRun, Spend, TypeOK
  <2>2. infra' \in BOOLEAN
    BY <1>1 DEF CannotRun, TypeOK
  <2> QED BY <1>1, <2>1, <2>2 DEF CannotRun, Ghosts, TypeOK, Control, InWave
<1>2. CASE PreflightKind
  <2>1. clock' \in Nat
    BY <1>2, NumbersAssumption DEF PreflightKind, Spend, TypeOK
  <2>2. Head(todo) \in WaveKinds /\ Tail(todo) \in Seq(WaveKinds)
    BY <1>2 DEF PreflightKind, TypeOK
  <2>3. plans' \in Seq(WaveKinds) /\ infra' \in BOOLEAN
    <3>1. CASE plans' = Append(plans, Head(todo)) /\ UNCHANGED infra
      BY <2>2, <3>1 DEF TypeOK
    <3>2. CASE UNCHANGED plans /\ infra' \in {infra, TRUE}
      BY <3>2 DEF TypeOK
    <3> QED BY <1>2, <3>1, <3>2 DEF PreflightKind
  <2> QED BY <1>2, <2>1, <2>2, <2>3 DEF PreflightKind, Ghosts, TypeOK, Control, InWave
<1>3. CASE Baseline
  <2>1. clock' \in Nat
    BY <1>3, NumbersAssumption DEF Baseline, Spend, TypeOK
  <2> QED BY <1>3, <2>1 DEF Baseline, Unmeasured, Ghosts, TypeOK, Control, InWave
<1>4. CASE NothingPlanned
  BY <1>4 DEF NothingPlanned, Ghosts, TypeOK, Control, InWave
<1>5. CASE BeginWave
  <2>1. plans # << >>
    BY <1>5 DEF BeginWave, Control
  <2>2. NextKind \in WaveKinds /\ NextSize \in Sizes[NextKind].min .. Sizes[NextKind].max
    BY <2>1, NextWaveIsPlanned
  <2>3. NextSize \in Nat \ {0}
    BY <2>2, PlanAssumption
  <2>4. /\ wave' \in InHand /\ wave'.began = clock
        /\ wave'.size \in Sizes[wave'.kind].min .. Sizes[wave'.kind].max
    BY <1>5, <2>2, <2>3 DEF BeginWave, InHand, TypeOK
  <2> QED BY <1>5, <2>1, <2>4 DEF BeginWave, Ghosts, TypeOK, Control, InWave
<1>6. CASE EndWaves
  BY <1>6 DEF EndWaves, Ghosts, TypeOK, Control, InWave
<1>7. CASE FailedStart
  <2>1. stage = "failedstart" /\ wave \in InHand
    BY <1>7 DEF FailedStart, Control, InWave
  <2>2. clock' \in Nat /\ clock' >= clock /\ beyond' \in Nat
    BY <1>7, NumbersAssumption DEF FailedStart, Spend, Exceed, Max2, TypeOK
  <2>3. /\ wave' \in InHand /\ wave'.began = wave.began
        /\ wave'.size = wave.size /\ wave'.kind = wave.kind
        /\ failed' \in BOOLEAN /\ flying' \in BOOLEAN
    BY <1>7, <2>1 DEF FailedStart, TypeOK, InHand
  <2> QED BY <1>7, <2>1, <2>2, <2>3, NoWaveIsNotInHand
          DEF FailedStart, TypeOK, Control, InWave, InHand
<1>8. CASE HoldEnds \/ HoldIsCut
  <2>1. stage = "hold" /\ stage' = "drain" /\ wave \in InHand
    BY <1>8 DEF HoldEnds, HoldIsCut, Control, InWave
  <2>2. clock' \in Nat /\ clock' >= clock
    <3>1. PICK t \in HoldTimes \cup {Remaining} : clock' = clock + t
      BY <1>8 DEF HoldEnds, HoldIsCut, Spend
    <3>2. t \in Nat /\ clock \in Nat
      BY NumbersAssumption, TimesAreNat DEF Remaining, TypeOK
    <3> QED BY <3>1, <3>2
  <2>3. /\ wave' \in InHand /\ wave'.began = wave.began
        /\ wave'.size = wave.size /\ wave'.kind = wave.kind
        /\ failed' \in BOOLEAN /\ infra' \in BOOLEAN /\ flying' \in BOOLEAN
    BY <1>8, <2>1, OutcomesAssumption
    DEF HoldEnds, HoldIsCut, TypeOK, InHand, HonestHolds, Hold
  <2>4. UNCHANGED <<todo, plans, baseline, records, unread, left, beyond, exit>>
    BY <1>8 DEF HoldEnds, HoldIsCut
  <2> QED BY <2>1, <2>2, <2>3, <2>4, NoWaveIsNotInHand
          DEF TypeOK, Control, InWave, InHand
<1>9. CASE Drain
  <2>1. stage = "drain" /\ stage' = "census" /\ wave \in InHand
    BY <1>9 DEF Drain, Control, InWave
  <2>2. clock' \in Nat /\ clock' >= clock /\ beyond' \in Nat
    <3>1. PICK t \in Nat, x \in Nat : clock' = clock + t /\ beyond' = beyond + x
      BY <1>9, DrainTakes
    <3> QED BY <3>1 DEF TypeOK
  <2>3. /\ wave' \in InHand /\ wave'.began = wave.began
        /\ wave'.size = wave.size /\ wave'.kind = wave.kind
        /\ failed' \in BOOLEAN /\ unread' \in BOOLEAN /\ left' \in BOOLEAN
    BY <1>9, <2>1, OutcomesAssumption
    DEF Drain, TypeOK, InHand, DrainOutcomes, DrainOutcome
  <2> QED BY <1>9, <2>1, <2>2, <2>3, NoWaveIsNotInHand
          DEF Drain, TypeOK, Control, InWave, InHand
<1>10. CASE TakeCensus
  <2>0. clock' \in Nat /\ clock' >= clock /\ beyond' \in Nat
    BY <1>10, NumbersAssumption DEF TakeCensus, Spend, Exceed, TypeOK
  <2>1. wave \in InHand /\ clock' - wave.began \in Nat
    BY <1>10, <2>0 DEF TakeCensus, Control, InWave, TypeOK, InHand
  <2>2. PICK now \in Census :
          records' = Append(records,
            [ kind |-> wave.kind, size |-> wave.size, began |-> wave.began,
              took |-> clock' - wave.began, start |-> wave.start,
              residue |-> now, regressed |-> Regressed(now) ])
    BY <1>10 DEF TakeCensus
  <2>3. records' \in Seq(WaveRecord)
    BY <2>1, <2>2 DEF WaveRecord, InHand, Regressed, TypeOK
  <2>4. failed' \in BOOLEAN
    BY <1>10, <2>1 DEF TakeCensus, TypeOK, InHand, TooSlow
  <2> QED BY <1>10, <2>0, <2>3, <2>4 DEF TakeCensus, Ghosts, TypeOK, Control, InWave
<1>11. CASE Finish
  <2>1. clock' \in Nat /\ beyond' \in Nat
    BY <1>11, NumbersAssumption DEF Finish, Spend, Exceed, TypeOK
  <2> QED BY <1>11, <2>1 DEF Finish, ExitCode, Ghosts, TypeOK, Control, InWave
<1>12. CASE UNCHANGED vars
  BY <1>12 DEF vars, TypeOK, Control, InWave
<1> QED BY <1>1, <1>2, <1>3, <1>4, <1>5, <1>6, <1>7, <1>8, <1>9, <1>10, <1>11, <1>12 DEF Next

LEMMA TypeInvariant == Spec => []TypeInv
  BY TypeInitially, TypeStep, PTL DEF Spec

(* The soak's state always has its type: every wave's size, too, is in the   *)
(* range of its kind.                                                        *)
THEOREM TypeCorrect == Spec => []TypeOK
<1>1. TypeInv => TypeOK
  BY DEF TypeInv
<1> QED BY <1>1, TypeInvariant, PTL

-----------------------------------------------------------------------------
(* Growth. GrowthIsReported is inductive by itself: if the new reading does  *)
(* not grow, the one before was above the limit too, and was reported then   *)
(* or earlier; if the one before was not read, the new one is reported.      *)

LEMMA GrowthStep ==
  ASSUME TypeInv, GrowthIsReported, [Next]_vars
  PROVE  GrowthIsReported'
<1>1. CASE TakeCensus
  <2>1. PICK now \in Census :
          records' = Append(records,
            [ kind |-> wave.kind, size |-> wave.size, began |-> wave.began,
              took |-> clock' - wave.began, start |-> wave.start,
              residue |-> now, regressed |-> Regressed(now) ])
    BY <1>1 DEF TakeCensus
  <2> DEFINE n == Len(records)
  <2>2. /\ n \in Nat /\ DOMAIN records = 1..n /\ DOMAIN records' = 1..(n + 1)
        /\ \A i \in 1..n : records'[i] = records[i]
        /\ records'[n + 1].residue = now /\ records'[n + 1].regressed = Regressed(now)
    BY <2>1 DEF TypeInv, TypeOK
  <2> SUFFICES ASSUME NEW i \in 1..(n + 1), NEW m \in Metrics,
                      Above(records'[i].residue[m], m)
               PROVE  \E j \in 1..i : m \in records'[j].regressed
    BY <1>1, <2>2 DEF GrowthIsReported, TakeCensus, Above
  <2>3. ASSUME NEW k \in 1..n, Above(records[k].residue[m], m)
        PROVE  \E j \in 1..k : m \in records'[j].regressed
    <3>1. PICK j \in 1..k : m \in records[j].regressed
      BY <2>2, <2>3 DEF GrowthIsReported
    <3> QED BY <2>2, <3>1
  <2>4. CASE i \in 1..n
    BY <2>2, <2>3, <2>4
  <2>5. CASE i = n + 1
    <3>1. Above(now[m], m)
      BY <2>2, <2>5
    <3>2. CASE Grows(now, m)
      BY <2>2, <2>5, <3>1, <3>2 DEF Regressed
    <3>3. CASE ~Grows(now, m)
      <4>1. n >= 1 /\ Previous(m) = records[n].residue[m]
        BY <2>2, <3>3 DEF Grows, Previous, TypeInv, TypeOK
      <4>2. records[n].residue \in Census
        <5>1. records[n] \in WaveRecord
          BY <2>2, <4>1 DEF TypeInv, TypeOK
        <5> QED BY <5>1 DEF WaveRecord
      <4>3. /\ Previous(m) # None /\ ~(now[m] > Previous(m))
            /\ Previous(m) \in Nat /\ now[m] \in Nat
            /\ baseline[m] \in Nat /\ Slack[m] \in Nat
        BY <3>1, <3>3, <4>1, <4>2, NumbersAssumption
        DEF Grows, Above, Census, TypeInv, TypeOK
      <4>4. Above(records[n].residue[m], m)
        BY <3>1, <4>1, <4>3 DEF Above
      <4>5. \E j \in 1..n : m \in records'[j].regressed
        BY <2>3, <4>1, <4>4
      <4> QED BY <2>2, <2>5, <4>5
    <3> QED BY <3>2, <3>3
  <2> QED BY <2>2, <2>4, <2>5
<1>2. CASE Baseline
  <2>1. records' = << >>
    BY <1>2 DEF Baseline, TypeInv, Control
  <2> QED BY <2>1 DEF GrowthIsReported
<1>3. CASE UNCHANGED <<records, baseline>>
  BY <1>3 DEF GrowthIsReported, Above
<1> QED BY <1>1, <1>2, <1>3
        DEF Next, CannotRun, PreflightKind, NothingPlanned, BeginWave, EndWaves,
            FailedStart, HoldEnds, HoldIsCut, Drain, Finish, vars

(* Once a metric is read above its baseline and slack, some wave until then  *)
(* has been failed for it, for any number of waves, metrics and slacks, and  *)
(* whichever of the readings were missing.                                   *)
THEOREM GrowthIsAlwaysReported == Spec => []GrowthIsReported
<1>1. Init => GrowthIsReported
  BY DEF Init, GrowthIsReported
<1>2. TypeInv /\ GrowthIsReported /\ [Next]_vars => GrowthIsReported'
  BY GrowthStep
<1> QED BY <1>1, <1>2, TypeInvariant, PTL DEF Spec

-----------------------------------------------------------------------------
(* What a wave did wrong is told: by a line at once, or by the wave's own    *)
(* line, for which it is kept in wave.failed until the census is taken.      *)

Owed == failed \/ infra \/ (wave # NoWave /\ wave.failed)

Told ==
  /\ flying => Owed
  /\ left => Owed \/ unread
  /\ \A i \in DOMAIN records : records[i].regressed # {} => failed
  /\ stage = "failedstart" => ~wave.failed
  /\ exit # None => stage = "ended"
  /\ exit = 0 => ~failed /\ ~infra

LEMMA ToldInitially == Init => Told
  BY NoneIsNoNumber DEF Init, Told

LEMMA ToldStep ==
  ASSUME TypeInv, Told, [Next]_vars
  PROVE  Told'
<1>1. CASE CannotRun \/ PreflightKind \/ Baseline \/ NothingPlanned \/ EndWaves
  <2>1. exit = None
    BY <1>1 DEF CannotRun, PreflightKind, Baseline, NothingPlanned, EndWaves, Told
  <2>2. /\ UNCHANGED <<wave, flying, unread, left>>
        /\ (failed => failed') /\ (infra => infra')
        /\ stage' # "failedstart"
    <3>1. UNCHANGED <<wave, flying, unread, left>> /\ stage' # "failedstart"
      BY <1>1 DEF CannotRun, PreflightKind, Baseline, NothingPlanned, EndWaves, Ghosts
    <3>2. failed => failed'
      BY <1>1 DEF CannotRun, PreflightKind, Baseline, NothingPlanned, EndWaves
    <3>3. infra => infra'
      BY <1>1 DEF CannotRun, PreflightKind, Baseline, NothingPlanned, EndWaves
    <3> QED BY <3>1, <3>2, <3>3
  <2>3. exit' = None \/ (exit' = 2 /\ stage' = "ended")
    BY <1>1, <2>1 DEF CannotRun, PreflightKind, Baseline, NothingPlanned, EndWaves
  <2>4. records' = records
    BY <1>1 DEF CannotRun, PreflightKind, Baseline, NothingPlanned, EndWaves
  <2>5. Owed => Owed'
    BY <2>2 DEF Owed
  <2>6. exit' # None => stage' = "ended"
    BY <2>3
  <2>7. exit' # 0
    BY <2>3, NoneIsNoNumber
  <2>8. ASSUME NEW i \in DOMAIN records, records[i].regressed # {} PROVE failed'
    BY <2>2, <2>8 DEF Told
  <2> QED BY <2>2, <2>4, <2>5, <2>6, <2>7, <2>8 DEF Told
<1>2. CASE BeginWave
  <2>1. wave = NoWave /\ exit = None
    BY <1>2 DEF BeginWave, TypeInv, Control, InWave, Told
  <2> QED BY <1>2, <2>1 DEF BeginWave, Ghosts, Told, Owed
<1>3. CASE FailedStart
  <2>1. stage = "failedstart" /\ wave \in InHand /\ wave # NoWave
    BY <1>3, NoWaveIsNotInHand DEF FailedStart, TypeInv, Control, InWave
  <2>2. wave' \in InHand
    BY <1>3, TypeStep DEF FailedStart, TypeInv, Control, InWave
  <2>3. UNCHANGED <<records, unread, left, exit>>
    BY <1>3 DEF FailedStart
  <2>4. ~wave.failed
    BY <1>3 DEF FailedStart, Told
  <2>5. (failed => failed') /\ (infra => infra')
    BY <1>3 DEF FailedStart
  <2>6. flying' => flying \/ failed'
    BY <1>3 DEF FailedStart
  <2>7. (Owed => Owed') /\ (flying' => Owed')
    BY <2>3, <2>4, <2>5, <2>6 DEF Owed, Told
  <2>8. exit' = None /\ stage' = "hold"
    BY <1>3, <2>1, <2>3 DEF FailedStart, Told
  <2>9. ASSUME NEW i \in DOMAIN records, records[i].regressed # {} PROVE failed'
    BY <2>5, <2>9 DEF Told
  <2> QED BY <2>3, <2>7, <2>8, <2>9, NoneIsNoNumber DEF Told
<1>4. CASE HoldEnds
  <2>1. stage = "hold" /\ wave \in InHand /\ wave # NoWave /\ wave' \in InHand
    BY <1>4, NoWaveIsNotInHand, TypeStep DEF HoldEnds, TypeInv, Control, InWave
  <2>2. PICK h \in Holds :
          /\ wave' = [wave EXCEPT !.failed = @ \/ h.failed, !.start = h.start]
          /\ failed' = (failed \/ h.line = "fail")
          /\ infra' = (infra \/ h.line = "infra")
          /\ flying' = (flying \/ h.flying)
    BY <1>4 DEF HoldEnds
  <2>3. h.line \in {"pass", "fail", "infra"} /\ (h.flying => h.failed \/ h.line # "pass")
    BY OutcomesAssumption DEF HonestHolds, Hold
  <2>4. /\ wave.failed => wave'.failed
        /\ h.failed => wave'.failed
    BY <2>1, <2>2 DEF InHand
  <2>5. UNCHANGED <<records, unread, left, exit>>
    BY <1>4 DEF HoldEnds
  <2>6. exit' = None /\ stage' = "drain"
    BY <1>4, <2>5 DEF HoldEnds, Told
  <2>7. (Owed => Owed') /\ (h.flying => Owed')
    BY <2>1, <2>2, <2>3, <2>4, NoWaveIsNotInHand DEF Owed
  <2>8. ASSUME NEW i \in DOMAIN records, records[i].regressed # {} PROVE failed'
    BY <2>2, <2>8 DEF Told
  <2>9. (flying' => Owed') /\ (left' => Owed' \/ unread')
    BY <2>2, <2>5, <2>7 DEF Told
  <2> QED BY <2>5, <2>6, <2>8, <2>9, NoneIsNoNumber DEF Told
<1>5. CASE HoldIsCut
  <2>1. UNCHANGED <<records, unread, left, exit>> /\ failed' = TRUE
    BY <1>5 DEF HoldIsCut
  <2>2. exit' = None /\ stage' = "drain"
    BY <1>5, <2>1 DEF HoldIsCut, Told
  <2> QED BY <2>1, <2>2, NoneIsNoNumber DEF Told, Owed
<1>6. CASE Drain
  <2>1. stage = "drain" /\ wave \in InHand /\ wave # NoWave /\ wave' \in InHand
    BY <1>6, NoWaveIsNotInHand, TypeStep DEF Drain, TypeInv, Control, InWave
  <2>2. PICK o \in Drains :
          /\ o.flying = flying
          /\ failed' = (failed \/ o.own)
          /\ wave' = [wave EXCEPT !.failed = @ \/ o.own]
          /\ unread' = (unread \/ o.unread)
          /\ left' = o.left
    BY <1>6 DEF Drain
  <2>3. o.left => o.own \/ o.unread \/ o.flying
    BY OutcomesAssumption DEF DrainOutcomes
  <2>4. wave.failed => wave'.failed
    BY <2>1, <2>2 DEF InHand
  <2>5. UNCHANGED <<records, infra, flying, exit>>
    BY <1>6 DEF Drain
  <2>6. exit' = None /\ stage' = "census"
    BY <1>6, <2>5 DEF Drain, Told
  <2>7. Owed => Owed'
    BY <2>1, <2>2, <2>4, <2>5, NoWaveIsNotInHand DEF Owed
  <2>8. o.own => Owed'
    BY <2>2 DEF Owed
  <2>9. (flying' => Owed') /\ (left' => Owed' \/ unread')
    BY <2>2, <2>3, <2>5, <2>7, <2>8 DEF Told
  <2>10. ASSUME NEW i \in DOMAIN records, records[i].regressed # {} PROVE failed'
    BY <2>2, <2>10 DEF Told
  <2> QED BY <2>5, <2>6, <2>9, <2>10, NoneIsNoNumber DEF Told
<1>7. CASE TakeCensus
  <2>1. PICK now \in Census :
          /\ records' = Append(records,
               [ kind |-> wave.kind, size |-> wave.size, began |-> wave.began,
                 took |-> clock' - wave.began, start |-> wave.start,
                 residue |-> now, regressed |-> Regressed(now) ])
          /\ failed' = (failed \/ wave.failed \/ Regressed(now) # {} \/ TooSlow)
    BY <1>7 DEF TakeCensus
  <2>2. UNCHANGED <<infra, flying, unread, left, exit>>
    BY <1>7 DEF TakeCensus, Ghosts
  <2>3. exit' = None /\ stage' = "waves"
    BY <1>7, <2>2 DEF TakeCensus, Told
  <2>4. Owed => Owed'
    BY <2>1, <2>2 DEF Owed
  <2>5. \A i \in DOMAIN records' : records'[i].regressed # {} => failed'
    <3> DEFINE n == Len(records)
    <3>1. /\ n \in Nat /\ DOMAIN records = 1..n /\ DOMAIN records' = 1..(n + 1)
          /\ \A i \in 1..n : records'[i] = records[i]
          /\ records'[n + 1].regressed = Regressed(now)
      BY <2>1 DEF TypeInv, TypeOK
    <3>2. \A i \in 1..n : records[i].regressed # {} => failed
      BY <3>1 DEF Told
    <3>3. ASSUME NEW i \in 1..n, records'[i].regressed # {} PROVE failed'
      BY <2>1, <3>1, <3>2, <3>3
    <3>4. records'[n + 1].regressed # {} => failed'
      BY <2>1, <3>1
    <3> QED BY <3>1, <3>3, <3>4
  <2>6. (flying' => Owed') /\ (left' => Owed' \/ unread')
    BY <2>2, <2>4 DEF Told
  <2> QED BY <2>3, <2>5, <2>6, NoneIsNoNumber DEF Told
<1>8. CASE Finish
  <2>1. UNCHANGED <<records, wave, failed, infra, flying, unread, left>>
    BY <1>8 DEF Finish, Ghosts
  <2>2. stage' = "ended" /\ (exit' = 0 => ~failed /\ ~infra)
    BY <1>8 DEF Finish, ExitCode
  <2> QED BY <2>1, <2>2 DEF Told, Owed
<1>9. CASE UNCHANGED vars
  BY <1>9 DEF vars, Told, Owed
<1> QED BY <1>1, <1>2, <1>3, <1>4, <1>5, <1>6, <1>7, <1>8, <1>9 DEF Next

LEMMA ToldInvariant == Spec => [](TypeInv /\ Told)
<1>1. TypeInv /\ Told /\ [Next]_vars => Told'
  BY ToldStep
<1> QED BY <1>1, ToldInitially, TypeInvariant, PTL DEF Spec

(* A run that ends in 0 left the node as it found it, for every contract-    *)
(* keeping hold and drain: nothing of the run is there if every source was   *)
(* read, and no metric is above its baseline and slack.                      *)
THEOREM PassedRunsAreClean == Spec => []PassedRunIsClean
<1>1. TypeInv /\ Told /\ GrowthIsReported => PassedRunIsClean
  <2> SUFFICES ASSUME TypeInv, Told, GrowthIsReported, exit = 0
               PROVE  /\ ~unread => ~left
                      /\ \A i \in DOMAIN records, m \in Metrics :
                           ~Above(records[i].residue[m], m)
    BY DEF PassedRunIsClean
  <2>1. ~failed /\ ~infra /\ wave = NoWave
    BY NoneIsNoNumber DEF Told, TypeInv, Control, InWave
  <2>2. ~unread => ~left
    BY <2>1 DEF Told, Owed
  <2>3. ASSUME NEW i \in DOMAIN records, NEW m \in Metrics,
               Above(records[i].residue[m], m)
        PROVE  FALSE
    <3>1. PICK j \in 1..i : m \in records[j].regressed
      BY <2>3 DEF GrowthIsReported
    <3>2. j \in DOMAIN records
      BY <3>1 DEF TypeInv, TypeOK
    <3> QED BY <2>1, <3>1, <3>2 DEF Told
  <2> QED BY <2>2, <2>3
<1> QED BY <1>1, ToldInvariant, GrowthIsAlwaysReported, PTL

-----------------------------------------------------------------------------
(* Time. A wave that is not the run's first begins in the window, so what    *)
(* follows it - the failed-start case that fits, the rest of the window or   *)
(* the hold's floor, the drain - ends by the timeout, but for what the last  *)
(* two take beyond their own times. Then nothing is reserved any more.       *)

LEMMA Scaled ==
  ASSUME NEW a \in Nat \ {0}, NEW b \in Nat, NEW c \in Nat, NEW d \in Nat,
         5 * a * b + c <= 5 * a * d
  PROVE  b <= d
<1> SUFFICES ASSUME b >= d + 1 PROVE FALSE
  OBVIOUS
<1>1. PICK e \in Nat : b = d + 1 + e
  BY b - d - 1 \in Nat, b = d + 1 + (b - d - 1)
<1>2. a * e \in Nat /\ a * d \in Nat
  OBVIOUS
<1>3. a * b = a * d + a + a * e
  BY <1>1
<1>4. 5 * a * b = 5 * (a * b) /\ 5 * a * d = 5 * (a * d)
  OBVIOUS
<1> QED BY <1>2, <1>3, <1>4

LEMMA LaterWavesBeginInTime ==
  ASSUME TypeInv, NEW k, NEW size \in Nat, RoomFor(k, size), records # << >>
  PROVE  clock <= WindowEnd
<1>1. CASE Earlier(k) = {}
  BY <1>1, TimesAreNat DEF RoomFor, TypeInv, TypeOK
<1>2. CASE Earlier(k) # {}
  <2>1. PICK i \in Earlier(k) :
          5 * records[i].size * clock + 6 * records[i].took * Max2(size, records[i].size)
            <= 5 * records[i].size * WindowEnd
    BY <1>2 DEF RoomFor, EstimateFits
  <2>2. records[i] \in WaveRecord
    BY DEF Earlier, TypeInv, TypeOK
  <2>3. /\ records[i].size \in Nat \ {0}
        /\ records[i].took \in Nat
        /\ Max2(size, records[i].size) \in Nat
    BY <2>2 DEF WaveRecord, Max2
  <2>4. 6 * records[i].took * Max2(size, records[i].size) \in Nat
    BY <2>3
  <2> QED BY <2>1, <2>3, <2>4, Scaled, TimesAreNat DEF TypeInv, TypeOK
<1> QED BY <1>1, <1>2

\* The run's first wave began after the window.
Late ==
  \/ records # << >> /\ records[1].began > WindowEnd
  \/ records = << >> /\ wave # NoWave /\ wave.began > WindowEnd

InTime ==
  Reserve <= Timeout /\ ~Late =>
    /\ stage = "failedstart" => clock <= WindowEnd
    /\ stage = "hold" => clock <= WindowEnd + beyond
    /\ stage = "drain" => clock <= WindowEnd + HoldFloor + beyond
    /\ stage = "census" \/ (stage \notin InWave /\ records # << >>) => clock <= Timeout + beyond

LEMMA InTimeStep ==
  ASSUME TypeInv, InTime, [Next]_vars
  PROVE  InTime'
<1> SUFFICES ASSUME Reserve <= Timeout, ~Late'
             PROVE  /\ stage' = "failedstart" => clock' <= WindowEnd
                    /\ stage' = "hold" => clock' <= WindowEnd + beyond'
                    /\ stage' = "drain" => clock' <= WindowEnd + HoldFloor + beyond'
                    /\ stage' = "census" \/ (stage' \notin InWave /\ records' # << >>)
                         => clock' <= Timeout + beyond'
  BY DEF InTime, InWave
<1>a. /\ clock \in Nat /\ beyond \in Nat
      /\ WindowEnd \in Nat /\ HoldFloor \in Nat /\ Timeout \in Nat
      /\ DrainTimeout \in Nat /\ FailedStartNeeds \in Nat
      /\ WindowEnd + HoldFloor + DrainTimeout = Timeout
  <2>1. clock \in Nat /\ beyond \in Nat
    BY DEF TypeInv, TypeOK
  <2>2. HoldFloor \in Nat /\ Timeout \in Nat /\ DrainTimeout \in Nat /\ FailedStartNeeds \in Nat
    BY NumbersAssumption
  <2>3. WindowEnd = Timeout - (DrainTimeout + HoldFloor) /\ WindowEnd \in Nat
    BY <2>2 DEF Reserve, WindowEnd, Max2
  <2> QED BY <2>1, <2>2, <2>3
<1>b. TypeInv'
  BY TypeStep
<1>1. CASE CannotRun \/ PreflightKind \/ Baseline \/ NothingPlanned
  BY <1>1 DEF CannotRun, PreflightKind, Baseline, NothingPlanned, TypeInv, Control, InWave
<1>2. CASE BeginWave
  <2>1. /\ clock' = clock /\ records' = records /\ beyond' = 0
        /\ stage' \in {"failedstart", "hold"}
    BY <1>2 DEF BeginWave
  <2>2. CASE records = << >>
    <3>1. wave' # NoWave /\ wave'.began = clock
      BY <1>2, <1>b, <2>1, NoWaveIsNotInHand DEF BeginWave, TypeInv, Control, InWave
    <3> QED BY <1>a, <2>1, <2>2, <3>1 DEF Late
  <2>3. CASE records # << >>
    <3>1. NextKind \in WaveKinds /\ NextSize \in Sizes[NextKind].min .. Sizes[NextKind].max
      BY <1>2, NextWaveIsPlanned DEF BeginWave, TypeInv, Control
    <3>2. NextSize \in Nat
      BY <3>1, PlanAssumption
    <3>3. clock <= WindowEnd
      BY <1>2, <2>3, <3>2, LaterWavesBeginInTime DEF BeginWave
    <3> QED BY <1>a, <2>1, <3>3 DEF InWave
  <2> QED BY <2>2, <2>3
<1>3. CASE EndWaves
  <2>1. UNCHANGED <<clock, records, wave, beyond>> /\ stage = "waves" /\ stage' = "cleanup"
    BY <1>3 DEF EndWaves
  <2> QED BY <2>1 DEF InTime, Late, InWave
<1>4. CASE FailedStart
  <2>1. UNCHANGED records /\ stage = "failedstart" /\ stage' = "hold"
    BY <1>4 DEF FailedStart
  <2>2. wave \in InHand /\ wave # NoWave /\ wave' # NoWave /\ wave'.began = wave.began
    BY <1>4, <1>b, <2>1, NoWaveIsNotInHand DEF FailedStart, TypeInv, Control, InWave, InHand
  <2>3. clock <= WindowEnd
    BY <2>1, <2>2 DEF InTime, Late
  <2>4. CASE UNCHANGED <<clock, beyond>>
    BY <1>a, <2>1, <2>3, <2>4
  <2>5. CASE /\ clock + FailedStartNeeds <= WindowEnd
             /\ \E t \in FailedStartTimes :
                  /\ clock' = clock + t
                  /\ beyond' = beyond + Max2(t - FailedStartNeeds, 0)
    <3>1. PICK t \in Nat : /\ clock' = clock + t
                           /\ beyond' = beyond + Max2(t - FailedStartNeeds, 0)
      BY <2>5, NumbersAssumption
    <3>2. clock' <= WindowEnd + beyond'
      BY <1>a, <2>5, <3>1 DEF Max2
    <3> QED BY <2>1, <3>2 DEF InWave
  <2> QED BY <1>4, <1>a, <2>4, <2>5 DEF FailedStart, Spend, Exceed
<1>5. CASE HoldEnds \/ HoldIsCut
  <2>1. UNCHANGED <<records, beyond>> /\ stage = "hold" /\ stage' = "drain"
    BY <1>5 DEF HoldEnds, HoldIsCut
  <2>2. wave \in InHand /\ wave # NoWave /\ wave' # NoWave /\ wave'.began = wave.began
    BY <1>5, <1>b, <2>1, NoWaveIsNotInHand
    DEF HoldEnds, HoldIsCut, TypeInv, Control, InWave, InHand
  <2>3. clock <= WindowEnd + beyond
    BY <2>1, <2>2 DEF InTime, Late
  <2>4. Remaining \in Nat /\ clock + Remaining <= WindowEnd + HoldFloor + beyond
    BY <1>a, <2>3 DEF Remaining, Max2
  <2>5. PICK t \in Nat : clock' = clock + t /\ t <= Remaining
    <3>1. CASE HoldEnds
      <4>1. PICK t \in HoldTimes : t < Remaining /\ clock' = clock + t
        BY <3>1 DEF HoldEnds, Spend
      <4> QED BY <2>4, <4>1, NumbersAssumption
    <3>2. CASE HoldIsCut
      BY <2>4, <3>2 DEF HoldIsCut, Spend
    <3> QED BY <1>5, <3>1, <3>2
  <2> QED BY <1>a, <2>1, <2>4, <2>5 DEF InWave
<1>6. CASE Drain
  <2>1. UNCHANGED records /\ stage = "drain" /\ stage' = "census"
    BY <1>6 DEF Drain
  <2>2. wave \in InHand /\ wave # NoWave /\ wave' # NoWave /\ wave'.began = wave.began
    BY <1>6, <1>b, <2>1, NoWaveIsNotInHand DEF Drain, TypeInv, Control, InWave, InHand
  <2>3. clock <= WindowEnd + HoldFloor + beyond
    BY <2>1, <2>2 DEF InTime, Late
  <2>4. PICK t \in Nat, x \in Nat :
          clock' = clock + t /\ beyond' = beyond + x /\ t <= DrainTimeout + x
    BY <1>6, DrainTakes
  <2>5. clock' <= Timeout + beyond'
    BY <1>a, <2>3, <2>4
  <2> QED BY <2>1, <2>5
<1>7. CASE TakeCensus
  <2>0. PICK c \in Nat : clock' = clock + c /\ beyond' = beyond + c
    BY <1>7, NumbersAssumption DEF TakeCensus, Spend, Exceed
  <2>1. /\ stage = "census" /\ stage' = "waves"
        /\ wave \in InHand /\ wave # NoWave
    BY <1>7, NoWaveIsNotInHand DEF TakeCensus, TypeInv, Control, InWave
  <2>2. PICK r : records' = Append(records, r) /\ r.began = wave.began
    BY <1>7 DEF TakeCensus
  <2>3. records' # << >> /\ records'[1].began = IF records = << >> THEN wave.began
                                              ELSE records[1].began
    BY <2>2 DEF TypeInv, TypeOK
  <2>4. ~Late
    BY <2>1, <2>3 DEF Late
  <2>5. clock <= Timeout + beyond
    BY <2>1, <2>4 DEF InTime
  <2> QED BY <1>a, <2>0, <2>1, <2>5
<1>8. CASE Finish
  <2>0. PICK t \in Nat : clock' = clock + t /\ beyond' = beyond + t
    BY <1>8, NumbersAssumption DEF Finish, Spend, Exceed
  <2>1. UNCHANGED <<records, wave>> /\ stage = "cleanup" /\ stage' = "ended"
    BY <1>8 DEF Finish
  <2>2. records # << >> => clock <= Timeout + beyond
    BY <2>1 DEF InTime, Late, InWave
  <2> QED BY <1>a, <2>0, <2>1, <2>2
<1>9. CASE UNCHANGED vars
  BY <1>9 DEF vars, InTime, Late, InWave
<1> QED BY <1>1, <1>2, <1>3, <1>4, <1>5, <1>6, <1>7, <1>8, <1>9 DEF Next

(* A run whose first wave begins in the window is over by its timeout but    *)
(* for what its last wave and the end took beyond what the window check      *)
(* reserves, for any kinds, sizes and estimates, and however long each step  *)
(* takes - if the timeout holds the reserve.                                 *)
THEOREM RunsEndInTime == Spec => []RunEndsInTime
<1>1. Init => InTime
  BY DEF Init, InTime, InWave
<1>2. TypeInv /\ InTime /\ [Next]_vars => InTime'
  BY InTimeStep
<1>3. TypeInv /\ InTime => RunEndsInTime
  <2> SUFFICES ASSUME TypeInv, InTime, stage = "ended", Reserve <= Timeout,
                      records # << >>, records[1].began <= WindowEnd
               PROVE  clock <= Timeout + beyond
    BY DEF RunEndsInTime
  <2>1. records[1].began \in Nat
    <3>1. records[1] \in WaveRecord
      BY DEF TypeInv, TypeOK
    <3> QED BY <3>1 DEF WaveRecord
  <2>2. ~Late
    BY <2>1, TimesAreNat DEF Late
  <2> QED BY <2>2 DEF InTime, InWave
<1> QED BY <1>1, <1>2, <1>3, TypeInvariant, PTL DEF Spec

-----------------------------------------------------------------------------
(* Slowness. While nothing has failed every wave was measured, so the first  *)
(* of its kind is what each later one was compared with.                     *)

FirstOf(rs, i) == \A l \in DOMAIN rs : rs[l].kind = rs[i].kind => i <= l

SteadyUpTo(rs, j) ==
  /\ rs[j].start # None
  /\ \A i \in DOMAIN rs :
       rs[i].kind = rs[j].kind /\ FirstOf(rs, i) /\ i < j =>
         rs[j].start <= SlowLimit(rs[i].start)

Steady ==
  /\ stage \in {"drain", "census"} /\ wave.start = None => wave.failed
  /\ ~failed => \A j \in DOMAIN records : SteadyUpTo(records, j)

\* A wave's record keeps it: it was measured, and compared with the first.
LEMMA CensusKeepsSteady ==
  ASSUME TypeInv, Steady, TakeCensus
  PROVE  Steady'
<1>1. PICK r :
        /\ records' = Append(records, r)
        /\ r.kind = wave.kind /\ r.start = wave.start
        /\ failed' = (failed \/ wave.failed \/ r.regressed # {} \/ TooSlow)
  <2>1. PICK now \in Census :
          /\ records' = Append(records,
               [ kind |-> wave.kind, size |-> wave.size, began |-> wave.began,
                 took |-> clock' - wave.began, start |-> wave.start,
                 residue |-> now, regressed |-> Regressed(now) ])
          /\ failed' = (failed \/ wave.failed \/ Regressed(now) # {} \/ TooSlow)
    BY DEF TakeCensus
  <2> QED BY <2>1
<1> DEFINE n == Len(records)
           rs == Append(records, r)
<1>2. /\ n \in Nat /\ DOMAIN records = 1..n /\ DOMAIN rs = 1..(n + 1)
      /\ \A i \in 1..n : rs[i] = records[i]
      /\ rs[n + 1] = r
  BY <1>1 DEF TypeInv, TypeOK
<1>3. stage = "census" /\ stage' = "waves" /\ records' = rs
  BY <1>1 DEF TakeCensus
<1> HIDE DEF n, rs
<1> SUFFICES ASSUME ~failed', NEW j \in 1..(n + 1)
             PROVE  SteadyUpTo(rs, j)
  BY <1>2, <1>3 DEF Steady
<1>4. ~failed /\ ~wave.failed /\ ~TooSlow
  BY <1>1
<1>5. ASSUME NEW i \in 1..n, FirstOf(rs, i) PROVE FirstOf(records, i)
  BY <1>2, <1>5 DEF FirstOf
<1>6. CASE j \in 1..n
  <2>1. SteadyUpTo(records, j) /\ rs[j] = records[j]
    BY <1>2, <1>4, <1>6 DEF Steady
  <2>2. ASSUME NEW i \in 1..(n + 1), rs[i].kind = rs[j].kind, FirstOf(rs, i), i < j
        PROVE  rs[j].start <= SlowLimit(rs[i].start)
    <3>1. i \in 1..n
      BY <1>2, <1>6, <2>2
    <3>2. FirstOf(records, i) /\ rs[i] = records[i]
      BY <1>2, <1>5, <2>2, <3>1
    <3> QED BY <1>2, <2>1, <2>2, <3>1, <3>2 DEF SteadyUpTo
  <2> QED BY <1>2, <2>1, <2>2 DEF SteadyUpTo
<1>7. CASE j = n + 1
  <2>1. rs[j] = r /\ wave.start # None
    BY <1>2, <1>3, <1>4, <1>7 DEF Steady
  <2>2. ASSUME NEW i \in 1..(n + 1), rs[i].kind = rs[j].kind, FirstOf(rs, i), i < j
        PROVE  rs[j].start <= SlowLimit(rs[i].start)
    <3>1. i \in 1..n
      BY <1>2, <1>7, <2>2
    <3>2. FirstOf(records, i) /\ rs[i] = records[i] /\ records[i].kind = wave.kind
      BY <1>1, <1>2, <1>5, <2>1, <2>2, <3>1
    <3>3. records[i].start # None
      BY <1>2, <1>4, <3>1 DEF Steady, SteadyUpTo
    <3>4. records[i].start \in FirstStart(wave.kind)
      <4>1. i \in Earlier(wave.kind)
        BY <1>2, <3>1, <3>2 DEF Earlier
      <4>2. \A l \in Earlier(wave.kind) : i <= l
        BY <3>2 DEF Earlier, FirstOf
      <4> QED BY <3>3, <4>1, <4>2 DEF FirstStart
    <3>5. ~(wave.start > SlowLimit(records[i].start))
      BY <1>4, <2>1, <3>4 DEF TooSlow
    <3>6. wave.start \in Nat /\ SlowLimit(records[i].start) \in Int
      <4>1. wave \in InHand /\ records[i] \in WaveRecord
        BY <1>2, <1>3, <3>1 DEF TypeInv, TypeOK, Control, InWave
      <4>2. wave.start \in Nat
        BY <2>1, <4>1 DEF InHand
      <4>3. records[i].start \in Nat
        BY <3>3, <4>1 DEF WaveRecord
      <4>4. (3 * records[i].start) \div 2 \in Int /\ SlowdownGrace \in Int
        BY <4>3, NumbersAssumption
      <4> QED BY <4>2, <4>4 DEF SlowLimit
    <3> HIDE DEF SlowLimit
    <3>7. wave.start <= SlowLimit(records[i].start)
      BY <3>5, <3>6
    <3> QED BY <1>1, <2>1, <3>2, <3>7
  <2> QED BY <1>2, <2>1, <2>2, <1>1 DEF SteadyUpTo
<1> QED BY <1>2, <1>6, <1>7

\* No step loses it: what is not measured has failed by the time of the census.
LEMMA SteadyStep ==
  ASSUME TypeInv, Steady, [Next]_vars
  PROVE  Steady'
<1>1. CASE TakeCensus
  BY <1>1, CensusKeepsSteady
<1>2. ASSUME UNCHANGED records, failed => failed',
             stage' \in {"drain", "census"} /\ wave'.start = None => wave'.failed
      PROVE  Steady'
  BY <1>2 DEF Steady
<1>3. CASE CannotRun \/ PreflightKind \/ Baseline \/ NothingPlanned
  BY <1>2, <1>3 DEF CannotRun, PreflightKind, Baseline, NothingPlanned, Steady
<1>4. CASE BeginWave \/ EndWaves \/ FailedStart \/ Finish
  <2>1. UNCHANGED records /\ stage' \notin {"drain", "census"}
    BY <1>4 DEF BeginWave, EndWaves, FailedStart, Finish
  <2>2. failed => failed'
    BY <1>4, Zenon DEF BeginWave, EndWaves, FailedStart, Finish
  <2> QED BY <1>2, <2>1, <2>2
<1>5. CASE HoldEnds
  <2>1. wave \in InHand
    BY <1>5, NoWaveIsNotInHand DEF HoldEnds, TypeInv, Control, InWave
  <2>2. PICK h \in Holds : wave' = [wave EXCEPT !.failed = @ \/ h.failed, !.start = h.start]
    BY <1>5 DEF HoldEnds
  <2>3. wave'.start = h.start /\ wave'.failed = (wave.failed \/ h.failed)
    BY <2>1, <2>2 DEF InHand
  <2>4. ~h.failed => h.start # None
    BY OutcomesAssumption DEF HonestHolds
  <2>5. UNCHANGED records /\ (failed => failed')
    BY <1>5 DEF HoldEnds
  <2> QED BY <1>2, <2>3, <2>4, <2>5
<1>6. CASE HoldIsCut
  <2>1. wave \in InHand
    BY <1>6, NoWaveIsNotInHand DEF HoldIsCut, TypeInv, Control, InWave
  <2>2. UNCHANGED records /\ failed' /\ wave'.failed
    BY <1>6, <2>1 DEF HoldIsCut, InHand
  <2> QED BY <1>2, <2>2
<1>7. CASE Drain
  <2>1. wave \in InHand /\ stage = "drain"
    BY <1>7, NoWaveIsNotInHand DEF Drain, TypeInv, Control, InWave
  <2>2. PICK o \in Drains : wave' = [wave EXCEPT !.failed = @ \/ o.own]
    BY <1>7 DEF Drain
  <2>3. wave'.start = wave.start /\ (wave.failed => wave'.failed)
    BY <2>1, <2>2 DEF InHand
  <2>4. UNCHANGED records /\ (failed => failed')
    BY <1>7 DEF Drain
  <2> QED BY <1>2, <2>1, <2>3, <2>4 DEF Steady
<1>8. CASE UNCHANGED vars
  BY <1>8 DEF vars, Steady
<1> QED BY <1>1, <1>3, <1>4, <1>5, <1>6, <1>7, <1>8 DEF Next


(* No wave of a run that ends in 0 was slower than the slowdown allows over  *)
(* the first of its kind that was measured - for holds that measure what did *)
(* not fail.                                                                 *)
THEOREM PassedRunsDidNotSlow == Spec => []PassedRunDidNotSlow
<1>1. Init => Steady
  BY DEF Init, Steady
<1>2. TypeInv /\ Steady /\ [Next]_vars => Steady'
  BY SteadyStep
<1>3. TypeInv /\ Told /\ Steady => PassedRunDidNotSlow
  <2> SUFFICES ASSUME TypeInv, Told, Steady, exit = 0,
                      NEW j \in DOMAIN records, NEW i \in FirstMeasured(records[j].kind),
                      i < j
               PROVE  records[j].start <= SlowLimit(records[i].start)
    BY DEF PassedRunDidNotSlow
  <2>1. ~failed
    BY DEF Told
  <2>2. i \in DOMAIN records /\ records[i].kind = records[j].kind
    BY DEF FirstMeasured, Earlier
  <2>3. ASSUME NEW l \in DOMAIN records, records[l].kind = records[i].kind PROVE i <= l
    <3>1. l \in Nat /\ i \in Nat
      BY <2>2 DEF TypeInv, TypeOK
    <3>2. records[l].start # None
      BY <2>1 DEF Steady, SteadyUpTo
    <3>3. l \in Earlier(records[j].kind)
      BY <2>2, <2>3 DEF Earlier
    <3>4. ~(l < i)
      BY <3>2, <3>3 DEF FirstMeasured
    <3> QED BY <3>1, <3>4
  <2> QED BY <2>1, <2>2, <2>3 DEF Steady, SteadyUpTo, FirstOf
<1> QED BY <1>1, <1>2, <1>3, ToldInvariant, PTL DEF Spec
=============================================================================
