-------------------------- MODULE TurbomodeProofs --------------------------
(***************************************************************************)
(* Proofs about the turbomode driver, for every list of profiles, every    *)
(* window and timeout, every bound on the attempts, and every set of       *)
(* outcomes of the contract; about an attempt's observer, for every set of *)
(* Pods and number of slots, faults and timeouts; and of what Turbomode    *)
(* states of the two.                                                      *)
(***************************************************************************)
EXTENDS Turbomode, FiniteSetTheorems, TLAPS

-----------------------------------------------------------------------------
(* The loops: an attempt runs only for a profile of the list, and one was   *)
(* made before it is judged. TypeOK is not inductive without it.            *)

Control ==
  /\ TypeOK
  /\ pc \in {"attempt", "judge"} => index <= Len(Profiles)
  /\ pc = "judge" => history # << >>
  /\ pc \in {"preflight", "profile"} => history = << >>

\* What every line-emitting step does to the lines and the counters.
LEMMA EmittedLine ==
  ASSUME TypeOK,
         NEW name \in ProfileNames \cup {"preflight"},
         NEW status \in {"pass", "fail", "infra"},
         NEW why \in {"none", "final", "unclean", "exhausted", "window"},
         EmitLine(name, status, why)
  PROVE  /\ lines' \in Seq(Line)
         /\ counts' \in [pass : Nat, fail : Nat, infra : Nat]
         /\ Len(lines') = Len(lines) + 1
         /\ \A i \in 1..Len(lines) : lines'[i] = lines[i]
         /\ lines'[Len(lines) + 1] =
              [ profile |-> name, status |-> status, stopped |-> why,
                attempts |-> history, at |-> clock ]
<1> DEFINE new == [ profile |-> name, status |-> status, stopped |-> why,
                    attempts |-> history, at |-> clock ]
<1>1. new \in Line
  BY DEF Line, TypeOK
<1>2. lines \in Seq(Line) /\ lines' = Append(lines, new)
  BY DEF EmitLine, TypeOK
<1>3. counts' \in [pass : Nat, fail : Nat, infra : Nat]
  BY DEF EmitLine, Emit, TypeOK
<1> HIDE DEF new
<1>4. /\ lines' \in Seq(Line)
      /\ Len(lines') = Len(lines) + 1
      /\ \A i \in 1..Len(lines) : lines'[i] = lines[i]
      /\ lines'[Len(lines) + 1] = new
  BY <1>1, <1>2
<1> QED BY <1>3, <1>4 DEF new

LEMMA ControlStep == Control /\ [Next]_vars => Control'
<1> SUFFICES ASSUME Control, [Next]_vars PROVE Control'
  OBVIOUS
<1> USE ProfilesAssumption, SecondsAssumption DEF Control
<1>1. ASSUME index <= Len(Profiles)
      PROVE  /\ Profiles[index] \in ProfileNames
             /\ index + 1 \in 1..Len(Profiles) + 1
  BY <1>1 DEF TypeOK
\* Every step that ends a profile with its line goes on the same way.
<1>e. ASSUME NEW status \in {"pass", "fail", "infra"},
             NEW why \in {"none", "final", "unclean", "exhausted", "window"},
             index <= Len(Profiles),
             EmitLine(Profiles[index], status, why),
             NextProfile, UNCHANGED <<clock, blocked, code>>
      PROVE  Control'
  <2>1. /\ lines' \in Seq(Line)
        /\ counts' \in [pass : Nat, fail : Nat, infra : Nat]
    BY <1>1, <1>e, EmittedLine
  <2> QED BY <1>1, <1>e, <2>1 DEF NextProfile, TypeOK
<1>2. CASE PreflightError
  BY <1>2 DEF PreflightError, TypeOK
<1>3. CASE PreflightRefused
  BY <1>3, EmittedLine DEF PreflightRefused, TypeOK
<1>4. CASE PreflightPassed
  BY <1>4 DEF PreflightPassed, TypeOK
<1>5. CASE ProfileBlocked
  BY <1>5, <1>e DEF ProfileBlocked
<1>6. CASE ProfileWithoutRoom
  BY <1>6, <1>e DEF ProfileWithoutRoom
<1>7. CASE FirstAttempt
  BY <1>7 DEF FirstAttempt, TypeOK
<1>8. CASE Finish
  BY <1>8 DEF Finish, ExitCode, TypeOK
<1>9. CASE AttemptEnds
  <2>1. PICK o \in Outcomes, d \in AttemptDurations :
          history' = Append(history, o) /\ clock' = clock + d
    BY <1>9 DEF AttemptEnds
  <2>2. history' \in Seq(Outcomes) /\ Len(history') > 0 /\ clock' \in Nat
    BY <2>1 DEF TypeOK
  <2> QED BY <1>9, <2>2 DEF AttemptEnds, TypeOK
<1>10. CASE ProfilePassed
  BY <1>10, <1>e DEF ProfilePassed
<1>11. CASE ProfileStopped
  <2>1. /\ index <= Len(Profiles)
        /\ NextProfile /\ UNCHANGED <<clock, blocked, code>>
        /\ \/ EmitLine(Profiles[index], "fail", "final")
           \/ EmitLine(Profiles[index], "fail", "unclean")
    BY <1>11 DEF ProfileStopped
  <2> QED BY <2>1, <1>e
<1>12. CASE ProfileExhausted
  BY <1>12, <1>e DEF ProfileExhausted
<1>13. CASE ProfileOutOfWindow
  BY <1>13, <1>e DEF ProfileOutOfWindow
<1>14. CASE Retry
  BY <1>14 DEF Retry, TypeOK
<1>15. CASE UNCHANGED vars
  BY <1>15 DEF vars, TypeOK
<1> QED
  BY <1>2, <1>3, <1>4, <1>5, <1>6, <1>7, <1>8, <1>9, <1>10, <1>11, <1>12, <1>13,
     <1>14, <1>15 DEF Next

LEMMA ControlInitially == Init => Control
<1>1. Len(Profiles) \in Nat
  BY ProfilesAssumption
<1>2. << >> \in Seq(Outcomes) /\ << >> \in Seq(Line)
  OBVIOUS
<1>3. ASSUME Init PROVE TypeOK
  <2>1. /\ history \in Seq(Outcomes) /\ lines \in Seq(Line)
        /\ counts \in [pass : Nat, fail : Nat, infra : Nat]
    BY <1>2, <1>3 DEF Init
  <2>2. index \in 1..Len(Profiles) + 1 /\ clock \in Nat
    BY <1>1, <1>3 DEF Init
  <2>4. blocked \in BOOLEAN
    BY <1>3 DEF Init
  <2>3. pc \in {"preflight", "profile", "attempt", "judge", "done"} /\ code \in {-1, 0, 1, 2}
    BY <1>3 DEF Init
  <2> QED BY <2>1, <2>2, <2>3, <2>4 DEF TypeOK
<1>4. Init => pc = "preflight" /\ history = << >>
  BY DEF Init
<1> QED BY <1>3, <1>4 DEF Control

LEMMA ControlInvariant == Spec => []Control
  BY ControlInitially, ControlStep, PTL DEF Spec

(* The driver's state always has its type: an index into the profiles, lines *)
(* and histories of the contract's outcomes, counters that never go below 0. *)
THEOREM TypeCorrect == Spec => []TypeOK
<1>1. Control => TypeOK
  BY DEF Control
<1> QED BY <1>1, ControlInvariant, PTL

-----------------------------------------------------------------------------
(* Nothing is hidden by a retry: every attempt that was followed by another  *)
(* was retryable, so when the last one passes, none of them left anything or *)
(* damaged anything.                                                         *)

\* The attempts of a history that were followed by another.
RetriesClean ==
  /\ \A k \in 1..Len(history) : k < Len(history) => Retryable(history[k])
  /\ pc = "attempt" => \A k \in 1..Len(history) : Retryable(history[k])

Honest == Control /\ RetriesClean /\ PassHidesNothing

\* A retryable outcome and a pass leave nothing: the contract of an attempt.
LEMMA HarmlessOutcome ==
  ASSUME NEW o \in Outcomes, Retryable(o) \/ o.passed
  PROVE  ~o.left /\ ~o.corrupt
<1>1. o \in AttemptOutcomes
  BY OutcomesAssumption
<1>2. /\ o.passed <=> (o.kinds = {})
      /\ o.passed => o.verified
      /\ o.verified => ~o.left
      /\ o.corrupt => "integrity" \in o.kinds
  BY <1>1 DEF AttemptOutcomes
<1> QED BY <1>2 DEF Retryable

LEMMA HonestStep == Honest /\ [Next]_vars => Honest'
<1> SUFFICES ASSUME Honest, [Next]_vars PROVE RetriesClean' /\ PassHidesNothing'
  BY ControlStep DEF Honest
<1> USE DEF Honest
<1>t. TypeOK /\ Control'
  BY ControlStep DEF Control
<1>1. ASSUME UNCHANGED <<history, lines>>,
             pc' = "attempt" => pc = "profile" \/ (pc = "judge" /\ Retryable(Last)) \/ pc = "attempt"
      PROVE  RetriesClean' /\ PassHidesNothing'
  <2>1. PassHidesNothing'
    BY <1>1 DEF PassHidesNothing
  <2>2. ASSUME pc' = "attempt", NEW k \in 1..Len(history) PROVE Retryable(history[k])
    <3>1. CASE pc = "profile"
      BY <3>1, <2>2 DEF Control
    <3>2. CASE pc = "judge" /\ Retryable(Last)
      BY <3>2, <1>t DEF RetriesClean, Last, TypeOK
    <3>3. CASE pc = "attempt"
      BY <3>3 DEF RetriesClean
    <3> QED BY <1>1, <2>2, <3>1, <3>2, <3>3
  <2> QED BY <1>1, <2>1, <2>2 DEF RetriesClean
<1>2. ASSUME NEW name \in ProfileNames \cup {"preflight"},
             NEW status \in {"pass", "fail", "infra"},
             NEW why \in {"none", "final", "unclean", "exhausted", "window"},
             EmitLine(name, status, why),
             status = "pass" => pc = "judge" /\ Last.passed,
             pc' # "attempt",
             history' = << >> \/ UNCHANGED history
      PROVE  RetriesClean' /\ PassHidesNothing'
  <2>1. RetriesClean'
    BY <1>2 DEF RetriesClean
  <2>2. /\ lines \in Seq(Line) /\ lines' \in Seq(Line)
        /\ Len(lines') = Len(lines) + 1
        /\ \A i \in 1..Len(lines) : lines'[i] = lines[i]
        /\ lines'[Len(lines) + 1] =
             [ profile |-> name, status |-> status, stopped |-> why,
               attempts |-> history, at |-> clock ]
    <3>1. lines \in Seq(Line)
      BY <1>t DEF TypeOK
    <3> QED BY <1>2, <1>t, <3>1, EmittedLine
  <2>3. ASSUME status = "pass", NEW k \in DOMAIN history
        PROVE  ~history[k].left /\ ~history[k].corrupt
    <3>1. history \in Seq(Outcomes) /\ k \in 1..Len(history)
      BY <2>3, <1>t DEF TypeOK
    <3>2. Retryable(history[k]) \/ history[k].passed
      BY <3>1, <1>2, <2>3 DEF RetriesClean, Last
    <3> QED BY <3>1, <3>2, HarmlessOutcome
  <2>4. PassHidesNothing'
    <3> SUFFICES ASSUME NEW i \in DOMAIN lines', lines'[i].status = "pass",
                        NEW k \in DOMAIN lines'[i].attempts
                 PROVE  /\ ~lines'[i].attempts[k].left
                        /\ ~lines'[i].attempts[k].corrupt
      BY DEF PassHidesNothing
    <3>1. CASE i \in 1..Len(lines)
      BY <3>1, <2>2 DEF PassHidesNothing
    <3>2. CASE i = Len(lines) + 1
      BY <3>2, <2>2, <2>3
    <3> QED BY <2>2, <3>1, <3>2
  <2> QED BY <2>1, <2>4
<1>3. CASE PreflightError \/ PreflightPassed \/ FirstAttempt \/ Finish
  BY <1>3, <1>1 DEF PreflightError, PreflightPassed, FirstAttempt, Finish
<1>4. CASE PreflightRefused
  BY <1>4, <1>2 DEF PreflightRefused
<1>5. ASSUME index <= Len(Profiles)
      PROVE  Profiles[index] \in ProfileNames
  BY <1>5, <1>t, ProfilesAssumption DEF TypeOK
<1>6. CASE ProfileBlocked \/ ProfileWithoutRoom
  BY <1>6, <1>2, <1>5 DEF ProfileBlocked, ProfileWithoutRoom, NextProfile, ProfileNames
<1>7. CASE AttemptEnds
  <2>1. PICK o \in Outcomes, d \in AttemptDurations :
          history' = Append(history, o) /\ pc = "attempt" /\ pc' = "judge" /\ lines' = lines
    BY <1>7 DEF AttemptEnds
  <2>2. /\ Len(history') = Len(history) + 1
        /\ \A k \in 1..Len(history) : history'[k] = history[k]
    BY <2>1, <1>t DEF TypeOK
  <2>3. RetriesClean'
    BY <2>1, <2>2, <1>t DEF RetriesClean, TypeOK
  <2> QED BY <2>1, <2>3 DEF PassHidesNothing
<1>8. CASE ProfilePassed
  BY <1>8, <1>2, <1>5 DEF ProfilePassed, NextProfile, Control
<1>9. CASE ProfileStopped
  <2>1. /\ NextProfile /\ index <= Len(Profiles)
        /\ \/ EmitLine(Profiles[index], "fail", "final")
           \/ EmitLine(Profiles[index], "fail", "unclean")
    BY <1>9 DEF ProfileStopped, Control
  <2> QED BY <2>1, <1>2, <1>5 DEF NextProfile
<1>10. CASE ProfileExhausted \/ ProfileOutOfWindow
  BY <1>10, <1>2, <1>5 DEF ProfileExhausted, ProfileOutOfWindow, NextProfile, Control
<1>11. CASE Retry
  BY <1>11, <1>1 DEF Retry
<1>12. CASE UNCHANGED vars
  BY <1>12, <1>1 DEF vars
<1> QED
  BY <1>3, <1>4, <1>6, <1>7, <1>8, <1>9, <1>10, <1>11, <1>12 DEF Next

(* A profile reported as passed conceals neither a leak nor a corruption of   *)
(* an earlier attempt (`retryable`).                                          *)
THEOREM RetriesConcealNothing == Spec => []PassHidesNothing
<1>1. Init => Honest
  <2>1. Init => RetriesClean /\ PassHidesNothing
    BY DEF Init, RetriesClean, PassHidesNothing
  <2> QED BY <2>1, ControlInitially DEF Honest
<1>2. Honest => PassHidesNothing
  BY DEF Honest
<1> QED BY <1>1, <1>2, HonestStep, PTL DEF Spec

-----------------------------------------------------------------------------
(* The window: an attempt, and its cleanup with it, is over before the run   *)
(* window closes, whatever was retried before it.                            *)

InTime ==
  /\ Control
  /\ pc = "attempt" => clock + WorstCase <= Window
  /\ AttemptEndsInWindow

LEMMA InTimeStep == ASSUME AttemptsBounded PROVE InTime /\ [Next]_vars => InTime'
<1> SUFFICES ASSUME InTime, [Next]_vars
             PROVE  /\ (pc = "attempt" => clock + WorstCase <= Window)'
                    /\ AttemptEndsInWindow'
  BY ControlStep DEF InTime
<1> USE SecondsAssumption DEF InTime, AttemptEndsInWindow
<1>1. clock \in Nat /\ WorstCase \in Nat
  BY DEF Control, TypeOK, WorstCase, AttemptReserve
<1> DEFINE other == \/ PreflightError \/ PreflightRefused \/ PreflightPassed
                    \/ ProfileBlocked \/ ProfileWithoutRoom \/ Finish
                    \/ ProfilePassed \/ ProfileStopped \/ ProfileExhausted \/ ProfileOutOfWindow
<1>2. CASE other
  <2>1. pc' \in {"profile", "done"}
    BY <1>2 DEF PreflightError, PreflightRefused, PreflightPassed, ProfileBlocked,
                ProfileWithoutRoom, Finish, ProfilePassed, ProfileStopped,
                ProfileExhausted, ProfileOutOfWindow, NextProfile
  <2> QED BY <2>1
<1>3. CASE FirstAttempt
  BY <1>3 DEF FirstAttempt, AttemptFits
<1>4. CASE Retry
  BY <1>4, <1>1 DEF Retry, RetryFits, AttemptFits
<1>5. CASE AttemptEnds
  <2>1. PICK d \in AttemptDurations : clock' = clock + d
    BY <1>5 DEF AttemptEnds
  <2>2. d \in Nat /\ d <= WorstCase
    BY DEF AttemptsBounded
  <2>3. clock' <= Window
    BY <1>1, <1>5, <2>1, <2>2 DEF AttemptEnds
  <2> QED BY <1>5, <2>3 DEF AttemptEnds
<1>6. CASE UNCHANGED vars
  BY <1>6 DEF vars
<1> QED BY <1>2, <1>3, <1>4, <1>5, <1>6 DEF Next

(* If no attempt takes longer than the worst case `attempt_fits` reserves,   *)
(* every attempt is over, with its cleanup and its result, in the window.    *)
THEOREM AttemptsEndInWindow == ASSUME AttemptsBounded PROVE Spec => []AttemptEndsInWindow
<1>1. Init => InTime
  BY ControlInitially DEF Init, InTime, AttemptEndsInWindow
<1>2. InTime => AttemptEndsInWindow
  BY DEF InTime
<1> QED BY <1>1, <1>2, InTimeStep, PTL DEF Spec

-----------------------------------------------------------------------------
(* The exit code: the counters agree with the lines, and there is one line   *)
(* for each profile the loop has passed.                                     *)

Tally ==
  /\ Control
  /\ counts.infra <= counts.fail
  /\ counts.fail > counts.infra <=> \E i \in 1..Len(lines) : lines[i].status = "fail"
  /\ counts.infra > 0 <=> \E i \in 1..Len(lines) : lines[i].status = "infra"
  /\ pc = "preflight" => lines = << >> /\ index = 1
  /\ pc \in {"profile", "attempt", "judge"} =>
       /\ Len(lines) = index - 1
       /\ \A i \in 1..Len(lines) : lines[i].profile # "preflight"
       /\ index > 0 /\ Len(Profiles) > 0
  /\ ExitTellsTheLines

\* A line added keeps the counters and the lines in step.
LEMMA TalliedLine ==
  ASSUME Tally,
         NEW name \in ProfileNames \cup {"preflight"},
         NEW status \in {"pass", "fail", "infra"},
         NEW why \in {"none", "final", "unclean", "exhausted", "window"},
         EmitLine(name, status, why)
  PROVE  /\ counts'.infra <= counts'.fail
         /\ counts'.fail > counts'.infra <=> \E i \in 1..Len(lines') : lines'[i].status = "fail"
         /\ counts'.infra > 0 <=> \E i \in 1..Len(lines') : lines'[i].status = "infra"
<1>1. TypeOK /\ lines \in Seq(Line) /\ counts \in [pass : Nat, fail : Nat, infra : Nat]
  BY DEF Tally, Control, TypeOK
<1>2. /\ Len(lines') = Len(lines) + 1
      /\ \A i \in 1..Len(lines) : lines'[i] = lines[i]
      /\ lines'[Len(lines) + 1].status = status
  <2>1. lines'[Len(lines) + 1] = [ profile |-> name, status |-> status, stopped |-> why,
                                   attempts |-> history, at |-> clock ]
    BY <1>1, EmittedLine
  <2>2. /\ Len(lines') = Len(lines) + 1
        /\ \A i \in 1..Len(lines) : lines'[i] = lines[i]
    BY <1>1, EmittedLine
  <2> QED BY <2>1, <2>2
<1>3. \A s : (\E i \in 1..Len(lines') : lines'[i].status = s)
               <=> (s = status \/ \E i \in 1..Len(lines) : lines[i].status = s)
  <2>1. Len(lines) \in Nat
    BY <1>1
  <2>2. 1..Len(lines') = 1..Len(lines) \cup {Len(lines) + 1}
    BY <1>2, <2>1
  <2> QED BY <1>2, <2>2
<1>4. counts' = Emit(counts, status)
  BY DEF EmitLine
<1>5. /\ counts.infra <= counts.fail
      /\ counts.fail > counts.infra <=> \E i \in 1..Len(lines) : lines[i].status = "fail"
      /\ counts.infra > 0 <=> \E i \in 1..Len(lines) : lines[i].status = "infra"
  BY DEF Tally
<1>6. /\ counts'.infra <= counts'.fail
      /\ counts'.fail > counts'.infra <=> (status = "fail" \/ counts.fail > counts.infra)
      /\ counts'.infra > 0 <=> (status = "infra" \/ counts.infra > 0)
  BY ONLY <1>1, <1>4, <1>5, status \in {"pass", "fail", "infra"} DEF Emit
<1> QED BY <1>3, <1>5, <1>6

LEMMA TallyStep == Tally /\ [Next]_vars => Tally'
<1> SUFFICES ASSUME Tally, [Next]_vars PROVE Tally'
  OBVIOUS
<1>t. /\ Control /\ Control' /\ TypeOK
      /\ lines \in Seq(Line) /\ index \in Nat /\ Len(Profiles) \in Nat
      /\ counts \in [pass : Nat, fail : Nat, infra : Nat]
  BY ControlStep, ProfilesAssumption DEF Tally, Control, TypeOK
<1>p. index <= Len(Profiles) => Profiles[index] \in ProfileNames /\ Profiles[index] # "preflight"
  BY <1>t, ProfilesAssumption DEF TypeOK, ProfileNames
<1>1. ASSUME NEW status \in {"pass", "fail", "infra"},
             NEW why \in {"none", "final", "unclean", "exhausted", "window"},
             pc \in {"profile", "judge"}, index <= Len(Profiles),
             EmitLine(Profiles[index], status, why), NextProfile
      PROVE  Tally'
  <2>1. lines'[Len(lines) + 1].profile = Profiles[index]
    <3>1. PICK name \in ProfileNames \cup {"preflight"} : name = Profiles[index]
      BY <1>1, <1>p
    <3>2. EmitLine(name, status, why)
      BY <1>1, <3>1
    <3>3. lines'[Len(lines) + 1] = [ profile |-> name, status |-> status,
            stopped |-> why, attempts |-> history, at |-> clock ]
      BY <1>t, <3>2, EmittedLine
    <3> QED BY <3>1, <3>3
  <2>2. /\ Len(lines') = Len(lines) + 1
        /\ \A i \in 1..Len(lines) : lines'[i] = lines[i]
    BY <1>1, <1>t, <1>p, EmittedLine
  <2>3. \A i \in 1..Len(lines') : lines'[i].profile # "preflight"
    BY <1>1, <1>t, <1>p, <2>1, <2>2 DEF Tally
  <2>4. Len(lines') = index' - 1 /\ index' > 0 /\ Len(Profiles) > 0
    BY <1>1, <1>t, <2>2 DEF Tally, NextProfile
  <2>5. pc' = "profile"
    BY <1>1 DEF NextProfile
  <2>6. /\ counts'.infra <= counts'.fail
        /\ counts'.fail > counts'.infra <=> \E i \in 1..Len(lines') : lines'[i].status = "fail"
        /\ counts'.infra > 0 <=> \E i \in 1..Len(lines') : lines'[i].status = "infra"
    BY <1>1, <1>p, TalliedLine
  <2> QED BY <1>t, <2>3, <2>4, <2>5, <2>6 DEF Tally, ExitTellsTheLines
<1>2. CASE PreflightError
  BY <1>2, <1>t, ProfilesAssumption DEF PreflightError, Tally, ExitTellsTheLines
<1>3. CASE PreflightRefused
  <2>1. lines'[1] = [ profile |-> "preflight", status |-> "fail", stopped |-> "none",
                      attempts |-> history, at |-> clock ] /\ Len(lines') = 1
    <3>1. lines = << >> /\ Len(lines) = 0 /\ EmitLine("preflight", "fail", "none")
      BY <1>3 DEF PreflightRefused, Tally
    <3>2. lines'[Len(lines) + 1] = [ profile |-> "preflight", status |-> "fail",
            stopped |-> "none", attempts |-> history, at |-> clock ]
      BY <1>t, <3>1, EmittedLine
    <3>3. Len(lines') = Len(lines) + 1
      BY <1>t, <3>1, EmittedLine
    <3> QED BY <3>1, <3>2, <3>3
  <2>2. /\ counts'.infra <= counts'.fail
        /\ counts'.fail > counts'.infra <=> \E i \in 1..Len(lines') : lines'[i].status = "fail"
        /\ counts'.infra > 0 <=> \E i \in 1..Len(lines') : lines'[i].status = "infra"
    BY <1>3, TalliedLine DEF PreflightRefused
  <2>3. lines' \in Seq(Line)
    BY <1>t DEF Control, TypeOK
  <2>4. DOMAIN lines' = {1} /\ lines'[1].status = "fail" /\ lines'[1].profile = "preflight"
    BY <2>1, <2>3
  <2>5. ExitTellsTheLines'
    BY <1>3, <2>4 DEF PreflightRefused, ExitTellsTheLines
  <2> QED BY <1>3, <1>t, <2>2, <2>5 DEF PreflightRefused, Tally
<1>4. CASE PreflightPassed
  BY <1>4, <1>t, ProfilesAssumption DEF PreflightPassed, Tally, ExitTellsTheLines
<1>5. CASE ProfileBlocked \/ ProfileWithoutRoom
  BY <1>5, <1>1 DEF ProfileBlocked, ProfileWithoutRoom
<1>6. CASE FirstAttempt \/ AttemptEnds \/ Retry
  BY <1>6, <1>t DEF FirstAttempt, AttemptEnds, Retry, Tally, ExitTellsTheLines
<1>7. CASE ProfilePassed \/ ProfileExhausted \/ ProfileOutOfWindow
  BY <1>7, <1>1, <1>t DEF ProfilePassed, ProfileExhausted, ProfileOutOfWindow, Control
<1>8. CASE ProfileStopped
  <2>1. /\ NextProfile /\ index <= Len(Profiles) /\ pc = "judge"
        /\ \/ EmitLine(Profiles[index], "fail", "final")
           \/ EmitLine(Profiles[index], "fail", "unclean")
    BY <1>8, <1>t DEF ProfileStopped, Control
  <2> QED BY <2>1, <1>1
<1>9. CASE Finish
  <2>1. code' = ExitCode(counts) /\ Len(lines) = Len(Profiles) /\ lines' = lines /\ counts' = counts
    BY <1>9, <1>t DEF Finish, Tally
  <2>2. DOMAIN lines = 1..Len(lines) /\ \A i \in DOMAIN lines : lines[i] \in Line
    BY <1>t
  <2>3. /\ code' = 0 <=> ~(counts.fail > counts.infra) /\ ~(counts.infra > 0)
        /\ code' = 1 <=> counts.fail > counts.infra
    BY <2>1 DEF ExitCode
  <2>4. \A i \in DOMAIN lines : /\ lines[i].status \in {"pass", "fail", "infra"}
                                /\ lines[i].profile # "preflight"
    BY <1>9, <2>2 DEF Finish, Tally, Line
  <2>5. /\ code' = 0 <=> \A i \in DOMAIN lines : lines[i].status = "pass"
        /\ code' = 1 <=> \E i \in DOMAIN lines : lines[i].status = "fail"
    BY <2>2, <2>3, <2>4 DEF Tally
  <2>6. ExitTellsTheLines'
    BY <2>1, <2>4, <2>5 DEF ExitTellsTheLines
  <2> QED BY <1>9, <1>t, <2>6 DEF Finish, Tally
<1>10. CASE UNCHANGED vars
  BY <1>10, <1>t DEF vars, Tally, ExitTellsTheLines
<1> QED
  BY <1>2, <1>3, <1>4, <1>5, <1>6, <1>7, <1>8, <1>9, <1>10 DEF Next

(* The exit code agrees with the result lines (`Out::exit_code`).             *)
THEOREM ExitIsTold == Spec => []ExitTellsTheLines
<1>1. Init => Tally
  <2> SUFFICES ASSUME Init PROVE Tally
    OBVIOUS
  <2>1. lines = << >> /\ counts.fail = 0 /\ counts.infra = 0 /\ pc = "preflight" /\ index = 1
    BY DEF Init
  <2>2. \A i \in 1..Len(lines) : FALSE
    BY <2>1
  <2>3. Control
    BY ControlInitially
  <2> QED BY <2>1, <2>2, <2>3 DEF Tally, ExitTellsTheLines
<1>2. Tally => ExitTellsTheLines
  BY DEF Tally
<1> QED BY <1>1, <1>2, TallyStep, PTL DEF Spec
-----------------------------------------------------------------------------
(* Giving up: the line that reports a failed profile is only ever written    *)
(* by the three steps that have a reason, and lines are never rewritten.     *)

Reasoned == Control /\ GivenUpForAReason

LEMMA ReasonedStep == Reasoned /\ [Next]_vars => Reasoned'
<1> SUFFICES ASSUME Reasoned, [Next]_vars PROVE GivenUpForAReason'
  BY ControlStep DEF Reasoned
<1>t. /\ TypeOK /\ lines \in Seq(Line) /\ clock \in Nat
      /\ index <= Len(Profiles) => Profiles[index] \in ProfileNames
      /\ pc = "judge" => index <= Len(Profiles)
  BY ProfilesAssumption DEF Reasoned, Control, TypeOK
<1>1. ASSUME UNCHANGED lines PROVE GivenUpForAReason'
  BY <1>1 DEF Reasoned, GivenUpForAReason
<1>2. ASSUME NEW name \in ProfileNames \cup {"preflight"},
             NEW status \in {"pass", "fail", "infra"},
             NEW why \in {"none", "final", "unclean", "exhausted", "window"},
             EmitLine(name, status, why),
             \/ status # "fail"
             \/ name = "preflight"
             \/ ~Retryable(history[Len(history)])
             \/ Len(history) = MaxAttempts
             \/ clock + RetryDelay + WorstCase > Window
      PROVE  GivenUpForAReason'
  <2>1. /\ lines' \in Seq(Line)
        /\ Len(lines') = Len(lines) + 1
        /\ \A i \in 1..Len(lines) : lines'[i] = lines[i]
        /\ lines'[Len(lines) + 1] =
             [ profile |-> name, status |-> status, stopped |-> why,
               attempts |-> history, at |-> clock ]
    BY <1>2, <1>t, EmittedLine
  <2>2. DOMAIN lines' = 1..Len(lines) \cup {Len(lines) + 1} /\ DOMAIN lines = 1..Len(lines)
    BY <2>1, <1>t
  <2> QED BY <1>2, <2>1, <2>2 DEF Reasoned, GivenUpForAReason
<1>3. CASE \/ PreflightError \/ PreflightPassed \/ FirstAttempt \/ Finish
           \/ AttemptEnds \/ Retry \/ UNCHANGED vars
  BY <1>3, <1>1 DEF PreflightError, PreflightPassed, FirstAttempt, Finish, AttemptEnds, Retry, vars
<1>4. CASE PreflightRefused
  BY <1>4, <1>2 DEF PreflightRefused
<1>5. CASE ProfileBlocked \/ ProfileWithoutRoom
  BY <1>5, <1>2, <1>t DEF ProfileBlocked, ProfileWithoutRoom, ProfileNames
<1>6. CASE ProfilePassed
  BY <1>6, <1>2, <1>t DEF ProfilePassed
<1>7. CASE ProfileStopped
  <2>1. /\ index <= Len(Profiles) /\ ~Retryable(history[Len(history)])
        /\ \/ EmitLine(Profiles[index], "fail", "final")
           \/ EmitLine(Profiles[index], "fail", "unclean")
    BY <1>7, <1>t DEF ProfileStopped, Last
  <2> QED BY <2>1, <1>2, <1>t
<1>8. CASE ProfileExhausted
  BY <1>8, <1>2, <1>t DEF ProfileExhausted, AttemptsUsed
<1>9. CASE ProfileOutOfWindow
  <2>1. clock + RetryDelay + WorstCase > Window
    BY <1>9, <1>t, SecondsAssumption
       DEF ProfileOutOfWindow, RetryFits, AttemptFits, WorstCase, AttemptReserve
  <2> QED BY <1>9, <2>1, <1>2, <1>t DEF ProfileOutOfWindow
<1> QED BY <1>3, <1>4, <1>5, <1>6, <1>7, <1>8, <1>9 DEF Next

(* A profile is reported as failed only after a final failure or an unclean   *)
(* attempt, with every attempt used, or with no room left in the window.      *)
THEOREM NothingGivenUpIdly == Spec => []GivenUpForAReason
<1>1. Init => Reasoned
  <2>1. Init => GivenUpForAReason
    BY DEF Init, GivenUpForAReason
  <2> QED BY <2>1, ControlInitially DEF Reasoned
<1>2. Reasoned => GivenUpForAReason
  BY DEF Reasoned
<1> QED BY <1>1, <1>2, ReasonedStep, PTL DEF Spec

-----------------------------------------------------------------------------
(* The observer: the apiserver's history                                   *)

\* The events of a Pod up to any position have a last one. (True of every log;
\* as an invariant it needs no induction of its own.)
HasLast ==
  \A p \in Pods, n \in 0..Len(log) :
    W!Positions(p, n) # {} =>
      \E m \in W!Positions(p, n) : \A j \in W!Positions(p, n) : j <= m

\* Nothing happens to a Pod that was deleted.
DeletedIsLast ==
  \A j, k \in 1..Len(log) : j < k /\ log[j].pod = log[k].pod => log[j].phase # "deleted"

History == HasLast /\ DeletedIsLast

\* A Pod's phase is that of its last event.
LEMMA LastTells ==
  ASSUME NEW p, NEW n, NEW m \in W!Positions(p, n),
         n \in Nat, \A j \in W!Positions(p, n) : j <= m
  PROVE  W!PhaseAt(p, n) = log[m].phase
<1>1. \A j \in W!Positions(p, n) : j \in Int
  BY DEF W!Positions
<1>2. W!Max(W!Positions(p, n)) = m
  BY <1>1 DEF W!Max
<1> QED BY <1>2 DEF W!PhaseAt

LEMMA NothingHappenedYet ==
  ASSUME NEW p PROVE W!Positions(p, 0) = {} /\ W!PhaseAt(p, 0) = "none" /\ W!Happened(p, 0) = {}
  BY DEF W!Positions, W!PhaseAt, W!Happened

\* The next event changes the phase of its Pod, and of no other.
LEMMA OneMoreEvent ==
  ASSUME W!TypeOK, NEW n \in Nat, n + 1 <= Len(log), NEW p \in Pods
  PROVE  /\ log[n + 1].pod = p =>
              /\ W!Positions(p, n + 1) = W!Positions(p, n) \cup {n + 1}
              /\ W!PhaseAt(p, n + 1) = log[n + 1].phase
              /\ W!Happened(p, n + 1) = W!Happened(p, n) \cup W!Recorded(log[n + 1].phase)
         /\ log[n + 1].pod # p =>
              /\ W!Positions(p, n + 1) = W!Positions(p, n)
              /\ W!PhaseAt(p, n + 1) = W!PhaseAt(p, n)
              /\ W!Happened(p, n + 1) = W!Happened(p, n)
<1>1. 1..(n + 1) = (1..n) \cup {n + 1}
  OBVIOUS
<1>2. ASSUME log[n + 1].pod = p
      PROVE  /\ W!Positions(p, n + 1) = W!Positions(p, n) \cup {n + 1}
             /\ W!PhaseAt(p, n + 1) = log[n + 1].phase
             /\ W!Happened(p, n + 1) = W!Happened(p, n) \cup W!Recorded(log[n + 1].phase)
  <2>1. W!Positions(p, n + 1) = W!Positions(p, n) \cup {n + 1}
    BY <1>1, <1>2 DEF W!Positions
  <2>2. \A j \in W!Positions(p, n + 1) : j <= n + 1
    BY DEF W!Positions
  <2>3. W!PhaseAt(p, n + 1) = log[n + 1].phase
    BY <2>1, <2>2, LastTells, n + 1 \in Nat
  <2>4. W!Happened(p, n + 1) = W!Happened(p, n) \cup W!Recorded(log[n + 1].phase)
    BY <2>1 DEF W!Happened
  <2> QED BY <2>1, <2>3, <2>4
<1>3. ASSUME log[n + 1].pod # p
      PROVE  /\ W!Positions(p, n + 1) = W!Positions(p, n)
             /\ W!PhaseAt(p, n + 1) = W!PhaseAt(p, n)
             /\ W!Happened(p, n + 1) = W!Happened(p, n)
  <2>1. W!Positions(p, n + 1) = W!Positions(p, n)
    BY <1>1, <1>3 DEF W!Positions
  <2> QED BY <2>1 DEF W!PhaseAt, W!Happened
<1> QED BY <1>2, <1>3

\* A new event leaves what was.
LEMMA HistoryIsKept ==
  ASSUME W!TypeOK, HasLast, NEW e \in W!Event, log' = Append(log, e),
         NEW n \in 0..Len(log)
  PROVE  /\ \A p \in Pods : /\ W!Positions(p, n)' = W!Positions(p, n)
                            /\ W!PhaseAt(p, n)' = W!PhaseAt(p, n)
                            /\ W!Happened(p, n)' = W!Happened(p, n)
         /\ W!RunningAt(n)' = W!RunningAt(n)
<1>1. log \in Seq(W!Event)
  BY DEF W!TypeOK
<1>2. \A k \in 1..n : log'[k] = log[k]
  BY <1>1
<1>3. ASSUME NEW p \in Pods
      PROVE  /\ W!Positions(p, n)' = W!Positions(p, n)
             /\ W!PhaseAt(p, n)' = W!PhaseAt(p, n)
             /\ W!Happened(p, n)' = W!Happened(p, n)
  <2>1. W!Positions(p, n)' = W!Positions(p, n)
    BY <1>2 DEF W!Positions
  <2>2. W!Happened(p, n)' = W!Happened(p, n)
    BY <1>2, <2>1 DEF W!Happened, W!Positions
  <2>3. W!PhaseAt(p, n)' = W!PhaseAt(p, n)
    <3>1. CASE W!Positions(p, n) = {}
      BY <2>1, <3>1 DEF W!PhaseAt
    <3>2. CASE W!Positions(p, n) # {}
      <4>1. PICK m \in W!Positions(p, n) : \A j \in W!Positions(p, n) : j <= m
        BY <3>2 DEF HasLast
      <4>2. \A j \in W!Positions(p, n) : j \in Int
        BY DEF W!Positions
      <4>3. W!Max(W!Positions(p, n)) = m
        BY <4>1, <4>2 DEF W!Max
      <4>4. m \in 1..n
        BY DEF W!Positions
      <4> QED BY <2>1, <4>3, <4>4, <1>2 DEF W!PhaseAt
    <3> QED BY <3>1, <3>2
  <2> QED BY <2>1, <2>2, <2>3
<1> QED BY <1>3 DEF W!RunningAt

-----------------------------------------------------------------------------
(* The observer: its types and the history are invariant                   *)

\* What a step does to the log: nothing, or a change that its Pod's phase
\* allows. The other invariants need no more of the apiserver.
LEMMA LogSteps ==
  ASSUME W!TypeOK, [W!Next]_(W!vars)
  PROVE  \/ UNCHANGED log
         \/ /\ \E e \in W!Event : log' = Append(log, e) /\ W!Now(e.pod) # "deleted"
            /\ UNCHANGED <<open, received, rv, listing, objects, records, errors, peak>>
<1>1. ASSUME NEW p \in Pods, NEW phase \in W!Phases, W!Now(p) # "deleted", W!Change(p, phase)
      PROVE  /\ \E e \in W!Event : log' = Append(log, e) /\ W!Now(e.pod) # "deleted"
             /\ UNCHANGED <<open, received, rv, listing, objects, records, errors, peak>>
  <2>1. [pod |-> p, phase |-> phase] \in W!Event
    BY DEF W!Event
  <2> QED BY <1>1, <2>1 DEF W!Change, W!stream, W!view
<1>2. CASE W!Progress
  BY <1>1, <1>2 DEF W!Progress, W!Phases
<1>3. CASE W!Evict
  BY <1>1, <1>3 DEF W!Evict, W!Phases
<1>4. CASE W!Compact \/ W!Send \/ W!Client
  BY <1>4 DEF W!Compact, W!Send, W!Client, W!OpenWatch, W!HandleEvent, W!WatchEnds,
     W!WatchFails, W!WatchExpired, W!ObserveListed, W!server
<1>5. CASE UNCHANGED W!vars
  BY <1>5 DEF W!vars, W!server
<1> QED BY <1>2, <1>3, <1>4, <1>5 DEF W!Next, W!Server

\* On an open watch the events handled were received, and there is no relist.
Following == open => rv <= received /\ listing = {}

\* The instance's Cardinality is the library's.
LEMMA SameCount == ASSUME NEW S PROVE W!Cardinality(S) = Cardinality(S)
  BY DEF W!Cardinality, Cardinality

LEMMA FewRun ==
  ASSUME NEW S \in SUBSET Pods
  PROVE  /\ IsFiniteSet(S) /\ W!Cardinality(S) \in 0..W!Cardinality(Pods)
         /\ W!Cardinality(Pods) \in Nat
  BY WatchAssumption, SameCount, FS_Subset, FS_CardinalityType

\* What observing an event or a listed Pod does.
LEMMA ObservedWell ==
  ASSUME W!TypeOK, NEW e \in W!Event, W!Observe(e.pod, e.phase)
  PROVE  /\ objects' \in [Pods -> {"none", "pending", "running", "finished"}]
         /\ records' \in [Pods -> SUBSET {"running", "finished", "deleted"}]
         /\ W!Cardinality(W!Running(objects', records')) \in 0..W!Cardinality(Pods)
         /\ peak' = IF W!Cardinality(W!Running(objects', records')) > peak
                    THEN W!Cardinality(W!Running(objects', records')) ELSE peak
         /\ peak' \in 0..W!Cardinality(Pods)
<1>1. e.pod \in Pods /\ e.phase \in W!Phases
  BY DEF W!Event
<1>2. objects' \in [Pods -> {"none", "pending", "running", "finished"}]
  BY <1>1 DEF W!TypeOK, W!Observe, W!Phases
<1>3. W!Recorded(e.phase) \subseteq {"running", "finished", "deleted"}
  BY DEF W!Recorded
<1>4. records' \in [Pods -> SUBSET {"running", "finished", "deleted"}]
  BY <1>1, <1>3 DEF W!TypeOK, W!Observe
<1>5. W!Running(objects', records') \subseteq Pods
  BY DEF W!Running
<1> DEFINE c == W!Cardinality(W!Running(objects', records'))
<1>6. c \in 0..W!Cardinality(Pods) /\ W!Cardinality(Pods) \in Nat
  BY <1>5, FewRun
<1>7. peak \in 0..W!Cardinality(Pods) /\ peak' = W!Max({peak, c})
  BY DEF W!TypeOK, W!Observe
<1> HIDE DEF c
<1>8. peak' = IF c > peak THEN c ELSE peak
  BY <1>6, <1>7 DEF W!Max
<1>9. peak' \in 0..W!Cardinality(Pods)
  BY <1>6, <1>7, <1>8
<1> QED BY <1>2, <1>4, <1>6, <1>8, <1>9 DEF c

LEMMA WatchTypesInitially == W!Init => W!TypeOK /\ Following
<1> SUFFICES ASSUME W!Init PROVE W!TypeOK /\ Following
  OBVIOUS
<1>1. 0 \in 0..W!Cardinality(Pods)
  BY FewRun, Pods \in SUBSET Pods
<1>2. log = << >> /\ Len(log) = 0 /\ log \in Seq(W!Event)
  BY DEF W!Init
<1>3. objects \in [Pods -> {"none", "pending", "running", "finished"}]
  BY DEF W!Init
<1>4. records \in [Pods -> SUBSET {"running", "finished", "deleted"}]
  BY DEF W!Init
<1>5. compacted \in 0..Len(log) /\ received \in 0..Len(log) /\ rv \in 0..Len(log)
  BY <1>2 DEF W!Init
<1>6. errors \in Nat /\ faults \in 0..Faults /\ timeouts \in 0..Timeouts /\ peak = 0
  BY WatchAssumption DEF W!Init
<1>7. open \in BOOLEAN /\ ~open /\ listing \subseteq W!Event
  BY DEF W!Init
<1> QED BY <1>1, <1>2, <1>3, <1>4, <1>5, <1>6, <1>7 DEF W!TypeOK, Following

LEMMA WatchTypesStep ==
  ASSUME W!TypeOK, Following, [W!Next]_(W!vars)
  PROVE  (W!TypeOK /\ Following)'
<1> USE WatchAssumption
<1> DEFINE TypedLog  == log' \in Seq(W!Event) /\ Len(log') >= Len(log)
           TypedView == /\ objects' \in [Pods -> {"none", "pending", "running", "finished"}]
                        /\ records' \in [Pods -> SUBSET {"running", "finished", "deleted"}]
                        /\ peak' \in 0..W!Cardinality(Pods)
           Rest == /\ compacted' \in 0..Len(log')
                   /\ open' \in BOOLEAN /\ received' \in 0..Len(log') /\ rv' \in 0..Len(log')
                   /\ listing' \subseteq W!Event
                   /\ errors' \in Nat /\ faults' \in 0..Faults /\ timeouts' \in 0..Timeouts
                   /\ open' => rv' <= received' /\ listing' = {}
<1>1. TypedLog
  BY LogSteps DEF W!TypeOK
<1>2. ASSUME UNCHANGED <<objects, records, peak>> PROVE TypedView
  BY <1>2 DEF W!TypeOK
<1>3. ASSUME W!Server PROVE TypedView /\ Rest
  <2>1. TypedView
    BY <1>3, <1>2 DEF W!Server, W!Progress, W!Evict, W!Compact, W!Send, W!Change, W!view
  <2>2. Rest
    <3>1. ASSUME W!Progress \/ W!Evict PROVE Rest
      <4>1. /\ UNCHANGED <<compacted, open, received, rv, listing, errors, timeouts>>
            /\ faults' = faults \/ (faults > 0 /\ faults' = faults - 1)
        BY <3>1 DEF W!Progress, W!Evict, W!Fault, W!Change, W!stream
      <4>2. Len(log) \in Nat /\ Len(log') \in Nat
        BY <1>1 DEF W!TypeOK
      <4> QED BY <4>1, <4>2, <1>1 DEF W!TypeOK, Following
    <3>2. CASE W!Compact \/ W!Send
      BY <3>2 DEF W!Compact, W!Send, W!Fault, W!server, W!stream, W!TypeOK, Following
    <3> QED BY <1>3, <3>1, <3>2 DEF W!Server
  <2> QED BY <2>1, <2>2
<1>4. ASSUME W!OpenWatch \/ W!WatchEnds \/ W!WatchFails \/ W!WatchExpired PROVE TypedView /\ Rest
  <2>1. TypedView
    BY <1>4, <1>2 DEF W!OpenWatch, W!WatchEnds, W!WatchFails, W!WatchExpired, W!view
  <2>2. W!Listed \subseteq W!Event
    BY DEF W!Listed
  <2>3. UNCHANGED <<log, compacted>>
    BY <1>4 DEF W!OpenWatch, W!WatchEnds, W!WatchFails, W!WatchExpired, W!server
  <2>4. ASSUME W!OpenWatch \/ W!WatchEnds PROVE Rest
    <3>1. compacted' \in 0..Len(log') /\ errors' \in Nat /\ faults' \in 0..Faults
      BY <2>3, <2>4 DEF W!OpenWatch, W!WatchEnds, W!TypeOK
    <3>2. listing' = listing /\ rv' = rv /\ rv \in 0..Len(log) /\ listing \subseteq W!Event
      BY <2>4 DEF W!OpenWatch, W!WatchEnds, W!TypeOK
    <3>3. /\ open' \in BOOLEAN
          /\ open' => received' = rv /\ listing = {}
      BY <2>4 DEF W!OpenWatch, W!WatchEnds, W!Idle
    <3>5. received' \in 0..Len(log)
      BY <2>4 DEF W!OpenWatch, W!WatchEnds, W!TypeOK
    <3>4. timeouts' \in 0..Timeouts
      BY <2>4 DEF W!OpenWatch, W!WatchEnds, W!TypeOK
    <3> QED BY <2>3, <3>1, <3>2, <3>3, <3>4, <3>5
  <2>5. ASSUME NEW cost \in {0, 1}, W!RecordAndRelist(cost), timeouts' = timeouts,
               \/ open' = FALSE /\ received' = 0
               \/ ~open /\ UNCHANGED <<open, received>>
        PROVE  Rest
    <3>1. /\ errors' \in Nat /\ faults' \in 0..Faults /\ rv' \in 0..Len(log)
          /\ listing' \subseteq W!Event
      BY <2>2, <2>5 DEF W!RecordAndRelist, W!TypeOK
    <3>2. open' \in BOOLEAN
      BY <2>5 DEF W!TypeOK
    <3>5. ~open'
      BY <2>5 DEF W!TypeOK
    <3>4. received' \in 0..Len(log)
      BY <2>5 DEF W!TypeOK
    <3>3. compacted' \in 0..Len(log') /\ timeouts' \in 0..Timeouts
      BY <2>3, <2>5 DEF W!TypeOK
    <3> QED BY <3>1, <3>2, <3>3, <3>4, <3>5, <2>3
  <2>6. ASSUME W!WatchFails PROVE Rest
    BY <2>5, <2>6 DEF W!WatchFails
  <2>7. ASSUME W!WatchExpired PROVE Rest
    BY <2>5, <2>7 DEF W!WatchExpired, W!Idle, W!stream
  <2> QED BY <1>4, <2>1, <2>4, <2>6, <2>7
<1>5. ASSUME W!HandleEvent PROVE TypedView /\ Rest
  <2>1. rv + 1 \in 1..Len(log) /\ log[rv + 1] \in W!Event
    BY <1>5 DEF W!HandleEvent, W!TypeOK
  <2>2. TypedView
    BY <1>5, <2>1, ObservedWell DEF W!HandleEvent
  <2>3. Rest
    BY <1>5, <2>1 DEF W!HandleEvent, W!server, W!stream, W!TypeOK, Following
  <2> QED BY <2>2, <2>3
<1>6. ASSUME W!ObserveListed PROVE TypedView /\ Rest
  <2>1. PICK e \in listing : W!Observe(e.pod, e.phase) /\ listing' = listing \ {e}
    BY <1>6 DEF W!ObserveListed
  <2>2. e \in W!Event
    BY DEF W!TypeOK
  <2>3. TypedView
    BY <2>1, <2>2, ObservedWell
  <2>4. Rest
    BY <1>6, <2>1 DEF W!ObserveListed, W!server, W!stream, W!TypeOK, Following
  <2> QED BY <2>3, <2>4
<1>7. ASSUME UNCHANGED W!vars PROVE TypedView /\ Rest
  BY <1>7 DEF W!vars, W!server, W!stream, W!view, W!TypeOK, Following
<1>8. TypedView /\ Rest
  BY <1>3, <1>4, <1>5, <1>6, <1>7 DEF W!Next, W!Client
<1> QED BY <1>1, <1>8 DEF W!TypeOK, Following

LEMMA HistoryInitially == W!Init => History
<1> SUFFICES ASSUME W!Init PROVE History
  OBVIOUS
<1>1. log = << >> /\ Len(log) = 0
  BY DEF W!Init
<1> QED BY <1>1, NothingHappenedYet DEF History, HasLast, DeletedIsLast

LEMMA HistoryStep ==
  ASSUME W!TypeOK, W!TypeOK', History, [W!Next]_(W!vars)
  PROVE  History'
<1>1. CASE UNCHANGED log
  BY <1>1 DEF History, HasLast, DeletedIsLast, W!Positions
<1>2. ASSUME NEW e \in W!Event, log' = Append(log, e), W!Now(e.pod) # "deleted"
      PROVE  History'
  <2> DEFINE E == W!Event
  <2>e. log \in Seq(E) /\ e \in E
    BY DEF W!TypeOK
  <2>p. e.pod \in Pods
    BY DEF W!Event
  <2> HIDE DEF E
  <2>1. /\ Len(log) \in Nat /\ Len(log') = Len(log) + 1
        /\ log'[Len(log) + 1] = e /\ \A k \in 1..Len(log) : log'[k] = log[k]
    BY <1>2, <2>e
  <2>l. PICK last \in Nat : last = Len(log)
    BY <2>1
  <2>2. HasLast'
    <3> SUFFICES ASSUME NEW p \in Pods, NEW n \in 0..Len(log'), W!Positions(p, n)' # {}
                 PROVE  \E m \in W!Positions(p, n)' : \A j \in W!Positions(p, n)' : j <= m
      BY DEF HasLast
    <3>1. ASSUME NEW k \in 0..Len(log), W!Positions(p, k)' # {}
          PROVE  \E m \in W!Positions(p, k)' : \A j \in W!Positions(p, k)' : j <= m
      BY <1>2, <3>1, HistoryIsKept DEF History, HasLast
    <3>2. CASE n \in 0..Len(log)
      BY <3>1, <3>2
    <3>3. CASE n = Len(log) + 1
      <4>1. CASE e.pod = p
        <5>1. n \in W!Positions(p, n)'
          BY <3>3, <4>1, <2>1 DEF W!Positions
        <5>2. \A j \in W!Positions(p, n)' : j <= n
          BY DEF W!Positions
        <5> QED BY <5>1, <5>2
      <4>2. CASE e.pod # p
        <5>1. W!Positions(p, n)' = W!Positions(p, last)'
          BY <3>3, <4>2, <2>1, <2>l DEF W!Positions
        <5>2. last \in 0..Len(log)
          BY <2>l
        <5> QED BY <5>1, <5>2, <3>1
      <4> QED BY <4>1, <4>2
    <3> QED BY <3>2, <3>3, <2>1
  <2>3. DeletedIsLast'
    <3> SUFFICES ASSUME NEW j \in 1..Len(log'), NEW k \in 1..Len(log'),
                        j < k, log'[j].pod = log'[k].pod
                 PROVE  log'[j].phase # "deleted"
      BY DEF DeletedIsLast
    <3>1. CASE k <= Len(log)
      BY <3>1, <2>1 DEF History, DeletedIsLast
    <3>2. CASE k = Len(log) + 1
      <4>1. log[j].pod = e.pod /\ j \in 1..Len(log) /\ log'[j] = log[j]
        BY <3>2, <2>1
      <4>2. j \in W!Positions(e.pod, Len(log))
        BY <4>1 DEF W!Positions
      <4>3. PICK m \in W!Positions(e.pod, Len(log)) :
                   \A i \in W!Positions(e.pod, Len(log)) : i <= m
        BY <2>1, <2>p, <4>2, Len(log) \in 0..Len(log) DEF History, HasLast
      <4>4. log[m].phase # "deleted"
        BY <1>2, <2>1, <4>3, LastTells DEF W!Now
      <4>5. m \in 1..Len(log) /\ log[m].pod = e.pod /\ j <= m
        BY <4>2, <4>3 DEF W!Positions
      <4>6. CASE j = m
        BY <4>1, <4>4, <4>6
      <4>7. CASE j < m
        BY <4>1, <4>5, <4>7 DEF History, DeletedIsLast
      <4> QED BY <4>1, <4>5, <4>6, <4>7
    <3> QED BY <3>1, <3>2, <2>1
  <2> QED BY <2>2, <2>3 DEF History
<1> QED BY <1>1, <1>2, LogSteps

-----------------------------------------------------------------------------
(* The observer: what it knows is true                                     *)

\* There is a relist only after an error, and it shows what was at rv.
Listing ==
  /\ errors = 0 => listing = {}
  /\ \A e \in listing : e.phase = W!PhaseAt(e.pod, rv)

\* Of every Pod not deleted by rv the object is as it was there, or is about to be.
Inventory ==
  \A p \in Pods : W!PhaseAt(p, rv) # "deleted" =>
    \/ objects[p] = W!PhaseAt(p, rv)
    \/ [pod |-> p, phase |-> W!PhaseAt(p, rv)] \in listing

Known == Listing /\ Inventory

\* A Pod's phase is one of an event's, or "none".
LEMMA PhaseIsOne ==
  ASSUME W!TypeOK, HasLast, NEW p \in Pods, NEW n \in 0..Len(log)
  PROVE  /\ W!PhaseAt(p, n) \in W!Phases \cup {"none"}
         /\ W!PhaseAt(p, n) = "none" <=> W!Positions(p, n) = {}
<1>1. CASE W!Positions(p, n) = {}
  BY <1>1 DEF W!PhaseAt
<1>2. CASE W!Positions(p, n) # {}
  <2>1. PICK m \in W!Positions(p, n) : \A j \in W!Positions(p, n) : j <= m
    BY <1>2 DEF HasLast
  <2>2. W!PhaseAt(p, n) = log[m].phase
    BY <2>1, LastTells
  <2>3. m \in 1..Len(log)
    BY DEF W!Positions, W!TypeOK
  <2>4. log[m] \in W!Event
    BY <2>3 DEF W!TypeOK
  <2> QED BY <1>2, <2>2, <2>4 DEF W!Event, W!Phases
<1> QED BY <1>1, <1>2

LEMMA KnownStep ==
  ASSUME W!TypeOK, W!TypeOK', Following, History, Known, [W!Next]_(W!vars)
  PROVE  Known'
<1>1. ASSUME UNCHANGED <<log, rv, listing, objects, errors>> PROVE Known'
  BY <1>1 DEF Known, Listing, Inventory, W!PhaseAt, W!Positions
<1>2. ASSUME NEW e \in W!Event, log' = Append(log, e),
             UNCHANGED <<rv, listing, objects, errors>>
      PROVE  Known'
  <2>1. rv \in 0..Len(log) /\ rv' = rv
    BY <1>2 DEF W!TypeOK
  <2>2. \A p \in Pods : W!PhaseAt(p, rv)' = W!PhaseAt(p, rv)
    BY <1>2, <2>1, HistoryIsKept DEF History
  <2>3. \A x \in listing : x.pod \in Pods
    BY DEF W!TypeOK, W!Event
  <2> QED BY <1>2, <2>2, <2>3 DEF Known, Listing, Inventory
<1>3. ASSUME W!Compact \/ W!Send \/ W!OpenWatch \/ W!WatchEnds PROVE Known'
  BY <1>1, <1>3 DEF W!Compact, W!Send, W!OpenWatch, W!WatchEnds, W!server, W!view
<1>4. ASSUME W!HandleEvent PROVE Known'
  <2>1. /\ rv + 1 \in 1..Len(log) /\ log[rv + 1] \in W!Event
        /\ rv \in Nat /\ rv + 1 <= Len(log)
        /\ rv' = rv + 1 /\ UNCHANGED <<log, listing, errors>>
        /\ listing = {}
    BY <1>4 DEF W!HandleEvent, W!TypeOK, W!server, Following
  <2> DEFINE q == log[rv + 1].pod
             phase == log[rv + 1].phase
  <2>2. /\ q \in Pods /\ phase \in W!Phases
        /\ objects' = IF phase = "deleted" THEN objects ELSE [objects EXCEPT ![q] = phase]
    BY <1>4, <2>1 DEF W!HandleEvent, W!Observe, W!Event
  <2>3. ASSUME NEW p \in Pods, W!PhaseAt(p, rv + 1) # "deleted"
        PROVE  objects'[p] = W!PhaseAt(p, rv + 1)
    <3>1. CASE p = q
      <4>1. W!PhaseAt(p, rv + 1) = phase
        BY <2>1, <3>1, OneMoreEvent
      <4> QED BY <2>2, <2>3, <3>1, <4>1 DEF W!TypeOK
    <3>2. CASE p # q
      <4>1. W!PhaseAt(p, rv + 1) = W!PhaseAt(p, rv)
        BY <2>1, <3>2, OneMoreEvent
      <4>2. objects[p] = W!PhaseAt(p, rv)
        BY <2>1, <2>3, <4>1 DEF Known, Inventory
      <4> QED BY <2>2, <3>2, <4>1, <4>2 DEF W!TypeOK
    <3> QED BY <3>1, <3>2
  <2>4. \A p \in Pods : W!PhaseAt(p, rv)' = W!PhaseAt(p, rv + 1)
    BY <2>1 DEF W!PhaseAt, W!Positions
  <2> QED BY <2>1, <2>3, <2>4 DEF Known, Listing, Inventory
<1>5. ASSUME NEW cost \in {0, 1}, W!RecordAndRelist(cost),
             UNCHANGED <<log, objects, records, peak>>, listing = {}
      PROVE  Known'
  <2>1. CASE UNCHANGED <<listing, rv>> /\ errors' = errors + 2
    BY <1>5, <2>1 DEF Known, Listing, Inventory, W!PhaseAt, W!Positions, W!TypeOK
  <2>2. CASE errors' = errors + 1 /\ listing' = W!Listed /\ rv' = Len(log)
    <3>1. errors' # 0
      BY <2>2 DEF W!TypeOK
    <3>2. \A p \in Pods : W!PhaseAt(p, rv)' = W!Now(p)
      BY <1>5, <2>2 DEF W!PhaseAt, W!Positions, W!Now
    <3>3. ASSUME NEW p \in Pods, W!Now(p) # "deleted"
          PROVE  objects'[p] = W!Now(p) \/ [pod |-> p, phase |-> W!Now(p)] \in W!Listed
      <4>1. Len(log) \in 0..Len(log) /\ rv \in 0..Len(log)
        BY DEF W!TypeOK
      <4>2. CASE W!Now(p) = "none"
        <5>1. W!Positions(p, Len(log)) = {}
          BY <4>1, <4>2, PhaseIsOne DEF W!Now, History
        <5>2. W!Positions(p, rv) = {}
          BY <4>1, <5>1 DEF W!Positions
        <5>3. W!PhaseAt(p, rv) = "none"
          BY <5>2 DEF W!PhaseAt
        <5> QED BY <1>5, <4>2, <5>3 DEF Known, Inventory
      <4>3. CASE W!Now(p) # "none"
        <5>1. W!Now(p) \in W!Phases
          BY <4>1, <4>3, PhaseIsOne DEF W!Now, History
        <5> QED BY <3>3, <5>1 DEF W!Listed, W!Event
      <4> QED BY <4>2, <4>3
    <3>4. \A e \in listing' : e.phase = W!Now(e.pod) /\ e.pod \in Pods
      BY <2>2 DEF W!Listed, W!Event
    <3> QED BY <2>2, <3>1, <3>2, <3>3, <3>4 DEF Known, Listing, Inventory
  <2> QED BY <1>5, <2>1, <2>2 DEF W!RecordAndRelist
<1>6. ASSUME W!WatchFails \/ W!WatchExpired PROVE Known'
  <2>1. listing = {} /\ UNCHANGED <<log, objects, records, peak>>
    BY <1>6 DEF W!WatchFails, W!WatchExpired, W!Idle, Following, W!server, W!view
  <2> QED BY <1>5, <1>6, <2>1 DEF W!WatchFails, W!WatchExpired
<1>7. ASSUME W!ObserveListed PROVE Known'
  <2>1. PICK e \in listing : W!Observe(e.pod, e.phase) /\ listing' = listing \ {e}
    BY <1>7 DEF W!ObserveListed
  <2>2. UNCHANGED <<log, rv, errors>>
    BY <1>7 DEF W!ObserveListed, W!server
  <2>3. \A p \in Pods : W!PhaseAt(p, rv)' = W!PhaseAt(p, rv)
    BY <2>2 DEF W!PhaseAt, W!Positions
  <2>4. /\ e \in W!Event /\ e.pod \in Pods /\ e = [pod |-> e.pod, phase |-> e.phase]
        /\ e.phase = W!PhaseAt(e.pod, rv)
    BY DEF W!TypeOK, W!Event, Known, Listing
  <2>5. ASSUME NEW p \in Pods, W!PhaseAt(p, rv) # "deleted"
        PROVE  \/ objects'[p] = W!PhaseAt(p, rv)
               \/ [pod |-> p, phase |-> W!PhaseAt(p, rv)] \in listing'
    <3>1. CASE p = e.pod
      BY <2>1, <2>4, <2>5, <3>1 DEF W!Observe, W!TypeOK
    <3>2. CASE p # e.pod
      <4>1. objects'[p] = objects[p]
        BY <2>1, <2>4, <3>2 DEF W!Observe, W!TypeOK
      <4> QED BY <2>1, <2>4, <2>5, <3>2, <4>1 DEF Known, Inventory
    <3> QED BY <3>1, <3>2
  <2> QED BY <2>1, <2>2, <2>3, <2>4, <2>5 DEF Known, Listing, Inventory, W!TypeOK, W!Event
<1>8. ASSUME UNCHANGED W!vars PROVE Known'
  BY <1>1, <1>8 DEF W!vars, W!server, W!view
<1>9. ASSUME W!Progress \/ W!Evict PROVE Known'
  <2>1. UNCHANGED <<rv, listing, objects, errors>>
    BY <1>9 DEF W!Progress, W!Evict, W!Change, W!view
  <2> QED BY <1>1, <1>2, <2>1, LogSteps
<1> QED BY <1>3, <1>4, <1>6, <1>7, <1>8, <1>9 DEF W!Next, W!Server, W!Client

\* Without an error the times are those of what happened up to rv.
Timed == W!TimingsAreComplete

\* What the steps other than HandleEvent do while there is no error.
LEMMA OnlyEventsAreHandled ==
  ASSUME W!TypeOK, Known, [W!Next]_(W!vars), ~W!HandleEvent, errors' = 0
  PROVE  errors = 0 /\ UNCHANGED <<rv, objects, records, peak>>
<1>1. errors \in Nat
  BY DEF W!TypeOK
<1>2. CASE W!Progress \/ W!Evict \/ W!Compact \/ W!Send \/ W!OpenWatch \/ W!WatchEnds
  BY <1>2 DEF W!Progress, W!Evict, W!Change, W!Compact, W!Send, W!OpenWatch, W!WatchEnds, W!view
<1>3. CASE W!WatchFails \/ W!WatchExpired
  BY <1>1, <1>3 DEF W!WatchFails, W!WatchExpired, W!RecordAndRelist
<1>4. CASE W!ObserveListed
  BY <1>4 DEF W!ObserveListed, Known, Listing
<1>5. CASE UNCHANGED W!vars
  BY <1>5 DEF W!vars, W!view
<1> QED BY <1>2, <1>3, <1>4, <1>5 DEF W!Next, W!Server, W!Client

LEMMA TimedStep ==
  ASSUME W!TypeOK, Following, History, Known, Timed, [W!Next]_(W!vars)
  PROVE  Timed'
<1> SUFFICES ASSUME errors' = 0, NEW p \in Pods PROVE records'[p] = W!Happened(p, rv)'
  BY DEF Timed, W!TimingsAreComplete
<1>1. CASE W!HandleEvent
  <2>1. /\ rv + 1 \in 1..Len(log) /\ rv \in Nat /\ rv + 1 <= Len(log)
        /\ rv' = rv + 1 /\ log' = log /\ errors = 0 /\ log[rv + 1] \in W!Event
    BY <1>1 DEF W!HandleEvent, W!TypeOK, W!server
  <2>2. records[p] = W!Happened(p, rv)
    BY <2>1 DEF Timed, W!TimingsAreComplete
  <2>3. records' = [records EXCEPT ![log[rv + 1].pod] = @ \cup W!Recorded(log[rv + 1].phase)]
    BY <1>1 DEF W!HandleEvent, W!Observe
  <2>4. W!Happened(p, rv)' = W!Happened(p, rv + 1)
    BY <2>1 DEF W!Happened, W!Positions
  <2>5. records'[p] = W!Happened(p, rv + 1)
    BY <2>1, <2>2, <2>3, OneMoreEvent DEF W!TypeOK, W!Event
  <2> QED BY <2>4, <2>5
<1>2. CASE ~W!HandleEvent
  <2>1. errors = 0 /\ UNCHANGED <<rv, records>>
    BY <1>2, OnlyEventsAreHandled
  <2>2. rv \in 0..Len(log)
    BY DEF W!TypeOK
  <2>3. W!Happened(p, rv)' = W!Happened(p, rv)
    <3>1. CASE UNCHANGED log
      BY <2>1, <3>1 DEF W!Happened, W!Positions
    <3>2. CASE \E e \in W!Event : log' = Append(log, e)
      BY <2>1, <2>2, <3>2, HistoryIsKept DEF History
    <3> QED BY <3>1, <3>2, LogSteps
  <2> QED BY <2>1, <2>3 DEF Timed, W!TimingsAreComplete
<1> QED BY <1>1, <1>2

-----------------------------------------------------------------------------
(* The observer: the peak                                                  *)

\* Without an error the Pods that count as running are those that run at rv.
CountsWhatRuns == errors = 0 => W!Running(objects, records) = W!RunningAt(rv)

LEMMA RunningIsKnown == W!TypeOK /\ History /\ Known /\ Timed => CountsWhatRuns
<1> SUFFICES ASSUME W!TypeOK, History, Known, Timed, errors = 0, NEW p \in Pods
             PROVE  objects[p] = "running" /\ "deleted" \notin records[p]
                      <=> W!PhaseAt(p, rv) = "running"
  BY DEF CountsWhatRuns, W!Running, W!RunningAt
<1>1. records[p] = W!Happened(p, rv) /\ rv \in 0..Len(log) /\ rv \in Nat
  BY DEF Timed, W!TimingsAreComplete, W!TypeOK
<1>2. W!PhaseAt(p, rv) # "deleted" => objects[p] = W!PhaseAt(p, rv)
  BY DEF Known, Listing, Inventory
<1>3. CASE W!Positions(p, rv) = {}
  <2>1. W!PhaseAt(p, rv) = "none"
    BY <1>3 DEF W!PhaseAt
  <2> QED BY <1>2, <2>1
<1>4. CASE W!Positions(p, rv) # {}
  <2>1. PICK m \in W!Positions(p, rv) : \A j \in W!Positions(p, rv) : j <= m
    BY <1>1, <1>4 DEF History, HasLast
  <2>2. W!PhaseAt(p, rv) = log[m].phase
    BY <1>1, <2>1, LastTells
  <2>3. \A j \in W!Positions(p, rv) : /\ j \in 1..Len(log) /\ log[j].pod = p
                                      /\ j = m \/ log[j].phase # "deleted"
    <3> SUFFICES ASSUME NEW j \in W!Positions(p, rv)
                 PROVE  /\ j \in 1..Len(log) /\ log[j].pod = p
                        /\ j = m \/ log[j].phase # "deleted"
      OBVIOUS
    <3>1. j \in 1..Len(log) /\ m \in 1..Len(log) /\ log[j].pod = p /\ log[m].pod = p
      BY <1>1 DEF W!Positions
    <3>2. j = m \/ j < m
      BY <2>1, <3>1
    <3> QED BY <3>1, <3>2 DEF History, DeletedIsLast
  <2>4. ASSUME NEW phase PROVE "deleted" \in W!Recorded(phase) <=> phase = "deleted"
    BY DEF W!Recorded
  <2>5. "deleted" \in records[p] <=> log[m].phase = "deleted"
    <3>1. "deleted" \in records[p] <=>
            \E j \in W!Positions(p, rv) : "deleted" \in W!Recorded(log[j].phase)
      BY <1>1 DEF W!Happened
    <3> QED BY <2>3, <2>4, <3>1
  <2> QED BY <1>2, <2>2, <2>5
<1> QED BY <1>3, <1>4

\* Without an error the peak was reached and never exceeded, up to rv.
Peaked ==
  errors = 0 =>
    /\ \E n \in 0..rv : peak = W!Cardinality(W!RunningAt(n))
    /\ \A n \in 0..rv : W!Cardinality(W!RunningAt(n)) <= peak

LEMMA PeakedIsExact == W!TypeOK /\ Peaked => W!PeakIsExact
<1> SUFFICES ASSUME W!TypeOK, Peaked, errors = 0
             PROVE  peak = W!Max({ W!Cardinality(W!RunningAt(n)) : n \in 0..rv })
  BY DEF W!PeakIsExact
<1> DEFINE S == { W!Cardinality(W!RunningAt(n)) : n \in 0..rv }
<1>1. \A n \in 0..rv : W!Cardinality(W!RunningAt(n)) \in Nat
  BY FewRun DEF W!RunningAt
<1>2. peak \in S /\ \A c \in S : c \in Nat /\ c <= peak
  BY <1>1 DEF Peaked
<1> HIDE DEF S
<1>3. peak = W!Max(S)
  BY <1>2 DEF W!Max
<1> QED BY <1>3 DEF S

LEMMA PeakedStep ==
  ASSUME W!TypeOK, W!TypeOK', Following, History, Known, CountsWhatRuns', Peaked,
         [W!Next]_(W!vars)
  PROVE  Peaked'
<1> SUFFICES ASSUME errors' = 0
             PROVE  /\ \E n \in 0..rv' : peak' = W!Cardinality(W!RunningAt(n))'
                    /\ \A n \in 0..rv' : W!Cardinality(W!RunningAt(n))' <= peak'
  BY DEF Peaked
<1>1. CASE W!HandleEvent
  <2>1. /\ rv + 1 \in 1..Len(log) /\ rv \in Nat /\ rv' = rv + 1 /\ log' = log
        /\ errors = 0 /\ log[rv + 1] \in W!Event
    BY <1>1 DEF W!HandleEvent, W!TypeOK, W!server
  <2>2. \A n : W!RunningAt(n)' = W!RunningAt(n)
    BY <2>1 DEF W!RunningAt, W!PhaseAt, W!Positions
  <2> DEFINE c == W!Cardinality(W!RunningAt(rv'))
  <2>3. W!Running(objects', records') = W!RunningAt(rv')
    BY <2>2 DEF CountsWhatRuns
  <2>4. c \in Nat /\ peak \in Nat /\ peak' = IF c > peak THEN c ELSE peak
    BY <1>1, <2>1, <2>3, ObservedWell, FewRun DEF W!HandleEvent, W!TypeOK
  <2>5. /\ \E n \in 0..rv : peak = W!Cardinality(W!RunningAt(n))
        /\ \A n \in 0..rv : W!Cardinality(W!RunningAt(n)) <= peak
    BY <2>1 DEF Peaked
  <2>6. \A n \in 0..rv : W!Cardinality(W!RunningAt(n)) \in Nat
    BY FewRun DEF W!RunningAt
  <2>7. \A n \in 0..rv' : n \in 0..rv \/ n = rv'
    BY <2>1
  <2>8. rv' \in 0..rv' /\ \A n \in 0..rv : n \in 0..rv'
    BY <2>1
  <2>9. \A n : W!Cardinality(W!RunningAt(n))' = W!Cardinality(W!RunningAt(n))
    BY <2>2, SameCount
  <2>10. \E n \in 0..rv' : peak' = W!Cardinality(W!RunningAt(n))
    BY <2>4, <2>5, <2>8
  <2>11. ASSUME NEW n \in 0..rv' PROVE W!Cardinality(W!RunningAt(n)) <= peak'
    <3>1. CASE n = rv'
      BY <2>4, <3>1
    <3>2. CASE n \in 0..rv
      <4>1. W!Cardinality(W!RunningAt(n)) <= peak /\ W!Cardinality(W!RunningAt(n)) \in Nat
        BY <2>5, <2>6, <3>2
      <4> QED BY <2>4, <4>1
    <3> QED BY <2>7, <3>1, <3>2
  <2> QED BY <2>9, <2>10, <2>11
<1>2. CASE ~W!HandleEvent
  <2>1. errors = 0 /\ UNCHANGED <<rv, peak>>
    BY <1>2, OnlyEventsAreHandled
  <2>2. rv \in 0..Len(log)
    BY DEF W!TypeOK
  <2>3. \A n \in 0..rv : W!RunningAt(n)' = W!RunningAt(n)
    <3>1. CASE UNCHANGED log
      BY <3>1 DEF W!RunningAt, W!PhaseAt, W!Positions
    <3>2. CASE \E e \in W!Event : log' = Append(log, e)
      <4>1. \A n \in 0..rv : n \in 0..Len(log)
        BY <2>2
      <4> QED BY <3>2, <4>1, HistoryIsKept DEF History
    <3> QED BY <3>1, <3>2, LogSteps
  <2>4. \A n \in 0..rv : W!Cardinality(W!RunningAt(n))' = W!Cardinality(W!RunningAt(n))
    BY <2>3, SameCount
  <2> QED BY <2>1, <2>4 DEF Peaked
<1> QED BY <1>1, <1>2

-----------------------------------------------------------------------------
(* The observer: its theorems                                              *)

WatchInv == W!TypeOK /\ Following /\ History /\ Known /\ Timed

LEMMA WatchInvariant == W!Init /\ [][W!Next]_(W!vars) => [](WatchInv /\ CountsWhatRuns /\ Peaked)
<1>1. W!Init => WatchInv
  <2> SUFFICES ASSUME W!Init PROVE WatchInv
    OBVIOUS
  <2>1. /\ rv = 0 /\ listing = {} /\ errors = 0
        /\ objects = [p \in Pods |-> "none"] /\ records = [p \in Pods |-> {}]
    BY DEF W!Init
  <2>2. Known
    BY <2>1, NothingHappenedYet DEF Known, Listing, Inventory
  <2>3. Timed
    BY <2>1, NothingHappenedYet DEF Timed, W!TimingsAreComplete
  <2> QED BY <2>2, <2>3, WatchTypesInitially, HistoryInitially DEF WatchInv
<1>2. WatchInv /\ [W!Next]_(W!vars) => WatchInv'
  <2> SUFFICES ASSUME WatchInv, [W!Next]_(W!vars) PROVE WatchInv'
    OBVIOUS
  <2>1. (W!TypeOK /\ Following)'
    BY WatchTypesStep DEF WatchInv
  <2>2. History' /\ Known' /\ Timed'
    BY <2>1, HistoryStep, KnownStep, TimedStep DEF WatchInv
  <2> QED BY <2>1, <2>2 DEF WatchInv
<1>3. WatchInv => CountsWhatRuns
  BY RunningIsKnown DEF WatchInv
<1>4. W!Init => Peaked
  <2> SUFFICES ASSUME W!Init PROVE Peaked
    OBVIOUS
  <2>1. rv = 0 /\ peak = 0
    BY DEF W!Init
  <2>2. W!RunningAt(0) = {}
    BY NothingHappenedYet DEF W!RunningAt
  <2>3. W!Cardinality(W!RunningAt(0)) = 0
    BY <2>2, SameCount, FS_EmptySet
  <2> QED BY <2>1, <2>3 DEF Peaked
<1>5. WatchInv /\ WatchInv' /\ CountsWhatRuns' /\ Peaked /\ [W!Next]_(W!vars) => Peaked'
  BY PeakedStep DEF WatchInv
<1> QED BY <1>1, <1>2, <1>3, <1>4, <1>5, PTL

\* A behaviour of Turbomode is one of the observer, be it at rest.
LEMMA ObserverRuns == TurbomodeSpec => W!Init /\ [][W!Next]_(W!vars)
<1>1. TurbomodeInit => W!Init
  BY DEF TurbomodeInit
<1>2. [TurbomodeNext]_allVars => [W!Next]_(W!vars)
  BY DEF TurbomodeNext, Of, allVars, watchVars, W!vars, W!server, W!stream, W!view
<1> QED BY <1>1, <1>2, PTL DEF TurbomodeSpec

\* The observer's variables keep their types: what it remembers are positions
\* of the apiserver's log, its peak a number of the attempt's Pods.
THEOREM WatchTypeCorrect == TurbomodeSpec => []WatchTypeOK
<1>1. WatchInv => WatchTypeOK
  BY DEF WatchInv, WatchTypeOK
<1> QED BY <1>1, WatchInvariant, ObserverRuns, PTL

\* Whatever the timeouts cut off: without an error (latency valid) every phase
\* of every Pod has its time and no other has, and the peak is the true one;
\* errors or not, between relists the object of every Pod that exists is right.
THEOREM ObserversAreRight == TurbomodeSpec => []ObserverIsRight
<1>1. WatchInv /\ Peaked => ObserverIsRight
  <2> SUFFICES ASSUME WatchInv, Peaked PROVE ObserverIsRight
    OBVIOUS
  <2>1. W!InventoryIsRight
    BY DEF WatchInv, Known, Inventory, W!InventoryIsRight
  <2>2. W!TimingsAreComplete /\ W!PeakIsExact
    BY PeakedIsExact DEF WatchInv, Timed
  <2> QED BY <2>1, <2>2 DEF ObserverIsRight
<1> QED BY <1>1, WatchInvariant, ObserverRuns, PTL
=============================================================================
