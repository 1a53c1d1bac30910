------------------------------ MODULE TurboRun ------------------------------
(***************************************************************************)
(* The turbomode driver around the attempts (turbomode.rs `run`,           *)
(* `profile`; report.rs `Out`): the preflight, the profiles in order, the  *)
(* bounded attempts of each, the run window, the lines and the exit code.  *)
(* One attempt is one step; its outcome is any of the contract's           *)
(* (AttemptOutcome), which TurboAttempt refines.                           *)
(***************************************************************************)
EXTENDS AttemptOutcome, Integers, Sequences

CONSTANTS
  Profiles,            \* --profiles: the profiles to run, in order
  MaxAttempts,         \* --attempts
  Window,              \* --timeout (STORM_TIMEOUT): seconds the run may take
  FinishTimeout,       \* --finish-timeout
  CleanupTimeout,      \* --cleanup-timeout
  RetryDelay,          \* --retry-delay
  PreflightDurations,  \* bound: the seconds a preflight may take
  AttemptDurations,    \* bound: the seconds an attempt may take
  Outcomes             \* bound: the outcomes an attempt may have

ProfileNames == {"sleep", "sqlite"}

ASSUME ProfilesAssumption == Profiles \in Seq(ProfileNames) /\ Profiles # << >>

ASSUME SecondsAssumption ==
  /\ MaxAttempts \in Nat
  /\ Window \in Nat /\ FinishTimeout \in Nat /\ CleanupTimeout \in Nat /\ RetryDelay \in Nat
  /\ PreflightDurations \subseteq Nat /\ AttemptDurations \subseteq Nat

ASSUME OutcomesAssumption == Outcomes \subseteq AttemptOutcomes

\* MAX_ATTEMPTS
AttemptLimit == 5

\* ATTEMPT_RESERVE: creates, audits and the report of one attempt.
AttemptReserve == 120

WorstCase == FinishTimeout + CleanupTimeout + AttemptReserve

\* No attempt takes longer than the worst case the window check reserves. The
\* driver does not enforce it (its creates have no deadline of their own), so
\* it is the hypothesis of the window theorem and true of the checked bounds.
AttemptsBounded == \A d \in AttemptDurations : d <= WorstCase

VARIABLES
  pc,        \* preflight | profile (loop head) | attempt | judge | done
  index,     \* the profile in hand: Profiles[index]
  history,   \* the outcomes of its attempts so far
  clock,     \* began.elapsed()
  blocked,   \* sqlite_blocked: the sqlite profile cannot run here
  lines,     \* the result lines emitted
  counts,    \* Out's counters
  code       \* the exit code, or -1 before it

vars == <<pc, index, history, clock, blocked, lines, counts, code>>

Line ==
  [ profile  : ProfileNames \cup {"preflight"},
    status   : {"pass", "fail", "infra"},     \* infra: "could not run: ..."
    stopped  : {"none", "final", "unclean", "exhausted", "window"},
    attempts : Seq(Outcomes),
    at       : Nat ]

TypeOK ==
  /\ pc \in {"preflight", "profile", "attempt", "judge", "done"}
  /\ index \in 1..Len(Profiles) + 1
  /\ history \in Seq(Outcomes)
  /\ clock \in Nat
  /\ blocked \in BOOLEAN
  /\ lines \in Seq(Line)
  /\ counts \in [pass : Nat, fail : Nat, infra : Nat]
  /\ code \in {-1, 0, 1, 2}

-----------------------------------------------------------------------------
(* Out: the counters behind the exit code. *)

EmitInfraTakenOff(c, status) ==
  [ pass  |-> IF status = "pass" THEN c.pass + 1 ELSE c.pass,
    fail  |-> IF status = "fail" THEN c.fail + 1 ELSE c.fail - c.infra,
    infra |-> IF status = "infra" THEN c.infra + 1 ELSE c.infra ]

\* A "could not run" line is a Fail line counted apart as well.
Emit(c, status) ==
  [ pass  |-> IF status = "pass" THEN c.pass + 1 ELSE c.pass,
    fail  |-> IF status \in {"fail", "infra"} THEN c.fail + 1 ELSE c.fail,
    infra |-> IF status = "infra" THEN c.infra + 1 ELSE c.infra ]

ExitCodeInfraFirst(c) == IF c.infra > 0 THEN 2 ELSE IF c.fail > 0 THEN 1 ELSE 0

ExitCode(c) == IF c.fail > c.infra THEN 1 ELSE IF c.infra > 0 THEN 2 ELSE 0

\* Emits a line and moves on to the next profile.
EmitLine(name, status, stopped) ==
  /\ lines' = Append(lines, [ profile  |-> name,    status   |-> status,
                              stopped  |-> stopped, attempts |-> history,
                              at       |-> clock ])
  /\ counts' = Emit(counts, status)

-----------------------------------------------------------------------------
(* run: preflight and the loop over the profiles *)

\* An attempt starts only if its worst case fits in what is left of the window.
AttemptFitsDocumented(elapsed) == elapsed + FinishTimeout + CleanupTimeout + 300 <= Window

AttemptFits(elapsed) == elapsed + WorstCase <= Window

Init ==
  /\ pc = "preflight"
  /\ index = 1
  /\ history = << >>
  /\ clock = 0
  /\ blocked = FALSE
  /\ lines = << >>
  /\ counts = [pass |-> 0, fail |-> 0, infra |-> 0]
  /\ code = -1

\* `run` returned Err (bad --attempts, an unreadable token, a list that gave
\* up, no engine): main prints it and exits 2. No line is emitted.
PreflightError ==
  /\ pc = "preflight"
  /\ pc' = "done"
  /\ code' = 2
  /\ UNCHANGED <<index, history, clock, blocked, lines, counts>>

\* fail_all: the image cannot be learned or a cluster read is refused. The
\* line is a plain Fail whose text says "could not run"; the code is 2.
PreflightRefused ==
  /\ pc = "preflight"
  /\ MaxAttempts \in 1..AttemptLimit
  /\ EmitLine("preflight", "fail", "none")
  /\ pc' = "done"
  /\ code' = 2
  /\ UNCHANGED <<index, history, clock, blocked>>

\* The preflight passed; only the sqlite profile can be blocked by it.
PreflightPassed ==
  /\ pc = "preflight"
  /\ MaxAttempts \in 1..AttemptLimit
  /\ \E d \in PreflightDurations : clock' = clock + d
  /\ \E b \in BOOLEAN :
       /\ b => \E i \in DOMAIN Profiles : Profiles[i] = "sqlite"
       /\ blocked' = b
  /\ pc' = "profile"
  /\ UNCHANGED <<index, history, lines, counts, code>>

NextProfile == /\ index' = index + 1
               /\ history' = << >>
               /\ pc' = "profile"

\* The next profile is sqlite and this node cannot run it.
ProfileBlocked ==
  /\ pc = "profile" /\ index <= Len(Profiles)
  /\ Profiles[index] = "sqlite" /\ blocked
  /\ EmitLine("sqlite", "infra", "none")
  /\ NextProfile
  /\ UNCHANGED <<clock, blocked, code>>

\* No attempt of the next profile fits in the window any more.
ProfileWithoutRoom ==
  /\ pc = "profile" /\ index <= Len(Profiles)
  /\ ~(Profiles[index] = "sqlite" /\ blocked)
  /\ ~AttemptFits(clock)
  /\ EmitLine(Profiles[index], "infra", "none")
  /\ NextProfile
  /\ UNCHANGED <<clock, blocked, code>>

\* `profile` starts attempt 1.
FirstAttempt ==
  /\ pc = "profile" /\ index <= Len(Profiles)
  /\ ~(Profiles[index] = "sqlite" /\ blocked)
  /\ AttemptFits(clock)
  /\ pc' = "attempt"
  /\ UNCHANGED <<index, history, clock, blocked, lines, counts, code>>

\* Every profile has its line: the summary and the exit code.
Finish ==
  /\ pc = "profile" /\ index = Len(Profiles) + 1
  /\ pc' = "done"
  /\ code' = ExitCode(counts)
  /\ UNCHANGED <<index, history, clock, blocked, lines, counts>>

-----------------------------------------------------------------------------
(* profile: the attempts of one profile *)

\* `attempt` returns after some time with some outcome.
AttemptEnds ==
  /\ pc = "attempt"
  /\ \E o \in Outcomes, d \in AttemptDurations :
       /\ history' = Append(history, o)
       /\ clock' = clock + d
  /\ pc' = "judge"
  /\ UNCHANGED <<index, blocked, lines, counts, code>>

Last == history[Len(history)]

ProfilePassed ==
  /\ pc = "judge"
  /\ Last.passed
  /\ EmitLine(Profiles[index], "pass", "none")
  /\ NextProfile
  /\ UNCHANGED <<clock, blocked, code>>

\* Not retryable: a leak or a final failure ends the profile at once.
ProfileStopped ==
  /\ pc = "judge"
  /\ ~Last.passed /\ ~Retryable(Last)
  /\ EmitLine(Profiles[index], "fail", IF Last.verified THEN "final" ELSE "unclean")
  /\ NextProfile
  /\ UNCHANGED <<clock, blocked, code>>

AttemptsUsed == Len(history) = MaxAttempts

\* The last attempt allowed failed too.
ProfileExhausted ==
  /\ pc = "judge"
  /\ Retryable(Last)
  /\ AttemptsUsed
  /\ EmitLine(Profiles[index], "fail", "exhausted")
  /\ NextProfile
  /\ UNCHANGED <<clock, blocked, code>>

\* Whether another attempt fits once the retry delay has passed.
RetryFitsNow == AttemptFits(clock)

RetryFits == AttemptFits(clock + RetryDelay)

ProfileWaitsForRoom ==
  /\ pc = "judge"
  /\ Retryable(Last)
  /\ ~AttemptsUsed
  /\ ~RetryFits
  /\ UNCHANGED vars

ProfileOutOfWindow ==
  /\ pc = "judge"
  /\ Retryable(Last)
  /\ ~AttemptsUsed
  /\ ~RetryFits
  /\ EmitLine(Profiles[index], "fail", "window")
  /\ NextProfile
  /\ UNCHANGED <<clock, blocked, code>>

\* Sleeps the retry delay and starts the next attempt.
Retry ==
  /\ pc = "judge"
  /\ Retryable(Last)
  /\ ~AttemptsUsed
  /\ RetryFits
  /\ clock' = clock + RetryDelay
  /\ pc' = "attempt"
  /\ UNCHANGED <<index, history, blocked, lines, counts, code>>

-----------------------------------------------------------------------------
Next ==
  \/ PreflightError \/ PreflightRefused \/ PreflightPassed
  \/ ProfileBlocked \/ ProfileWithoutRoom \/ FirstAttempt \/ Finish
  \/ AttemptEnds
  \/ ProfilePassed \/ ProfileStopped \/ ProfileExhausted \/ ProfileOutOfWindow \/ Retry

\* The driver is one task: it runs on while it can. (That an attempt returns
\* at all is TurboAttempt's Terminates.)
Spec == Init /\ [][Next]_vars /\ WF_vars(Next)

-----------------------------------------------------------------------------
(* Properties *)

\* A profile reported as passed conceals nothing: none of its attempts, the
\* failed ones before the pass included, left anything in the cluster or
\* damaged what it used (`retryable`: "a later success must not conceal a leak
\* or corruption").
PassHidesNothing ==
  \A i \in DOMAIN lines :
    lines[i].status = "pass" =>
      \A k \in DOMAIN lines[i].attempts :
        /\ ~lines[i].attempts[k].left
        /\ ~lines[i].attempts[k].corrupt

\* An attempt that may end in time does end before the window closes, with
\* its cleanup and its result (`attempt_fits`), retries after the delay too.
AttemptEndsInWindow == pc = "judge" => clock <= Window

\* The exit code says what the lines say: 0 only when every profile asked for
\* has a line and passed, 1 exactly when a profile failed, else 2.
ExitTellsTheLines ==
  pc = "done" =>
    /\ code = 0 <=> /\ Len(lines) = Len(Profiles)
                    /\ \A i \in DOMAIN lines : lines[i].status = "pass"
    /\ code = 1 <=> \E i \in DOMAIN lines : /\ lines[i].status = "fail"
                                            /\ lines[i].profile # "preflight"

\* A profile is given up only for a reason: a final failure or a cleanup not
\* verified in its last attempt, every attempt used, or no room for another.
\* (at is when the line was emitted, which is when the last attempt was judged.)
GivenUpForAReason ==
  \A i \in DOMAIN lines :
    lines[i].status = "fail" /\ lines[i].profile # "preflight" =>
      LET a == lines[i].attempts
      IN  \/ ~Retryable(a[Len(a)])
          \/ Len(a) = MaxAttempts
          \/ lines[i].at + RetryDelay + WorstCase > Window

\* The run ends with an exit code.
Terminates == <>(pc = "done" /\ code # -1)

\* README: "A dependency the helper gave up on is reported as `could not run`
\* (exit 2), never as the test failing". `profile` never asks `Out::failure`.
GaveUpIsNotFailed ==
  code = 1 =>
    \E i \in DOMAIN lines :
      /\ lines[i].status = "fail"
      /\ \E k \in DOMAIN lines[i].attempts :
           lines[i].attempts[k].kinds # {} /\ ~lines[i].attempts[k].infra
=============================================================================
