---------------------------- MODULE SuitesProofs ----------------------------
(***************************************************************************)
(* Theorems about the suites beside turbomode and the soak, for every      *)
(* bound. One part of the proof after the other: the mobility run, the     *)
(* choice of the engine's transport and the create, the claim test, the VM *)
(* tests, the podapi run, the topology run; in the end they are put        *)
(* together, each an inductive invariant of all steps, with the medium     *)
(* suite's network, whose proofs are IsolationProofs.                      *)
(***************************************************************************)
EXTENDS Suites, Sequences, FiniteSetTheorems, TLAPS

-----------------------------------------------------------------------------
(* The mobility run, for every window, margin and timeout *)

\* Every reachable state is well typed.
THEOREM TypeCorrect == Spec => []TypeOK
<1>1. Init => TypeOK
  BY DEF Init, TypeOK
<1>2. TypeOK /\ [Next]_vars => TypeOK'
  <2> SUFFICES ASSUME TypeOK, [Next]_vars PROVE TypeOK'
    OBVIOUS
  <2> USE DEF TypeOK
  <2>1. ASSUME at \in DOMAIN Follows
        PROVE  Follows[at] \in {"preflight", "done"} \cup DOMAIN Follows
    BY <2>1 DEF Follows, Tests, Claims, VmTests
  <2>2. CASE PreflightFails
    BY <2>2 DEF PreflightFails
  <2>3. CASE PreflightEnds
    BY <2>3 DEF PreflightEnds
  <2>4. CASE PreflightPasses
    BY <2>4 DEF PreflightPasses, Follows, Tests, Claims
  <2>5. CASE SkipTest
    BY <2>5, <2>1 DEF SkipTest, GoOn, Tell, Follows
  <2>6. CASE RunTest
    <3>1. PICK took \in 0..Longest(at) : now' = now + took
      BY <2>6 DEF RunTest
    <3>2. now' \in Nat
      BY <3>1
    <3> QED BY <2>6, <3>2, <2>1 DEF RunTest, GoOn, Tell, Follows, Tests
  <2>7. CASE CleanUpClaims
    BY <2>7, <2>1 DEF CleanUpClaims, GoOn, Follows
  <2>8. CASE SetUp
    BY <2>8, <2>1 DEF SetUp, GoOn, Follows
  <2>9. CASE SetUpFails
    BY <2>9 DEF SetUpFails, TellVms
  <2>10. CASE CleanUpVm
    <3>1. PICK took \in 0..Gone : now' = now + took
      BY <2>10 DEF CleanUpVm
    <3>2. now' \in Nat
      BY <3>1
    <3> QED BY <2>10, <3>2, <2>1 DEF CleanUpVm, GoOn, Follows
  <2>11. CASE DeleteSecret
    BY <2>11, <2>1 DEF DeleteSecret, GoOn, Follows
  <2>12. CASE UNCHANGED vars
    BY <2>12 DEF vars
  <2> QED
    BY <2>2, <2>3, <2>4, <2>5, <2>6, <2>7, <2>8, <2>9, <2>10, <2>11, <2>12 DEF Next
<1> QED BY <1>1, <1>2, PTL DEF Spec

-----------------------------------------------------------------------------

\* Until the claims' tests are over, the time is within the part of the window
\* that tests may use: what a test waits for is what was reserved for it.
InTime ==
  /\ at = "preflight" => now = 0
  /\ at \in Claims \cup {"drain", "cleanup-claims"} => now <= End

LEMMA LongestClaimIsReserved ==
  ASSUME NEW t \in Claims PROVE Longest(t) = ClaimWorst /\ ClaimWorst \in Nat
  BY TimesAssumption DEF Longest, ClaimWorst, Claims

LEMMA EndIsInWindow == End \in Nat
  BY TimesAssumption DEF End

\* The claims are cleaned up before the part of the window that no test may use,
\* whatever the tests came to (mobility.rs main: "so cleanup always runs").
THEOREM ClaimsCleanedInTime == Spec => []ClaimsAreCleanedInTime
<1>1. Init => InTime
  BY DEF Init, InTime, Claims
<1>2. TypeOK /\ InTime /\ [Next]_vars => InTime'
  <2> SUFFICES ASSUME TypeOK, InTime, [Next]_vars PROVE InTime'
    OBVIOUS
  <2> USE EndIsInWindow DEF TypeOK, InTime, Claims
  <2>1. CASE PreflightPasses
    BY <2>1 DEF PreflightPasses
  <2>2. CASE SkipTest
    BY <2>2 DEF SkipTest, GoOn, Follows, Tests, VmTests
  <2>3. CASE RunTest
    <3>1. CASE at \in Claims
      <4>1. PICK took \in 0..Longest(at) : now' = now + took
        BY <2>3 DEF RunTest
      <4>2. now + ClaimWorst <= End
        BY <2>3, <3>1 DEF RunTest, Fits, Worst
      <4>3. now' <= End /\ now' \in Nat
        BY <4>1, <4>2, <3>1, LongestClaimIsReserved
      <4>4. at' # "preflight"
        BY <2>3, <3>1 DEF RunTest, GoOn, Follows, Tests
      <4> QED BY <4>3, <4>4
    <3>2. CASE at \in VmTests
      BY <2>3, <3>2 DEF RunTest, GoOn, Follows, Tests, VmTests
    <3> QED BY <2>3, <3>1, <3>2 DEF RunTest
  <2>4. CASE CleanUpClaims \/ SetUp \/ CleanUpVm \/ DeleteSecret
    BY <2>4 DEF CleanUpClaims, SetUp, CleanUpVm, DeleteSecret, GoOn, Follows
  <2>5. CASE PreflightFails \/ PreflightEnds \/ SetUpFails
    BY <2>5 DEF PreflightFails, PreflightEnds, SetUpFails
  <2>6. CASE UNCHANGED vars
    BY <2>6 DEF vars
  <2> QED BY <2>1, <2>2, <2>3, <2>4, <2>5, <2>6 DEF Next
<1>3. InTime => ClaimsAreCleanedInTime
  BY DEF InTime, ClaimsAreCleanedInTime
<1> QED BY <1>1, <1>2, <1>3, TypeCorrect, PTL DEF Spec

-----------------------------------------------------------------------------

\* The tests that main has come past at each place.
Behind ==
  [ s \in DOMAIN Follows |->
    CASE s = "claim-node"     -> {}
      [] s = "drain"          -> {"claim-node"}
      [] s = "claim-set"      -> {"claim-node", "drain"}
      [] s = "claim-node-set" -> {"claim-node", "drain", "claim-set"}
      [] s \in {"cleanup-claims", "setup", "vm-live"} -> Claims \cup {"drain"}
      [] s \in {"gone-live", "vm-cold"} -> Claims \cup {"drain", "vm-live"}
      [] s \in {"gone-cold", "secret"} -> Tests ]

\* Before the end, what main has come past is told; at the end, all or nothing.
Told ==
  /\ at = "preflight" => \A t \in Tests : lines[t] = "none"
  /\ at \in DOMAIN Follows => \A t \in Behind[at] : lines[t] # "none"
  /\ at = "done" => \/ \A t \in Tests : lines[t] = "none"
                    \/ \A t \in Tests : lines[t] # "none"

\* A run that got past its preflight has a line for every test at its end,
\* although each may be skipped for the window, the set, the VMs or the key.
THEOREM EveryTestTold == Spec => []EveryTestIsTold
<1> USE DEF Claims, VmTests, Tests
<1>1. Init => Told
  BY DEF Init, Told, Follows
<1>2. TypeOK /\ Told /\ [Next]_vars => Told'
  <2> SUFFICES ASSUME TypeOK, Told, [Next]_vars PROVE Told'
    OBVIOUS
  <2> USE DEF TypeOK, Told
  <2>1. CASE PreflightFails \/ PreflightEnds
    BY <2>1 DEF PreflightFails, PreflightEnds, Follows
  <2>2. CASE PreflightPasses
    BY <2>2 DEF PreflightPasses, Follows, Behind
  <2>3. CASE SkipTest \/ RunTest
    <3>1. PICK l \in {"pass", "fail", "skip", "infra"} :
            lines' = [lines EXCEPT ![at] = l] /\ at \in Tests /\ at' = Follows[at]
      BY <2>3 DEF SkipTest, RunTest, Tell, GoOn
    <3>2. at \in DOMAIN Follows
      BY <3>1 DEF Follows
    <3>3. at' \in DOMAIN Follows /\ Behind[at'] = Behind[at] \cup {at}
      BY <3>1, <3>2 DEF Follows, Behind
    <3>4. \A t \in Behind[at'] : lines'[t] # "none"
      BY <3>1, <3>2, <3>3
    <3> QED BY <3>3, <3>4 DEF Follows
  <2>4. CASE CleanUpClaims \/ SetUp
    BY <2>4 DEF CleanUpClaims, SetUp, GoOn, Follows, Behind
  <2>5. CASE CleanUpVm
    BY <2>5 DEF CleanUpVm, GoOn, Follows, Behind
  <2>6. CASE DeleteSecret
    BY <2>6 DEF DeleteSecret, GoOn, Follows, Behind
  <2>7. CASE SetUpFails
    <3>1. \A t \in Tests \ VmTests : lines[t] # "none"
      BY <2>7 DEF SetUpFails, Follows, Behind
    <3>2. \A t \in Tests : lines'[t] # "none"
      BY <2>7, <3>1 DEF SetUpFails, TellVms
    <3> QED BY <2>7, <3>2 DEF SetUpFails, Follows
  <2>8. CASE UNCHANGED vars
    BY <2>8 DEF vars
  <2> QED BY <2>1, <2>2, <2>3, <2>4, <2>5, <2>6, <2>7, <2>8 DEF Next
<1>3. Told => EveryTestIsTold
  BY DEF Told, EveryTestIsTold
<1> QED BY <1>1, <1>2, <1>3, TypeCorrect, PTL DEF Spec

-----------------------------------------------------------------------------
(* The choice of the engine's transport *)

LEMMA ChoiceTypesStay ==
  ASSUME EngineAttempts \in Nat \ {0}, EngineFaults \in Nat
  PROVE  (E!Init => E!TypeOK) /\ (E!TypeOK /\ [E!Next]_(E!vars) => E!TypeOK')
<1> USE DEF E!TypeOK, E!given
<1>1. ASSUME E!Init PROVE E!TypeOK
  <2>1. trusted \in BOOLEAN /\ refused \in BOOLEAN
    BY <1>1, Zenon DEF E!Init
  <2>2. attempt \in 0..EngineAttempts /\ engineFaults \in 0..EngineFaults
    BY <1>1 DEF E!Init
  <2>3. /\ mode \in 1..3 /\ began \in 1..3
        /\ url \in {"none", "http", "https", "other"}
           /\ ca \in {"none", "usable", "unusable"}
        /\ enginePc \in {"start", "tls", "plain", "done"}
        /\ choice \in {"none", "https", "http", "error"}
    BY <1>1, Zenon DEF E!Init
  <2> QED BY <2>1, <2>2, <2>3
<1>2. E!TypeOK /\ [E!Next]_(E!vars) => E!TypeOK'
  <2> SUFFICES ASSUME E!TypeOK, [E!Next]_(E!vars) PROVE E!TypeOK'
    OBVIOUS
  <2>1. CASE E!Switch
    BY <2>1 DEF E!Switch
  <2>2. CASE E!Given
    BY <2>2 DEF E!Given, E!Choose
  <2>3. CASE E!Ask
    BY <2>3 DEF E!Ask
  <2>4. CASE E!TlsAnswers
    BY <2>4 DEF E!TlsAnswers, E!Choose
  <2>5. CASE E!TlsFails
    BY <2>5 DEF E!TlsFails, E!Fault
  <2>6. CASE E!PlainAnswers
    BY <2>6 DEF E!PlainAnswers, E!Choose
  <2>7. CASE E!PlainFails
    BY <2>7 DEF E!PlainFails, E!MayRetry, E!Fault, E!Choose
  <2>8. CASE UNCHANGED E!vars
    BY <2>8 DEF E!vars
  <2> QED BY <2>1, <2>2, <2>3, <2>4, <2>5, <2>6, <2>7, <2>8 DEF E!Next
<1> QED BY <1>1, <1>2

\* A refused certificate ends the choice.
RefusedEnds == refused => enginePc = "done"

LEMMA RefusalStaysFinal ==
  /\ E!Init => RefusedEnds /\ E!RefusalIsFinal
  /\ RefusedEnds /\ E!RefusalIsFinal /\ [E!Next]_(E!vars)
     => (RefusedEnds /\ E!RefusalIsFinal)'
<1> USE DEF RefusedEnds, E!RefusalIsFinal
<1>1. E!Init => RefusedEnds /\ E!RefusalIsFinal
  BY DEF E!Init
<1>2. RefusedEnds /\ E!RefusalIsFinal /\ [E!Next]_(E!vars)
      => (RefusedEnds /\ E!RefusalIsFinal)'
  <2> SUFFICES ASSUME RefusedEnds, E!RefusalIsFinal, [E!Next]_(E!vars)
               PROVE  (RefusedEnds /\ E!RefusalIsFinal)'
    OBVIOUS
  <2>1. CASE E!TlsAnswers
    BY <2>1 DEF E!TlsAnswers, E!Choose
  <2>2. CASE E!Switch \/ E!Ask \/ E!TlsFails
    BY <2>2 DEF E!Switch, E!Ask, E!TlsFails
  <2>3. CASE E!Given \/ E!PlainAnswers
    <3>1. enginePc = "start" \/ enginePc = "plain"
      BY <2>3 DEF E!Given, E!PlainAnswers
    <3>2. ~refused
      BY <3>1
    <3>3. refused' = refused
      BY <2>3 DEF E!Given, E!PlainAnswers
    <3>4. ~refused'
      BY <3>2, <3>3, Zenon
    <3> QED BY <3>4
  <2>4. CASE E!PlainFails
    BY <2>4 DEF E!PlainFails
  <2>5. CASE UNCHANGED E!vars
    BY <2>5 DEF E!vars
  <2> QED BY <2>1, <2>2, <2>3, <2>4, <2>5 DEF E!Next
<1> QED BY <1>1, <1>2


\* The connections that failed, of an engine that was TLS only from the start.
Failed == EngineFaults - engineFaults

\* Such an engine stays so, and each attempt that is over, or came to its plain
\* half, has failed a connection.
Unlucky ==
  began = 3 =>
    /\ mode = 3
    /\ enginePc = "start" => choice = "none"
    /\ enginePc = "tls" => attempt >= 1 /\ Failed >= attempt - 1 /\ choice = "none"
    /\ enginePc = "plain" => attempt >= 1 /\ Failed >= attempt /\ choice = "none"
    /\ enginePc = "done" /\ url = "none" /\ ca = "usable" /\ choice = "http"
       => Failed >= EngineAttempts

LEMMA UnluckyStays ==
  ASSUME EngineAttempts \in Nat \ {0}, EngineFaults \in Nat
  PROVE  /\ E!Init => Unlucky
         /\ E!TypeOK /\ Unlucky /\ [E!Next]_(E!vars) => Unlucky'
         /\ E!TypeOK /\ Unlucky => E!PlainOfTlsIsUnlucky
<1> USE DEF E!TypeOK, E!given, Failed, Unlucky, E!Modes, E!OffersTls, E!OffersPlain
<1>1. E!Init => Unlucky
  BY DEF E!Init
<1>2. E!TypeOK /\ Unlucky /\ [E!Next]_(E!vars) => Unlucky'
  <2> SUFFICES ASSUME E!TypeOK, Unlucky, [E!Next]_(E!vars), began = 3 PROVE Unlucky'
    BY DEF E!Next, E!vars, E!Switch, E!Given, E!Ask, E!TlsAnswers, E!TlsFails,
           E!PlainAnswers, E!PlainFails
  <2>1. CASE E!Switch
    BY <2>1 DEF E!Switch
  <2>2. CASE E!Given
    BY <2>2 DEF E!Given, E!Choose
  <2>3. CASE E!Ask
    BY <2>3 DEF E!Ask
  <2>4. CASE E!TlsAnswers
    BY <2>4 DEF E!TlsAnswers, E!Choose
  <2>5. CASE E!TlsFails
    BY <2>5 DEF E!TlsFails, E!Fault
  <2>6. CASE E!PlainAnswers
    BY <2>6 DEF E!PlainAnswers
  <2>7. CASE E!PlainFails
    BY <2>7 DEF E!PlainFails, E!MayRetry, E!Choose
  <2>8. CASE UNCHANGED E!vars
    BY <2>8 DEF E!vars
  <2> QED BY <2>1, <2>2, <2>3, <2>4, <2>5, <2>6, <2>7, <2>8 DEF E!Next
<1>3. E!TypeOK /\ Unlucky => E!PlainOfTlsIsUnlucky
  BY DEF E!PlainOfTlsIsUnlucky
<1> QED BY <1>1, <1>2, <1>3

EngineInv == E!TypeOK /\ RefusedEnds /\ E!RefusalIsFinal /\ Unlucky

-----------------------------------------------------------------------------
(* A create *)

\* There is an attempt left while the client goes on, and every POST that is on
\* its way was one.
Counted ==
  /\ createPc # "done" => tries < CreateAttempts
  /\ onItsWay <= tries

LEMMA CountedStays ==
  ASSUME CreateAttempts \in Nat \ {0}, CreateFaults \in Nat
  PROVE  /\ K!Init => K!TypeOK /\ Counted
         /\ K!TypeOK /\ Counted /\ [K!Next]_(K!vars) => (K!TypeOK /\ Counted)'
<1> USE DEF K!TypeOK, Counted
<1>1. K!Init => K!TypeOK /\ Counted
  BY DEF K!Init
<1>2. K!TypeOK /\ Counted /\ [K!Next]_(K!vars) => (K!TypeOK /\ Counted)'
  <2> SUFFICES ASSUME K!TypeOK, Counted, [K!Next]_(K!vars) PROVE (K!TypeOK /\ Counted)'
    OBVIOUS
  <2>1. CASE K!Land
    BY <2>1 DEF K!Land, K!Commits
  <2>2. CASE K!Settle
    BY <2>2 DEF K!Settle
  <2>3. CASE K!PostAnswered
    BY <2>3 DEF K!PostAnswered, K!Commits, K!Return
  <2>4. CASE K!PostNotSent
    BY <2>4 DEF K!PostNotSent, K!Fault, K!Return
  <2>5. CASE K!PostUnsure
    <3>1. object' \in {"none", "ours", "other"} /\ onItsWay' \in {onItsWay, onItsWay + 1}
      BY <2>5 DEF K!PostUnsure, K!Commits
    <3> QED BY <2>5, <3>1 DEF K!PostUnsure, K!Fault, K!Return
  <2>6. CASE K!Look
    BY <2>6 DEF K!Look, K!Return
  <2>7. CASE K!LookFails
    BY <2>7 DEF K!LookFails, K!Fault, K!Return
  <2>8. CASE UNCHANGED K!vars
    BY <2>8 DEF K!vars
  <2> QED BY <2>1, <2>2, <2>3, <2>4, <2>5, <2>6, <2>7, <2>8 DEF K!Next
<1> QED BY <1>1, <1>2

\* A result ends the create.
Pending == createPc # "done" => createResult = "none"

LEMMA CreatedStaysOurs ==
  /\ K!Init => Pending /\ K!CreatedIsOurs
  /\ Pending /\ K!CreatedIsOurs /\ [K!Next]_(K!vars) => (Pending /\ K!CreatedIsOurs)'
<1> USE DEF Pending, K!CreatedIsOurs
<1>1. K!Init => Pending /\ K!CreatedIsOurs
  BY DEF K!Init
<1>2. Pending /\ K!CreatedIsOurs /\ [K!Next]_(K!vars) => (Pending /\ K!CreatedIsOurs)'
  <2> SUFFICES ASSUME Pending, K!CreatedIsOurs, [K!Next]_(K!vars)
               PROVE  (Pending /\ K!CreatedIsOurs)'
    OBVIOUS
  <2>1. CASE K!Land
    BY <2>1 DEF K!Land, K!Commits, K!Taken
  <2>2. CASE K!Settle
    BY <2>2 DEF K!Settle
  <2>3. CASE K!PostAnswered
    BY <2>3 DEF K!PostAnswered, K!Commits, K!Return
  <2>4. CASE K!PostNotSent \/ K!PostUnsure
    BY <2>4 DEF K!PostNotSent, K!PostUnsure, K!Return
  <2>5. CASE K!Look \/ K!LookFails
    BY <2>5 DEF K!Look, K!LookFails, K!LabelsMatch, K!Return
  <2>6. CASE UNCHANGED K!vars
    BY <2>6 DEF K!vars
  <2> QED BY <2>1, <2>2, <2>3, <2>4, <2>5, <2>6 DEF K!Next
<1> QED BY <1>1, <1>2


\* Before the first POST nothing is ours, and a look comes after one.
Untried ==
  /\ tries \in Nat
  /\ createPc \in {"post", "get", "done"}
  /\ createPc = "get" => tries > 0
  /\ createPc = "post" /\ tries = 0 => object # "ours" /\ onItsWay = 0

LEMMA RefusedStaysAbsent ==
  /\ K!Init => Pending /\ Untried /\ K!RefusedAtOnceIsAbsent
  /\ Pending /\ Untried /\ K!RefusedAtOnceIsAbsent /\ [K!Next]_(K!vars) =>
       (Pending /\ Untried /\ K!RefusedAtOnceIsAbsent)'
<1> USE DEF Pending, Untried, K!RefusedAtOnceIsAbsent
<1> DEFINE IInv == Pending /\ Untried /\ K!RefusedAtOnceIsAbsent
<1>1. K!Init => IInv
  BY DEF K!Init
<1>2. IInv /\ [K!Next]_(K!vars) => IInv'
  <2> SUFFICES ASSUME IInv, [K!Next]_(K!vars) PROVE IInv'
    OBVIOUS
  <2>1. CASE K!Land
    BY <2>1 DEF K!Land
  <2>2. CASE K!Settle
    BY <2>2 DEF K!Settle
  <2>3. CASE K!PostAnswered
    BY <2>3 DEF K!PostAnswered, K!Commits, K!Taken, K!Return
  <2>4. CASE K!PostNotSent \/ K!PostUnsure
    BY <2>4 DEF K!PostNotSent, K!PostUnsure, K!Return
  <2>5. CASE K!Look \/ K!LookFails
    BY <2>5 DEF K!Look, K!LookFails, K!Return
  <2>6. CASE UNCHANGED K!vars
    BY <2>6 DEF K!vars
  <2> QED BY <2>1, <2>2, <2>3, <2>4, <2>5, <2>6 DEF K!Next
<1> QED BY <1>1, <1>2

CreateInv ==
  K!TypeOK /\ Counted /\ Pending /\ K!CreatedIsOurs /\ Untried /\ K!RefusedAtOnceIsAbsent

-----------------------------------------------------------------------------
(* What the steps do to the pods *)

LEMMA OnePodIsChanged ==
  ASSUME pods \in [C!Names -> C!Pod], NEW n \in C!Names, NEW q \in C!Pod,
         pods' = [pods EXCEPT ![n] = q]
  PROVE  /\ pods' \in [C!Names -> C!Pod] /\ pods'[n] = q
         /\ \A m \in C!Names : m # n => pods'[m] = pods[m]
  OBVIOUS

\* What a pod may become.
LEMMA PodsStayPods ==
  ASSUME NEW p \in C!Pod
  PROVE  /\ \A f \in {"none", "pending", "gone"} : [p EXCEPT !.phase = f] \in C!Pod
         /\ \A m \in C!Nodes : [p EXCEPT !.phase = "starting", !.node = m,
                                !.starts = 1] \in C!Pod
         /\ \A s \in {"written", "found", "mismatch"}, c \in C!Contents :
              [p EXCEPT !.phase = "ready", !.said = s, !.sha256 = c] \in C!Pod
         /\ \A k \in Nat : [p EXCEPT !.phase = "starting", !.starts = k,
                            !.said = "none"] \in C!Pod
<1>1. \A f \in {"none", "pending", "gone"} : [p EXCEPT !.phase = f] \in C!Pod
  BY DEF C!Pod
<1>2. \A m \in C!Nodes : [p EXCEPT !.phase = "starting", !.node = m, !.starts = 1] \in C!Pod
  BY DEF C!Pod
<1>3. \A s \in {"written", "found", "mismatch"}, c \in C!Contents :
        [p EXCEPT !.phase = "ready", !.said = s, !.sha256 = c] \in C!Pod
  BY DEF C!Pod
<1>4. \A k \in Nat : [p EXCEPT !.phase = "starting", !.starts = k,
                      !.said = "none"] \in C!Pod
  BY DEF C!Pod
<1> QED BY <1>1, <1>2, <1>3, <1>4

\* The others are as they were.
OnlyPod(n) == pods' \in [C!Names -> C!Pod] /\ \A m \in C!Names : m # n => pods'[m] = pods[m]

LEMMA PodStarts ==
  ASSUME C!TypeOK, NEW n \in C!Names, C!StartPod(n)
  PROVE  /\ OnlyPod(n) /\ pods[n].phase = "pending" /\ pods'[n].phase = "starting"
         /\ pods'[n].node = claim.at /\ pods'[n].starts = 1 /\ pods'[n].said = pods[n].said
         /\ UNCHANGED <<claim, claimMove, asked, claimHarms, claimLost>>
<1>. DEFINE q == [pods[n] EXCEPT !.phase = "starting", !.node = claim.at, !.starts = 1]
<1>1. pods \in [C!Names -> C!Pod] /\ pods[n] \in C!Pod /\ claim.at \in C!Nodes
  BY DEF C!TypeOK
<1>2. pods' = [pods EXCEPT ![n] = q] /\ pods[n].phase = "pending"
      /\ UNCHANGED <<claim, claimMove, asked, claimHarms, claimLost>>
  BY <1>1 DEF C!StartPod
<1>3. q \in C!Pod
  BY <1>1, PodsStayPods
<1>4. q.phase = "starting" /\ q.node = claim.at /\ q.starts = 1 /\ q.said = pods[n].said
  BY <1>1 DEF C!Pod
<1>. HIDE DEF q
<1> QED BY <1>1, <1>2, <1>3, <1>4, OnePodIsChanged DEF OnlyPod

LEMMA PodSays ==
  ASSUME C!TypeOK, NEW n \in C!Names, C!Say(n)
  PROVE  /\ OnlyPod(n) /\ pods[n].phase = "starting" /\ pods'[n].phase = "ready"
         /\ pods'[n].node = pods[n].node /\ pods'[n].starts = pods[n].starts
         /\ \/ claim.holds = "empty" /\ pods'[n].said = "written" /\ claim'.holds = "whole"
            \/ claim.holds = "whole" /\ pods'[n].said = "found" /\ claim'.holds = "whole"
            \/ /\ claim.holds \in {"torn", "damaged"} /\ pods'[n].said = "mismatch"
               /\ claim'.holds = claim.holds
         /\ claim' \in [ at : C!Nodes, holds : C!Contents ] /\ claim'.at = claim.at
         /\ UNCHANGED <<claimMove, asked, claimHarms, claimLost>>
<1>. DEFINE word == CASE claim.holds = "empty" -> "written"
                      [] claim.holds = "whole" -> "found"
                      [] OTHER -> "mismatch"
            q == [pods[n] EXCEPT !.phase = "ready", !.said = word, !.sha256 = claim'.holds]
<1>1. /\ pods \in [C!Names -> C!Pod] /\ pods[n] \in C!Pod
      /\ claim \in [ at : C!Nodes, holds : C!Contents ] /\ claim.holds \in C!Contents
  BY DEF C!TypeOK
<1>2. claim' = [claim EXCEPT !.holds = IF claim.holds = "empty" THEN "whole" ELSE claim.holds]
  BY DEF C!Say
<1>3. /\ claim' \in [ at : C!Nodes, holds : C!Contents ] /\ claim'.at = claim.at
      /\ claim'.holds = IF claim.holds = "empty" THEN "whole" ELSE claim.holds
  BY <1>1, <1>2 DEF C!Contents
<1>4. pods' = [pods EXCEPT ![n] = q] /\ pods[n].phase = "starting"
      /\ UNCHANGED <<claimMove, asked, claimHarms, claimLost>>
  BY <1>1 DEF C!Say
<1>5. /\ claim.holds = "empty" => word = "written"
      /\ claim.holds = "whole" => word = "found"
      /\ claim.holds \in {"torn", "damaged"} => word = "mismatch"
      /\ word \in {"written", "found", "mismatch"}
  BY <1>1 DEF C!Contents
<1>. HIDE DEF word
<1>6. q \in C!Pod
  BY <1>1, <1>3, <1>5, PodsStayPods
<1>7. q.phase = "ready" /\ q.said = word /\ q.node = pods[n].node
      /\ q.starts = pods[n].starts
  BY <1>1 DEF C!Pod
<1>. HIDE DEF q
<1>8. OnlyPod(n) /\ pods'[n] = q
  BY <1>1, <1>4, <1>6, OnePodIsChanged DEF OnlyPod
<1> QED BY <1>1, <1>3, <1>4, <1>5, <1>7, <1>8 DEF C!Contents

LEMMA PodIsKilled ==
  ASSUME C!TypeOK, ClaimHarms \in Nat, NEW n \in C!Names, C!Kill(n)
  PROVE  /\ OnlyPod(n) /\ pods[n].phase \in {"starting", "ready"}
         /\ pods'[n].phase = "starting" /\ pods'[n].node = pods[n].node
         /\ pods'[n].starts = pods[n].starts + 1 /\ pods'[n].said = "none"
         /\ claimHarms' \in 0..ClaimHarms
         /\ claim' \in [ at : C!Nodes, holds : C!Contents ] /\ claim'.at = claim.at
         /\ UNCHANGED <<claimMove, asked, claimLost>>
<1>. DEFINE q == [pods[n] EXCEPT !.phase = "starting", !.starts = pods[n].starts + 1,
                                 !.said = "none"]
<1>1. /\ pods \in [C!Names -> C!Pod] /\ pods[n] \in C!Pod /\ claimHarms \in 0..ClaimHarms
      /\ claim \in [ at : C!Nodes, holds : C!Contents ]
  BY DEF C!TypeOK
<1>2. pods' = [pods EXCEPT ![n] = q] /\ pods[n].phase \in {"starting", "ready"}
      /\ UNCHANGED <<claimMove, asked, claimLost>>
  BY <1>1 DEF C!Kill, C!Live
<1>3. pods[n].starts + 1 \in Nat
  BY <1>1 DEF C!Pod
<1>4. q \in C!Pod
  BY <1>1, <1>3, PodsStayPods
<1>5. q.phase = "starting" /\ q.node = pods[n].node /\ q.starts = pods[n].starts + 1
      /\ q.said = "none"
  BY <1>1 DEF C!Pod
<1>. HIDE DEF q
<1>6. OnlyPod(n) /\ pods'[n] = q
  BY <1>1, <1>2, <1>4, OnePodIsChanged DEF OnlyPod
<1>7. claimHarms' \in 0..ClaimHarms
  BY <1>1 DEF C!Kill, C!Harm
<1>8. claim' \in [ at : C!Nodes, holds : C!Contents ] /\ claim'.at = claim.at
  BY <1>1 DEF C!Kill, C!Contents
<1> QED BY <1>2, <1>5, <1>6, <1>7, <1>8

LEMMA PodIsRemoved ==
  ASSUME C!TypeOK, NEW n \in C!Names, C!RemovePod(n)
  PROVE  /\ OnlyPod(n) /\ pods[n].phase = "gone" /\ pods'[n].phase = "none"
         /\ pods'[n].node = pods[n].node /\ pods'[n].starts = pods[n].starts
         /\ pods'[n].said = pods[n].said
         /\ UNCHANGED <<claim, claimMove, asked, claimHarms, claimLost>>
<1>. DEFINE q == [pods[n] EXCEPT !.phase = "none"]
<1>1. pods \in [C!Names -> C!Pod] /\ pods[n] \in C!Pod
  BY DEF C!TypeOK
<1>2. pods' = [pods EXCEPT ![n] = q] /\ pods[n].phase = "gone"
      /\ UNCHANGED <<claim, claimMove, asked, claimHarms, claimLost>>
  BY <1>1 DEF C!RemovePod
<1>3. q \in C!Pod
  BY <1>1, PodsStayPods
<1>4. q.phase = "none" /\ q.node = pods[n].node /\ q.starts = pods[n].starts
      /\ q.said = pods[n].said
  BY <1>1 DEF C!Pod
<1>. HIDE DEF q
<1> QED BY <1>1, <1>2, <1>3, <1>4, OnePodIsChanged DEF OnlyPod

\* The driver creates a pod, and deletes the first.
LEMMA PodIsMade ==
  ASSUME C!TypeOK, NEW n \in C!Names, NEW f \in {"pending", "gone"},
         pods' = [pods EXCEPT ![n].phase = f]
  PROVE  /\ OnlyPod(n) /\ pods'[n].phase = f /\ pods'[n].node = pods[n].node
         /\ pods'[n].starts = pods[n].starts /\ pods'[n].said = pods[n].said
<1>. DEFINE q == [pods[n] EXCEPT !.phase = f]
<1>1. pods \in [C!Names -> C!Pod] /\ pods[n] \in C!Pod
  BY DEF C!TypeOK
<1>2. pods' = [pods EXCEPT ![n] = q]
  BY <1>1
<1>3. q \in C!Pod
  BY <1>1, PodsStayPods
<1>4. q.phase = f /\ q.node = pods[n].node /\ q.starts = pods[n].starts
      /\ q.said = pods[n].said
  BY <1>1 DEF C!Pod
<1>. HIDE DEF q
<1> QED BY <1>1, <1>2, <1>3, <1>4, OnePodIsChanged DEF OnlyPod

-----------------------------------------------------------------------------
(* Types *)

Got == [ starts : Nat, ready : BOOLEAN, node : C!Nodes, said : {"none", "written", "found"},
         sha256 : C!Contents ]

\* The mover's steps but the last leave all but its state alone.
LEMMA MoverSays ==
  ASSUME C!Answer \/ C!Synced \/ C!GiveUpMove
  PROVE  /\ UNCHANGED <<claim, asked, pods, claimHarms, claimLost>>
         /\ claimMove' \in C!Moves /\ claimMove # "complete" /\ claimMove' # "complete"
         /\ claimMove = "unanswered" => asked
  BY DEF C!Answer, C!Synced, C!GiveUpMove, C!Moves

LEMMA MoverCutsOver ==
  ASSUME C!TypeOK, ClaimHarms \in Nat, C!CutOver
  PROVE  /\ UNCHANGED <<asked, pods>> /\ claimMove # "complete" /\ claimMove' = "complete"
         /\ claimMove # "unanswered"
         /\ claim' \in [ at : C!Nodes, holds : C!Contents ] /\ claimHarms' \in 0..ClaimHarms
         /\ claimLost' \in BOOLEAN
         /\ toNode => ~\E n \in C!Names : pods[n].phase \in {"starting", "ready", "gone"}
         /\ \/ claimLost' = claimLost /\ claim'.holds = claim.holds
            \/ claimLost' = TRUE /\ claim'.holds \in {"empty", "damaged"}
<1>1. claim \in [ at : C!Nodes, holds : C!Contents ] /\ claimHarms \in 0..ClaimHarms
      /\ claimLost \in BOOLEAN
  BY DEF C!TypeOK
<1>2. C!Target \in C!Nodes
  BY DEF C!Target, C!Nodes
<1>3. /\ UNCHANGED <<asked, pods>> /\ claimMove \notin {"complete", "unanswered"}
      /\ claimMove' = "complete"
      /\ toNode => ~\E n \in C!Names : pods[n].phase \in {"starting", "ready", "gone"}
  BY DEF C!CutOver
<1>4. claimHarms' \in 0..ClaimHarms
  BY <1>1 DEF C!CutOver, C!Harm
<1>5. CASE UNCHANGED claimLost /\ \E n \in C!Nodes : claim' = [claim EXCEPT !.at = n]
  BY <1>1, <1>3, <1>4, <1>5
<1>6. CASE /\ claimLost' = TRUE
           /\ \E c \in {"empty", "damaged"},
              n \in C!Nodes : claim' = [ at |-> n, holds |-> c ]
  <2>1. PICK c \in {"empty", "damaged"}, n \in C!Nodes : claim' = [ at |-> n, holds |-> c ]
    BY <1>6
  <2>2. claim' \in [ at : C!Nodes, holds : C!Contents ] /\ claim'.holds = c
    BY <2>1 DEF C!Contents
  <2>3. claimLost' = TRUE
    BY <1>6
  <2> QED BY <1>3, <1>4, <2>2, <2>3
<1>7. CASE claimLost' = claimLost
           /\ claim' = [claim EXCEPT !.at = IF toNode THEN C!Target ELSE claim.at]
  BY <1>1, <1>2, <1>3, <1>4, <1>7
<1>8. \/ UNCHANGED claimLost /\ \E n \in C!Nodes : claim' = [claim EXCEPT !.at = n]
      \/ /\ claimLost' = TRUE
         /\ \E c \in {"empty", "damaged"},
            n \in C!Nodes : claim' = [ at |-> n, holds |-> c ]
      \/ claimLost' = claimLost
         /\ claim' = [claim EXCEPT !.at = IF toNode THEN C!Target ELSE claim.at]
  <2>1. claim.at \in C!Nodes
    BY <1>1
  <2> QED BY <1>2, <2>1 DEF C!CutOver
<1> QED BY <1>5, <1>6, <1>7, <1>8

LEMMA ClaimClusterKeepsTypes ==
  ASSUME C!TypeOK, ClaimHarms \in Nat, C!Cluster
  PROVE  C!TypeOK'
<1>0. UNCHANGED <<C!driver, claimFaults>>
  BY DEF C!Cluster
<1>1. ASSUME /\ claim' \in [ at : C!Nodes, holds : C!Contents ] /\ claimMove' \in C!Moves
             /\ asked' \in BOOLEAN /\ pods' \in [C!Names -> C!Pod]
                /\ claimHarms' \in 0..ClaimHarms
             /\ claimLost' \in BOOLEAN
      PROVE  C!TypeOK'
  BY <1>0, <1>1 DEF C!TypeOK, C!driver
<1>2. /\ claim \in [ at : C!Nodes, holds : C!Contents ] /\ claimMove \in C!Moves
         /\ asked \in BOOLEAN
      /\ pods \in [C!Names -> C!Pod] /\ claimHarms \in 0..ClaimHarms
         /\ claimLost \in BOOLEAN
  BY DEF C!TypeOK
<1>3. ASSUME NEW n \in C!Names, C!StartPod(n) PROVE C!TypeOK'
  BY <1>1, <1>2, <1>3, PodStarts DEF OnlyPod
<1>4. ASSUME NEW n \in C!Names, C!Say(n) PROVE C!TypeOK'
  BY <1>1, <1>2, <1>4, PodSays DEF OnlyPod
<1>5. ASSUME NEW n \in C!Names, C!Kill(n) PROVE C!TypeOK'
  BY <1>1, <1>2, <1>5, PodIsKilled DEF OnlyPod
<1>6. ASSUME NEW n \in C!Names, C!RemovePod(n) PROVE C!TypeOK'
  BY <1>1, <1>2, <1>6, PodIsRemoved DEF OnlyPod
<1>7. CASE C!Answer \/ C!Synced \/ C!GiveUpMove
  BY <1>1, <1>2, <1>7, MoverSays
<1>8. CASE C!CutOver
  <2>1. "complete" \in C!Moves
    BY DEF C!Moves
  <2> QED BY <1>1, <1>2, <1>8, <2>1, MoverCutsOver
<1> QED BY <1>3, <1>4, <1>5, <1>6, <1>7, <1>8 DEF C!Cluster

\* What a look at the pod, and a line of it, make of what was got.
LEMMA GotStaysTyped ==
  ASSUME C!TypeOK
  PROVE  /\ got \in Got /\ C!NoLook \in Got
         /\ [got EXCEPT !.starts = pods[up].starts, !.node = pods[up].node,
                        !.ready = got.ready \/ pods[up].phase = "ready"] \in Got
         /\ \A s \in {"written", "found"} :
              [got EXCEPT !.said = s, !.sha256 = pods[up].sha256] \in Got
<1>1. got \in Got /\ pods[up] \in C!Pod
  BY DEF C!TypeOK, Got
<1>2. C!NoLook \in Got
  BY DEF C!NoLook, Got, C!Nodes, C!Contents
<1>3. pods[up].starts \in Nat /\ pods[up].node \in C!Nodes /\ pods[up].sha256 \in C!Contents
  BY <1>1 DEF C!Pod
<1>4. (got.ready \/ pods[up].phase = "ready") \in BOOLEAN
  OBVIOUS
<1>5. \A r \in BOOLEAN : [got EXCEPT !.starts = pods[up].starts, !.node = pods[up].node,
                                    !.ready = r] \in Got
  BY <1>1, <1>3 DEF Got
<1>6. \A s \in {"written", "found"} : [got EXCEPT !.said = s,
                                       !.sha256 = pods[up].sha256] \in Got
  BY <1>1, <1>3 DEF Got
<1> QED BY <1>1, <1>2, <1>4, <1>5, <1>6

ClaimDriverStep ==
  \/ C!CreateClaim \/ C!CreatePod \/ C!LookAtPod \/ C!ReadLog
  \/ C!JudgeFirst \/ C!Annotate \/ C!WaitMove
  \/ C!ReadKept \/ C!Delete \/ C!DeleteEnds \/ C!ReadState \/ C!Judge

\* Of the cluster the driver changes only the pods and whether the move is asked for.
LEMMA ClaimDriverLeaves ==
  ASSUME ClaimDriverStep
  PROVE  UNCHANGED <<claim, claimMove, claimHarms, claimLost, toNode>>
<1>1. CASE C!CreateClaim \/ C!LookAtPod \/ C!ReadLog \/ C!JudgeFirst \/ C!WaitMove
           \/ C!ReadKept \/ C!ReadState
           \/ C!Judge
  BY <1>1 DEF C!CreateClaim, C!LookAtPod, C!ReadLog, C!JudgeFirst, C!WaitMove, C!ReadKept,
              C!ReadState, C!Judge,
              C!Looks, C!cluster
<1>2. CASE C!CreatePod \/ C!Annotate \/ C!Delete \/ C!DeleteEnds
  BY <1>2 DEF C!CreatePod, C!Annotate, C!Delete, C!DeleteEnds, C!cluster, C!driver
<1> QED BY <1>1, <1>2 DEF ClaimDriverStep

LEMMA ClaimDriverKeepsTypes ==
  ASSUME C!TypeOK, ClaimFaults \in Nat, ClaimDriverStep
  PROVE  C!TypeOK'
<1>0. UNCHANGED <<claim, claimMove, claimHarms, claimLost, toNode>>
  BY ClaimDriverLeaves
<1>1. claimFaults' \in 0..ClaimFaults
  <2>1. UNCHANGED claimFaults \/ C!Fault
    BY DEF ClaimDriverStep, C!CreateClaim, C!CreatePod, C!LookAtPod, C!ReadLog,
           C!JudgeFirst, C!Annotate, C!WaitMove,
           C!ReadKept, C!Delete, C!DeleteEnds, C!ReadState, C!Judge, C!Failure, C!UpFails
  <2> QED BY <2>1 DEF C!TypeOK, C!Fault
<1>2. pods' \in [C!Names -> C!Pod] /\ asked' \in BOOLEAN
  <2>0. "first" \in C!Names /\ up \in C!Names
    BY DEF C!Names, C!TypeOK
  <2>1. CASE C!CreatePod
    <3>1. UNCHANGED pods \/ pods' = [pods EXCEPT ![up].phase = "pending"]
      BY <2>1 DEF C!CreatePod
    <3>2. asked' = asked
      BY <2>1 DEF C!CreatePod
    <3> QED BY <2>0, <3>1, <3>2, PodIsMade DEF C!TypeOK, OnlyPod
  <2>2. CASE C!Delete
    <3>1. pods' = [pods EXCEPT !["first"].phase = "gone"] /\ asked' = asked
      BY <2>2 DEF C!Delete
    <3> QED BY <2>0, <3>1, PodIsMade DEF C!TypeOK, OnlyPod
  <2>3. CASE C!Annotate
    BY <2>3 DEF C!Annotate, C!TypeOK
  <2>4. CASE C!CreateClaim \/ C!LookAtPod \/ C!ReadLog \/ C!JudgeFirst \/ C!WaitMove
             \/ C!ReadKept \/ C!ReadState
             \/ C!Judge \/ C!DeleteEnds
    BY <2>4 DEF C!CreateClaim, C!LookAtPod, C!ReadLog, C!JudgeFirst, C!WaitMove,
                C!ReadKept, C!ReadState, C!Judge,
                C!DeleteEnds, C!Looks, C!cluster, C!TypeOK
  <2> QED BY <2>1, <2>2, <2>3, <2>4 DEF ClaimDriverStep
<1>3. got' \in Got
  <2>1. CASE C!LookAtPod
    <3>1. \/ got' = got
          \/ got' = [got EXCEPT !.starts = pods[up].starts, !.node = pods[up].node,
                                !.ready = got.ready \/ pods[up].phase = "ready"]
      BY <2>1 DEF C!LookAtPod
    <3> QED BY <3>1, GotStaysTyped
  <2>2. CASE C!ReadLog
    <3>1. \/ got' = got
          \/ \E s \in {"written", "found"} :
               got' = [got EXCEPT !.said = s, !.sha256 = pods[up].sha256]
      BY <2>2 DEF C!ReadLog
    <3> QED BY <3>1, GotStaysTyped
  <2>3. CASE ~C!LookAtPod /\ ~C!ReadLog
    <3>1. got' = got \/ got' = C!NoLook
      BY <2>3 DEF ClaimDriverStep, C!CreateClaim, C!CreatePod, C!JudgeFirst, C!Annotate,
                  C!WaitMove, C!ReadKept,
                  C!Delete, C!DeleteEnds, C!ReadState, C!Judge, C!driver
    <3> QED BY <3>1, GotStaysTyped
  <2> QED BY <2>1, <2>2, <2>3
<1>4. atRequest' \in Nat /\ bytes' \in C!Contents /\ kept' \in BOOLEAN /\ up' \in C!Names
  <2>0. pods["first"].starts \in Nat /\ got.sha256 \in C!Contents
    BY GotStaysTyped DEF C!TypeOK, C!Names, C!Pod, Got
  <2>1. \/ atRequest' = atRequest
        \/ atRequest' = pods["first"].starts
    BY DEF ClaimDriverStep, C!CreateClaim, C!CreatePod, C!LookAtPod, C!ReadLog,
           C!JudgeFirst, C!Annotate, C!WaitMove,
           C!ReadKept, C!Delete, C!DeleteEnds, C!ReadState, C!Judge, C!driver
  <2>2. bytes' = bytes \/ bytes' = got.sha256
    BY DEF ClaimDriverStep, C!CreateClaim, C!CreatePod, C!LookAtPod, C!ReadLog,
           C!JudgeFirst, C!Annotate, C!WaitMove,
           C!ReadKept, C!Delete, C!DeleteEnds, C!ReadState, C!Judge, C!driver
  <2>3. kept' = kept \/ kept' = C!KeptRunning
    BY DEF ClaimDriverStep, C!CreateClaim, C!CreatePod, C!LookAtPod, C!ReadLog,
           C!JudgeFirst, C!Annotate, C!WaitMove,
           C!ReadKept, C!Delete, C!DeleteEnds, C!ReadState, C!Judge, C!driver
  <2>4. up' = up \/ up' = "second"
    BY DEF ClaimDriverStep, C!CreateClaim, C!CreatePod, C!LookAtPod, C!ReadLog,
           C!JudgeFirst, C!Annotate, C!WaitMove,
           C!ReadKept, C!Delete, C!DeleteEnds, C!ReadState, C!Judge, C!driver, C!Looks
  <2>5. kept' \in BOOLEAN
    BY <2>3 DEF C!TypeOK, C!KeptRunning
  <2> QED BY <2>0, <2>1, <2>2, <2>4, <2>5 DEF C!TypeOK, C!Names
<1>5. /\ claimPc' \in {"claim", "written", "annotate", "wait", "kept", "delete", "state",
                       "judge",
                       "done", "create", "look", "log"}
      /\ claimResult' \in {"none", "pass", "fail", "skip", "infra"}
  BY DEF ClaimDriverStep, C!CreateClaim, C!CreatePod, C!LookAtPod, C!ReadLog, C!JudgeFirst,
         C!Annotate, C!WaitMove,
         C!ReadKept, C!Delete, C!DeleteEnds, C!ReadState, C!Judge, C!driver, C!Failure,
           C!UpFails, C!Goto, C!Return,
         C!TypeOK
<1> QED BY <1>0, <1>1, <1>2, <1>3, <1>4, <1>5 DEF C!TypeOK, Got

LEMMA ClaimTypesStay ==
  ASSUME ClaimFaults \in Nat, ClaimHarms \in Nat, C!TypeOK, [C!Next]_(C!vars)
  PROVE  C!TypeOK'
<1>1. CASE UNCHANGED C!vars
  BY <1>1 DEF C!vars, C!cluster, C!driver, C!TypeOK
<1> QED BY <1>1, ClaimClusterKeepsTypes, ClaimDriverKeepsTypes DEF C!Next, ClaimDriverStep

\* The driver is past the first pod: what it said has been read.
Written == claimPc \in {"written", "annotate", "wait", "kept", "delete"} \/ up = "second"

\* Whose turn it is.
Turns ==
  /\ claimPc \in {"claim", "written", "annotate", "wait", "kept", "delete"} => up = "first"
  /\ claimPc \in {"state", "judge"} => up = "second"
  /\ asked => claimPc \in {"wait", "kept", "delete", "done"} \/ up = "second"
  /\ claimPc \in {"annotate", "wait", "kept", "delete"} => got.said = "written"
  /\ claimPc = "log" \/ got.said # "none" => got.ready
  /\ claimResult = "pass" => claimPc = "done"

\* Each pod is made once, and says what it found when it is ready; the first has
\* said so before the move is asked for, unless it was killed.
PodsAreMadeOnce ==
  /\ \A n \in C!Names :
       /\ pods[n].phase = "pending" => pods[n].starts = 0
       /\ pods[n].phase \in {"starting", "ready", "gone"} => pods[n].starts >= 1
       /\ pods[n].said # "none" =>
            pods[n].phase \in {"ready", "gone", "none"} /\ pods[n].starts >= 1
  /\ pods["second"].phase # "gone"
  /\ pods["second"].phase = "none" => pods["second"].starts = 0
     /\ pods["second"].said = "none"
  /\ up = "first" \/ claimPc = "create" => pods["second"].phase = "none"
  /\ up = "first" /\ claimPc \in {"claim", "create"} =>
       pods["first"].phase = "none" /\ pods["first"].starts = 0
  /\ Written \/ asked =>
       \/ pods["first"].starts >= 2
       \/ pods["first"].starts = 1 /\ pods["first"].phase \in {"ready", "gone", "none"}

\* A pod that is up holds the claim where it is.
UpHolds ==
  /\ ~toNode /\ (up = "second" \/ claimPc \in {"kept", "delete"}) => claimMove = "complete"
  /\ toNode /\ C!Live("second") => claim.at = pods["second"].node
  /\ up = "second" /\ claimPc # "create" /\ got.ready =>
       C!Live("second") /\ got.node = pods["second"].node
  /\ claimLost => claimMove = "complete"
  /\ claimMove # "unanswered" => asked

NoKill == \A n \in C!Names : pods[n].starts <= 1

\* What was lost is not found again, unless a container is killed.
LossIsSaid ==
  NoKill =>
    /\ up = "second" /\ got.said = "found" => pods["second"].said = "found"
    /\ claimLost => \/ claim.holds = "damaged" /\ pods["second"].said # "found"
                    \/ claim.holds = "empty" /\ pods["second"].said = "none"
                    \/ claim.holds = "whole" /\ pods["second"].said = "written"

\* What was seen of the first pod's starts is not more than they were when the
\* move was asked for, nor are those more than they are.
StartsAreCounted ==
  /\ up = "first" => got.starts <= pods["first"].starts
  /\ claimPc \in {"wait", "kept"} => got.starts <= atRequest
     /\ atRequest <= pods["first"].starts

ClaimInv == C!TypeOK /\ Turns /\ PodsAreMadeOnce /\ UpHolds /\ LossIsSaid
  /\ StartsAreCounted

\* The cluster leaves the driver alone, and each of its steps is a pod's or the
\* mover's.
LEMMA ClaimClusterSteps ==
  ASSUME C!Cluster
  PROVE  /\ UNCHANGED <<C!driver, claimFaults>> /\ claimPc # "done"
         /\ \/ \E n \in C!Names : C!StartPod(n) \/ C!Say(n) \/ C!Kill(n) \/ C!RemovePod(n)
            \/ C!Answer \/ C!Synced \/ C!GiveUpMove
            \/ C!CutOver
  BY DEF C!Cluster

LEMMA TurnsInitially == C!Init => Turns
  BY DEF C!Init, Turns, C!NoLook

LEMMA TurnsStay ==
  ASSUME C!TypeOK, ClaimHarms \in Nat, Turns, [C!Next]_(C!vars)
  PROVE  Turns'
<1>1. CASE UNCHANGED C!vars
  BY <1>1 DEF C!vars, C!cluster, C!driver, Turns, Written
<1>2. CASE C!Cluster
  <2>1. UNCHANGED C!driver
    BY <1>2, ClaimClusterSteps
  <2>2. asked' = asked
    BY <1>2, PodStarts, PodSays, PodIsKilled, PodIsRemoved, MoverSays, MoverCutsOver
       DEF C!Cluster
  <2> QED BY <2>1, <2>2 DEF C!driver, Turns, Written
<1>3. CASE C!CreateClaim \/ C!CreatePod
  BY <1>3 DEF C!CreateClaim, C!CreatePod, C!Failure, C!UpFails, C!Goto, C!Return, C!Looks,
              C!cluster, C!NoLook,
              Turns, Written
<1>4. CASE C!LookAtPod
  <2>1. /\ got'.said = got.said /\ (got.ready => got'.ready)
           /\ (claimPc' = "log" => got'.ready)
        /\ UNCHANGED <<up, asked>>
    BY <1>4, GotStaysTyped DEF C!LookAtPod, Got, C!UpFails, C!Failure, C!Goto, C!Return,
                               C!Looks, C!cluster
  <2>2. /\ claimPc = "look" /\ claimPc' \in {"look", "log", "state", "done"}
        /\ claimPc' = "state" => up = "second"
        /\ claimResult' = "pass" => claimResult = "pass"
    BY <1>4 DEF C!LookAtPod, C!UpFails, C!Failure, C!Goto, C!Return
  <2> QED BY <2>1, <2>2 DEF Turns, Written
<1>5. CASE C!ReadLog
  <2>1. /\ got'.ready = got.ready /\ UNCHANGED <<up, asked>> /\ claimPc = "log"
        /\ claimResult' = "pass" => claimResult = "pass"
    BY <1>5, GotStaysTyped DEF C!ReadLog, Got, C!UpFails, C!Failure, C!Goto, C!Return,
                               C!Looks, C!cluster
  <2>2. /\ claimPc' \in {"look", "written", "state", "judge", "done"}
        /\ claimPc' = "written" => up = "first"
        /\ claimPc' \in {"state", "judge"} => up # "first"
    BY <1>5 DEF C!ReadLog, C!UpFails, C!Failure, C!Goto, C!Return
  <2>3. up \in {"first", "second"}
    BY DEF C!TypeOK, C!Names
  <2> QED BY <2>1, <2>2, <2>3 DEF Turns, Written
<1>6. CASE C!JudgeFirst \/ C!Annotate \/ C!WaitMove \/ C!ReadKept
  BY <1>6 DEF C!JudgeFirst, C!Annotate, C!WaitMove, C!ReadKept, C!Failure, C!Goto,
              C!Return, C!Looks, C!cluster,
              Turns, Written
<1>7. CASE C!Delete \/ C!DeleteEnds \/ C!ReadState \/ C!Judge
  BY <1>7 DEF C!Delete, C!DeleteEnds, C!ReadState, C!Judge, C!Failure, C!Goto, C!Return,
              C!Looks, C!cluster, C!driver,
              Turns, Written
<1> QED BY <1>1, <1>2, <1>3, <1>4, <1>5, <1>6, <1>7 DEF C!Next

LEMMA NamesAreTwo == "first" \in C!Names /\ "second" \in C!Names
  /\ \A n \in C!Names : n \in {"first", "second"}
  BY DEF C!Names

\* Where the pods are as they were, and the driver goes where it may.
LEMMA PodsStayMade ==
  ASSUME C!TypeOK, Turns, PodsAreMadeOnce, UNCHANGED <<pods, up>>,
         claimPc' = "create" => claimPc \in {"claim", "create"},
         claimPc' = "claim" => claimPc = "claim",
         asked' => asked \/ Written,
         claimPc' \in {"written", "annotate", "wait", "kept", "delete"} =>
           \/ Written
           \/ pods["first"].phase \in {"ready", "gone", "none"} /\ pods["first"].starts >= 1
  PROVE  PodsAreMadeOnce'
  BY DEF C!TypeOK, PodsAreMadeOnce, Written, C!Names, C!Pod, Turns

LEMMA MadeOnceStays ==
  ASSUME C!TypeOK, ClaimHarms \in Nat, Turns, PodsAreMadeOnce, [C!Next]_(C!vars)
  PROVE  PodsAreMadeOnce'
<1>. USE NamesAreTwo
<1>0. /\ pods \in [C!Names -> C!Pod] /\ up \in C!Names
      /\ \A n \in C!Names : /\ pods[n].starts \in Nat
                            /\ pods[n].phase \in {"none", "pending", "starting", "ready",
                                                  "gone"}
  BY DEF C!TypeOK, C!Pod
<1>1. CASE UNCHANGED C!vars
  BY <1>1 DEF C!vars, C!cluster, C!driver, PodsAreMadeOnce, Written
<1>2. ASSUME UNCHANGED C!driver, UNCHANGED <<asked, pods>> PROVE PodsAreMadeOnce'
  BY <1>2 DEF C!driver, PodsAreMadeOnce, Written
<1>3. CASE C!Cluster
  <2>0. UNCHANGED C!driver
    BY <1>3, ClaimClusterSteps
  <2>1. ASSUME NEW n \in C!Names, C!StartPod(n) PROVE PodsAreMadeOnce'
    BY <1>0, <2>0, <2>1, PodStarts DEF C!driver, PodsAreMadeOnce, Written, OnlyPod
  <2>2. ASSUME NEW n \in C!Names, C!Say(n) PROVE PodsAreMadeOnce'
    BY <1>0, <2>0, <2>2, PodSays DEF C!driver, PodsAreMadeOnce, Written, OnlyPod
  <2>3. ASSUME NEW n \in C!Names, C!Kill(n) PROVE PodsAreMadeOnce'
    BY <1>0, <2>0, <2>3, PodIsKilled DEF C!driver, PodsAreMadeOnce, Written, OnlyPod
  <2>4. ASSUME NEW n \in C!Names, C!RemovePod(n) PROVE PodsAreMadeOnce'
    BY <1>0, <2>0, <2>4, PodIsRemoved DEF C!driver, PodsAreMadeOnce, Written, OnlyPod
  <2>5. CASE C!Answer \/ C!Synced \/ C!GiveUpMove
    BY <1>2, <2>0, <2>5, MoverSays
  <2>6. CASE C!CutOver
    BY <1>2, <2>0, <2>6, MoverCutsOver
  <2> QED BY <1>3, <2>1, <2>2, <2>3, <2>4, <2>5, <2>6 DEF C!Cluster
<1>4. CASE C!CreatePod
  <2>1. /\ claimPc = "create" /\ claimPc' \in {"look", "state", "done"}
           /\ UNCHANGED <<up, asked>>
        /\ pods' = pods \/ pods' = [pods EXCEPT ![up].phase = "pending"]
    BY <1>4 DEF C!CreatePod, C!UpFails, C!Failure, C!Goto, C!Return
  <2>2. pods[up].phase = "none" /\ pods[up].starts = 0
    BY <1>0, <2>1 DEF PodsAreMadeOnce
  <2>3. asked => up = "second"
    BY <2>1 DEF Turns, Written
  <2>4. CASE pods' = pods
    BY <2>1, <2>4, PodsStayMade
  <2>5. CASE pods' = [pods EXCEPT ![up].phase = "pending"]
    <3>1. /\ OnlyPod(up) /\ pods'[up].phase = "pending" /\ pods'[up].starts = 0
          /\ pods'[up].said = pods[up].said
      BY <1>0, <2>2, <2>5, PodIsMade
    <3>2. pods[up].said = "none"
      BY <1>0, <2>2 DEF PodsAreMadeOnce
    <3> QED BY <1>0, <2>1, <2>2, <2>3, <3>1, <3>2 DEF PodsAreMadeOnce, Written, OnlyPod
  <2> QED BY <2>1, <2>4, <2>5
<1>5. CASE C!Delete
  <2>1. /\ pods' = [pods EXCEPT !["first"].phase = "gone"] /\ UNCHANGED <<C!driver, asked>>
        /\ claimPc = "delete" /\ pods["first"].phase \in {"starting", "ready"}
    BY <1>5 DEF C!Delete
  <2>2. /\ OnlyPod("first") /\ pods'["first"].phase = "gone"
        /\ pods'["first"].starts = pods["first"].starts
           /\ pods'["first"].said = pods["first"].said
    BY <2>1, PodIsMade
  <2> QED BY <1>0, <2>1, <2>2 DEF C!driver, PodsAreMadeOnce, Written, OnlyPod
<1>6. CASE C!DeleteEnds
  <2>1. /\ claimPc = "delete" /\ claimPc' \in {"create", "done"}
           /\ UNCHANGED <<pods, asked>>
        /\ up' \in {up, "second"} /\ (claimPc' = "create" => up' = "second")
    BY <1>6 DEF C!DeleteEnds, C!Goto, C!Return, C!cluster
  <2>2. up = "first"
    BY <2>1 DEF Turns
  <2> QED BY <1>0, <2>1, <2>2 DEF PodsAreMadeOnce, Written
<1>7. CASE C!CreateClaim \/ C!LookAtPod \/ C!JudgeFirst \/ C!Annotate \/ C!WaitMove
           \/ C!ReadKept \/ C!ReadState
           \/ C!Judge
  <2>1. /\ UNCHANGED <<pods, up>>
        /\ claimPc' = "create" => claimPc = "claim"
        /\ claimPc' # "claim"
        /\ asked' => asked \/ Written
        /\ claimPc' \in {"written", "annotate", "wait", "kept", "delete"} => Written
    BY <1>7 DEF C!CreateClaim, C!LookAtPod, C!JudgeFirst, C!Annotate, C!WaitMove,
                C!ReadKept, C!ReadState, C!Judge,
                C!Failure, C!UpFails, C!Goto, C!Return, C!Looks, C!cluster, Written
  <2> QED BY <2>1, PodsStayMade
<1>8. CASE C!ReadLog
  <2>1. /\ UNCHANGED <<pods, up, asked>> /\ claimPc = "log"
        /\ claimPc' \in {"look", "written", "state", "judge", "done"}
        /\ claimPc' = "written" => up = "first" /\ pods[up].said \in {"written", "found"}
    BY <1>8 DEF C!ReadLog, C!Failure, C!UpFails, C!Goto, C!Return, C!Looks, C!cluster
  <2>2. claimPc' = "written" =>
          pods["first"].phase \in {"ready", "gone", "none"} /\ pods["first"].starts >= 1
    BY <1>0, <2>1 DEF PodsAreMadeOnce
  <2> QED BY <2>1, <2>2, PodsStayMade
<1> QED BY <1>1, <1>3, <1>4, <1>5, <1>6, <1>7, <1>8 DEF C!Next

LEMMA UpHoldsStays ==
  ASSUME C!TypeOK, ClaimHarms \in Nat, Turns, PodsAreMadeOnce, UpHolds, [C!Next]_(C!vars)
  PROVE  UpHolds'
<1>. USE NamesAreTwo
<1>0. /\ pods \in [C!Names -> C!Pod] /\ up \in C!Names
      /\ \A n \in C!Names : pods[n].phase \in {"none", "pending", "starting", "ready",
                                               "gone"}
  BY DEF C!TypeOK, C!Pod
<1>1. CASE UNCHANGED C!vars
  BY <1>1 DEF C!vars, C!cluster, C!driver, UpHolds, C!Live
<1>2. CASE C!Cluster
  <2>0. UNCHANGED <<toNode, claimPc, up, got>>
    BY <1>2, ClaimClusterSteps DEF C!driver
  <2>1. ASSUME NEW n \in C!Names, C!StartPod(n) PROVE UpHolds'
    BY <1>0, <2>0, <2>1, PodStarts DEF UpHolds, C!Live, OnlyPod
  <2>2. ASSUME NEW n \in C!Names, C!Say(n) PROVE UpHolds'
    BY <1>0, <2>0, <2>2, PodSays DEF UpHolds, C!Live, OnlyPod
  <2>3. ASSUME NEW n \in C!Names, C!Kill(n) PROVE UpHolds'
    BY <1>0, <2>0, <2>3, PodIsKilled DEF UpHolds, C!Live, OnlyPod
  <2>4. ASSUME NEW n \in C!Names, C!RemovePod(n) PROVE UpHolds'
    BY <1>0, <2>0, <2>4, PodIsRemoved DEF UpHolds, C!Live, OnlyPod, PodsAreMadeOnce
  <2>5. CASE C!Answer \/ C!Synced \/ C!GiveUpMove
    BY <2>0, <2>5, MoverSays DEF UpHolds, C!Live
  <2>6. CASE C!CutOver
    BY <2>0, <2>6, MoverCutsOver DEF UpHolds, C!Live
  <2> QED BY <1>2, <2>1, <2>2, <2>3, <2>4, <2>5, <2>6 DEF C!Cluster
\* Of the driver's steps.
<1>3. ASSUME ClaimDriverStep
      PROVE  UNCHANGED <<claim, claimMove, claimHarms, claimLost, toNode>>
  BY <1>3, ClaimDriverLeaves
<1>4. CASE C!CreatePod
  <2>1. /\ claimPc = "create" /\ claimPc' \notin {"kept", "delete"} /\ got'.ready = FALSE
        /\ UNCHANGED <<up, asked>>
        /\ pods' = pods \/ pods' = [pods EXCEPT ![up].phase = "pending"]
    BY <1>4 DEF C!CreatePod, C!NoLook, C!UpFails, C!Failure, C!Goto, C!Return
  <2>2. ~C!Live("second")'
    <3>1. pods["second"].phase = "none"
      BY <2>1 DEF PodsAreMadeOnce
    <3>2. ASSUME pods' = [pods EXCEPT ![up].phase = "pending"]
          PROVE  OnlyPod(up) /\ pods'[up].phase = "pending"
      BY <1>0, <3>2, PodIsMade
    <3> QED BY <1>0, <2>1, <3>1, <3>2 DEF C!Live, OnlyPod
  <2> QED BY <1>3, <1>4, <2>1, <2>2 DEF UpHolds, ClaimDriverStep
<1>5. CASE C!Delete
  <2>1. /\ pods' = [pods EXCEPT !["first"].phase = "gone"] /\ UNCHANGED <<C!driver, asked>>
        /\ claimPc = "delete"
    BY <1>5 DEF C!Delete
  <2>2. OnlyPod("first") /\ pods'["second"] = pods["second"]
    BY <2>1, PodIsMade DEF OnlyPod
  <2> QED BY <1>3, <1>5, <2>1, <2>2 DEF UpHolds, C!Live, C!driver, ClaimDriverStep
<1>6. CASE C!DeleteEnds
  <2>1. /\ claimPc = "delete" /\ claimPc' \in {"create", "done"}
           /\ UNCHANGED <<pods, got, asked>>
        /\ up' \in {up, "second"} /\ (claimPc' = "create" \/ up' = up)
    BY <1>6 DEF C!DeleteEnds, C!Goto, C!Return, C!cluster
  <2>2. up = "first" /\ (~toNode => claimMove = "complete")
    BY <2>1 DEF Turns, UpHolds
  <2> QED BY <1>3, <1>6, <2>1, <2>2 DEF UpHolds, C!Live, ClaimDriverStep
<1>7. CASE C!LookAtPod
  <2>1. /\ UNCHANGED <<pods, up>> /\ claimPc = "look"
        /\ \/ got' = got
           \/ /\ got'.ready = (got.ready \/ pods[up].phase = "ready")
              /\ got'.node = pods[up].node
    BY <1>7, GotStaysTyped DEF C!LookAtPod, C!Looks, C!cluster, Got
  <2>2. claimPc' \notin {"kept", "delete"} /\ UNCHANGED asked
    BY <1>7 DEF C!LookAtPod, C!UpFails, C!Failure, C!Goto, C!Return, C!Looks, C!cluster
  <2>3. up = "second" /\ got'.ready => C!Live("second")' /\ got'.node = pods'["second"].node
    BY <1>0, <2>1 DEF UpHolds, C!Live
  <2> QED BY <1>3, <1>7, <2>1, <2>2, <2>3 DEF UpHolds, C!Live, ClaimDriverStep
<1>8. CASE C!ReadLog
  <2>1. /\ UNCHANGED <<pods, up, asked>> /\ claimPc = "log"
           /\ claimPc' \notin {"kept", "delete"}
        /\ got'.ready = got.ready /\ got'.node = got.node
    BY <1>8, GotStaysTyped DEF C!ReadLog, C!Looks, C!cluster, Got, C!UpFails, C!Failure,
                               C!Goto, C!Return
  <2> QED BY <1>3, <1>8, <2>1 DEF UpHolds, C!Live, ClaimDriverStep
<1>9. CASE C!CreateClaim \/ C!JudgeFirst \/ C!Annotate \/ C!WaitMove \/ C!ReadKept
           \/ C!ReadState \/ C!Judge
  <2>1. /\ UNCHANGED <<pods, up, got>> /\ claimPc # "create"
        /\ asked => asked' \/ claimPc = "annotate"
    BY <1>9 DEF C!CreateClaim, C!JudgeFirst, C!Annotate, C!WaitMove, C!ReadKept,
                C!ReadState, C!Judge,
                C!Looks, C!cluster
  <2>2. claimPc = "annotate" => ~asked
    BY DEF Turns
  <2>3. ~toNode /\ claimPc' \in {"kept", "delete"} => claimMove = "complete"
    <3>1. CASE C!WaitMove
      BY <3>1 DEF C!WaitMove, C!Wanted, C!Failure, C!Goto, C!Return
    <3>2. CASE C!ReadKept
      BY <3>2 DEF C!ReadKept, UpHolds
    <3>3. CASE C!CreateClaim \/ C!JudgeFirst \/ C!Annotate \/ C!ReadState \/ C!Judge
      BY <3>3 DEF C!CreateClaim, C!JudgeFirst, C!Annotate, C!ReadState, C!Judge, C!Failure,
                  C!Goto, C!Return
    <3> QED BY <1>9, <3>1, <3>2, <3>3
  <2>4. UNCHANGED <<claim, claimMove, claimLost, toNode>>
    BY <1>3, <1>9 DEF ClaimDriverStep
  <2>5. asked => asked'
    BY <2>1, <2>2
  <2>6. (claimLost => claimMove = "complete") /\ (claimMove # "unanswered" => asked)
    BY DEF UpHolds
  <2>8. /\ toNode' /\ C!Live("second")' => claim'.at = pods'["second"].node
        /\ up' = "second" /\ claimPc' # "create" /\ got'.ready =>
             C!Live("second")' /\ got'.node = pods'["second"].node
    BY <2>1, <2>4 DEF UpHolds, C!Live
  <2>9. ~toNode' /\ (up' = "second" \/ claimPc' \in {"kept", "delete"})
        => claimMove' = "complete"
    BY <2>1, <2>3, <2>4 DEF UpHolds
  <2> QED BY <2>4, <2>5, <2>6, <2>8, <2>9 DEF UpHolds
<1> QED BY <1>1, <1>2, <1>4, <1>5, <1>6, <1>7, <1>8, <1>9 DEF C!Next

LEMMA LossStaysSaid ==
  ASSUME C!TypeOK, ClaimHarms \in Nat, Turns, PodsAreMadeOnce, UpHolds, LossIsSaid,
         [C!Next]_(C!vars)
  PROVE  LossIsSaid'
<1>. USE NamesAreTwo
<1>0. /\ pods \in [C!Names -> C!Pod] /\ up \in C!Names
      /\ \A n \in C!Names : /\ pods[n].phase \in {"none", "pending", "starting", "ready",
                                                  "gone"}
                            /\ pods[n].starts \in Nat
  BY DEF C!TypeOK, C!Pod
<1>1. ASSUME UNCHANGED <<pods, up, got, claim, claimLost>> PROVE LossIsSaid'
  BY <1>1 DEF LossIsSaid, NoKill
<1>2. CASE C!Cluster
  <2>0. UNCHANGED <<toNode, claimPc, up, got>>
    BY <1>2, ClaimClusterSteps DEF C!driver
  <2>1. ASSUME NEW n \in C!Names, C!StartPod(n) PROVE LossIsSaid'
    <3>1. /\ \A m \in C!Names : pods'[m].said = pods[m].said
          /\ NoKill' => NoKill
      BY <1>0, <2>1, PodStarts DEF OnlyPod, NoKill, PodsAreMadeOnce
    <3> QED BY <2>0, <2>1, <3>1, PodStarts DEF LossIsSaid
  <2>2. ASSUME NEW n \in C!Names, C!Say(n) PROVE LossIsSaid'
    <3>1. NoKill' => NoKill
      BY <1>0, <2>2, PodSays DEF OnlyPod, NoKill
    <3>2. claimLost' = claimLost /\ pods[n].said = "none"
      BY <1>0, <2>2, PodSays DEF PodsAreMadeOnce
    <3>3. CASE n = "first"
      <4>1. claimLost => asked
        BY DEF UpHolds
      <4>2. claimLost => ~NoKill
        <5>1. pods["first"].phase = "starting" /\ pods["first"].starts \in Nat
          BY <1>0, <2>2, <3>3, PodSays
        <5>2. asked => pods["first"].starts >= 2
          BY <5>1 DEF PodsAreMadeOnce
        <5>3. NoKill => pods["first"].starts <= 1
          BY DEF NoKill
        <5> QED BY <4>1, <5>1, <5>2, <5>3
      <4> QED BY <1>0, <2>0, <2>2, <3>1, <3>2, <3>3, <4>2, PodSays DEF LossIsSaid, OnlyPod
    <3>4. CASE n = "second"
      BY <1>0, <2>0, <2>2, <3>1, <3>2, <3>4, PodSays DEF LossIsSaid
    <3> QED BY <3>3, <3>4, NamesAreTwo
  <2>3. ASSUME NEW n \in C!Names, C!Kill(n) PROVE LossIsSaid'
    <3>1. ~NoKill'
      BY <1>0, <2>3, PodIsKilled DEF NoKill, PodsAreMadeOnce
    <3> QED BY <3>1 DEF LossIsSaid
  <2>4. ASSUME NEW n \in C!Names, C!RemovePod(n) PROVE LossIsSaid'
    <3>1. \A m \in C!Names : pods'[m].said = pods[m].said
          /\ pods'[m].starts = pods[m].starts
      BY <2>4, PodIsRemoved DEF OnlyPod
    <3> QED BY <2>0, <2>4, <3>1, PodIsRemoved DEF LossIsSaid, NoKill
  <2>5. CASE C!Answer \/ C!Synced \/ C!GiveUpMove
    BY <1>1, <2>0, <2>5, MoverSays
  <2>6. CASE C!CutOver
    <3>1. UNCHANGED pods /\ ~claimLost
      BY <2>6, MoverCutsOver DEF UpHolds
    <3>2. pods["second"].said = "none"
      <4>1. CASE toNode
        BY <1>0, <2>6, <4>1, MoverCutsOver DEF PodsAreMadeOnce
      <4>2. CASE ~toNode
        <5>1. up = "first"
          BY <1>0, <2>6, <4>2, MoverCutsOver DEF UpHolds
        <5> QED BY <1>0, <5>1 DEF PodsAreMadeOnce
      <4> QED BY <4>1, <4>2
    <3> QED BY <2>0, <2>6, <3>1, <3>2, MoverCutsOver DEF LossIsSaid, NoKill
  <2> QED BY <1>2, <2>1, <2>2, <2>3, <2>4, <2>5, <2>6 DEF C!Cluster
<1>3. ASSUME ClaimDriverStep
      PROVE  UNCHANGED <<claim, claimMove, claimHarms, claimLost, toNode>>
  BY <1>3, ClaimDriverLeaves
<1>4. CASE C!CreatePod
  <2>1. /\ claimPc = "create" /\ got'.said = "none" /\ up' = up
        /\ pods' = pods \/ pods' = [pods EXCEPT ![up].phase = "pending"]
    BY <1>4 DEF C!CreatePod, C!NoLook
  <2>2. \A n \in C!Names : pods'[n].said = pods[n].said /\ pods'[n].starts = pods[n].starts
    <3>1. ASSUME pods' = [pods EXCEPT ![up].phase = "pending"]
          PROVE  /\ OnlyPod(up) /\ pods'[up].said = pods[up].said
                 /\ pods'[up].starts = pods[up].starts
      BY <1>0, <3>1, PodIsMade
    <3> QED BY <2>1, <3>1 DEF OnlyPod
  <2> QED BY <1>3, <1>4, <2>1, <2>2 DEF LossIsSaid, NoKill, ClaimDriverStep
<1>5. CASE C!Delete
  <2>1. /\ pods' = [pods EXCEPT !["first"].phase = "gone"] /\ UNCHANGED C!driver
    BY <1>5 DEF C!Delete
  <2>2. \A n \in C!Names : pods'[n].said = pods[n].said /\ pods'[n].starts = pods[n].starts
    BY <2>1, PodIsMade DEF OnlyPod
  <2> QED BY <1>3, <1>5, <2>1, <2>2 DEF LossIsSaid, NoKill, C!driver, ClaimDriverStep
<1>6. CASE C!DeleteEnds
  <2>1. /\ claimPc = "delete" /\ UNCHANGED <<pods, got>>
    BY <1>6 DEF C!DeleteEnds, C!cluster
  <2>2. got.said = "written"
    BY <2>1 DEF Turns
  <2> QED BY <1>3, <1>6, <2>1, <2>2 DEF LossIsSaid, NoKill, ClaimDriverStep
<1>7. CASE C!LookAtPod
  <2>1. UNCHANGED <<pods, up>> /\ got'.said = got.said
    BY <1>7, GotStaysTyped DEF C!LookAtPod, C!Looks, C!cluster, Got
  <2> QED BY <1>3, <1>7, <2>1 DEF LossIsSaid, NoKill, ClaimDriverStep
<1>8. CASE C!ReadLog
  <2>1. /\ UNCHANGED <<pods, up>>
        /\ got'.said = got.said \/ got'.said = pods[up].said
    BY <1>8, GotStaysTyped DEF C!ReadLog, C!Looks, C!cluster, Got
  <2> QED BY <1>3, <1>8, <2>1 DEF LossIsSaid, NoKill, ClaimDriverStep
<1>9. CASE C!CreateClaim \/ C!JudgeFirst \/ C!Annotate \/ C!WaitMove \/ C!ReadKept
           \/ C!ReadState \/ C!Judge
  <2>1. UNCHANGED <<pods, up, got>>
    BY <1>9 DEF C!CreateClaim, C!JudgeFirst, C!Annotate, C!WaitMove, C!ReadKept,
                C!ReadState, C!Judge,
                C!Looks, C!cluster
  <2> QED BY <1>1, <1>3, <1>9, <2>1 DEF ClaimDriverStep
<1>10. CASE UNCHANGED C!vars
  BY <1>1, <1>10 DEF C!vars, C!cluster, C!driver
<1> QED BY <1>2, <1>4, <1>5, <1>6, <1>7, <1>8, <1>9, <1>10 DEF C!Next

LEMMA StartsStayCounted ==
  ASSUME C!TypeOK, ClaimHarms \in Nat, Turns, PodsAreMadeOnce, StartsAreCounted,
         [C!Next]_(C!vars)
  PROVE  StartsAreCounted'
<1>. USE NamesAreTwo
<1>0. /\ pods \in [C!Names -> C!Pod] /\ up \in C!Names
      /\ \A n \in C!Names : pods[n].starts \in Nat
      /\ got.starts \in Nat /\ atRequest \in Nat
  BY DEF C!TypeOK, C!Pod
<1>1. ASSUME UNCHANGED C!driver, pods'["first"].starts \in Nat,
             pods'["first"].starts >= pods["first"].starts
      PROVE  StartsAreCounted'
  BY <1>0, <1>1 DEF C!driver, StartsAreCounted
<1>2. CASE C!Cluster
  <2>0. UNCHANGED C!driver
    BY <1>2, ClaimClusterSteps
  <2>1. ASSUME NEW n \in C!Names, C!StartPod(n) PROVE StartsAreCounted'
    BY <1>0, <1>1, <2>0, <2>1, PodStarts DEF OnlyPod, PodsAreMadeOnce
  <2>2. ASSUME NEW n \in C!Names, C!Say(n) PROVE StartsAreCounted'
    BY <1>0, <1>1, <2>0, <2>2, PodSays DEF OnlyPod
  <2>3. ASSUME NEW n \in C!Names, C!Kill(n) PROVE StartsAreCounted'
    BY <1>0, <1>1, <2>0, <2>3, PodIsKilled DEF OnlyPod
  <2>4. ASSUME NEW n \in C!Names, C!RemovePod(n) PROVE StartsAreCounted'
    BY <1>0, <1>1, <2>0, <2>4, PodIsRemoved DEF OnlyPod
  <2>5. CASE C!Answer \/ C!Synced \/ C!GiveUpMove
    BY <1>0, <1>1, <2>0, <2>5, MoverSays
  <2>6. CASE C!CutOver
    BY <1>0, <1>1, <2>0, <2>6, MoverCutsOver
  <2> QED BY <1>2, <2>1, <2>2, <2>3, <2>4, <2>5, <2>6 DEF C!Cluster
<1>3. CASE C!CreatePod
  <2>1. /\ claimPc = "create" /\ got'.starts = 0 /\ up' = up
           /\ claimPc' \notin {"wait", "kept"}
        /\ pods' = pods \/ pods' = [pods EXCEPT ![up].phase = "pending"]
    BY <1>3 DEF C!CreatePod, C!NoLook, C!UpFails, C!Failure, C!Goto, C!Return
  <2>2. pods'["first"].starts = pods["first"].starts
    BY <1>0, <2>1, PodIsMade DEF OnlyPod
  <2> QED BY <1>0, <2>1, <2>2 DEF StartsAreCounted
<1>4. CASE C!Delete
  <2>1. /\ pods' = [pods EXCEPT !["first"].phase = "gone"] /\ UNCHANGED C!driver
    BY <1>4 DEF C!Delete
  <2> QED BY <1>0, <1>1, <2>1, PodIsMade
<1>5. CASE C!LookAtPod
  <2>1. /\ UNCHANGED <<pods, up>> /\ claimPc' \notin {"wait", "kept"}
        /\ got'.starts = got.starts \/ got'.starts = pods[up].starts
    BY <1>5, GotStaysTyped DEF C!LookAtPod, C!Looks, C!cluster, Got, C!UpFails, C!Failure,
                               C!Goto, C!Return
  <2> QED BY <1>0, <2>1 DEF StartsAreCounted
<1>6. CASE C!ReadLog
  <2>1. UNCHANGED <<pods, up>> /\ claimPc' \notin {"wait", "kept"}
        /\ got'.starts = got.starts
    BY <1>6, GotStaysTyped DEF C!ReadLog, C!Looks, C!cluster, Got, C!UpFails, C!Failure,
                               C!Goto, C!Return
  <2> QED BY <1>0, <2>1 DEF StartsAreCounted
<1>7. CASE C!Annotate
  <2>1. UNCHANGED <<pods, up, got>> /\ claimPc = "annotate"
        /\ atRequest' = pods["first"].starts
    BY <1>7 DEF C!Annotate
  <2> QED BY <1>0, <2>1 DEF StartsAreCounted, Turns
<1>8. CASE C!CreateClaim \/ C!JudgeFirst \/ C!WaitMove \/ C!ReadKept \/ C!ReadState
           \/ C!Judge \/ C!DeleteEnds
  <2>1. /\ UNCHANGED <<pods, got, atRequest>> /\ up' \in {up, "second"}
        /\ claimPc' \in {"wait", "kept"} => claimPc = "wait"
    BY <1>8 DEF C!CreateClaim, C!JudgeFirst, C!WaitMove, C!ReadKept, C!ReadState, C!Judge,
                C!DeleteEnds,
                C!Looks, C!cluster, C!Failure, C!Goto, C!Return
  <2> QED BY <1>0, <2>1 DEF StartsAreCounted
<1>9. CASE UNCHANGED C!vars
  BY <1>0, <1>1, <1>9 DEF C!vars, C!cluster
<1> QED BY <1>2, <1>3, <1>4, <1>5, <1>6, <1>7, <1>8, <1>9 DEF C!Next

LEMMA PassStaysProof ==
  ASSUME C!TypeOK, Turns, UpHolds, LossIsSaid, C!PassIsProof, [C!Next]_(C!vars)
  PROVE  C!PassIsProof'
<1>1. CASE UNCHANGED C!vars
  BY <1>1 DEF C!vars, C!cluster, C!driver, C!PassIsProof
<1>2. CASE C!Judge
  <2>1. /\ claimPc = "judge" /\ claimResult' = (IF C!Passed THEN "pass" ELSE "fail")
        /\ UNCHANGED <<pods, claimLost, toNode, claim>>
    BY <1>2 DEF C!Judge, C!Return, C!Looks, C!cluster
  <2>2. ASSUME C!Passed, \A n \in C!Names : pods[n].starts = 1
        PROVE  ~claimLost /\ (toNode => claim.at = C!Target)
    <3>1. NoKill
      BY <2>2 DEF NoKill
    <3>2. up = "second" /\ got.said = "found" /\ got.ready
      BY <2>1, <2>2 DEF Turns, C!Passed
    <3>3. ~claimLost
      BY <3>1, <3>2 DEF LossIsSaid
    <3>4. toNode => claim.at = C!Target
      BY <2>1, <2>2, <3>2 DEF UpHolds, C!Passed
    <3> QED BY <3>3, <3>4
  <2> QED BY <2>1, <2>2 DEF C!PassIsProof
<1>3. CASE C!Next /\ ~C!Judge
  <2>1. claimPc # "done"
    BY <1>3 DEF C!Next, C!Cluster, C!CreateClaim, C!CreatePod, C!LookAtPod, C!ReadLog,
                C!JudgeFirst, C!Annotate,
                C!WaitMove, C!ReadKept, C!Delete, C!DeleteEnds, C!ReadState
  <2>2. claimResult # "pass"
    BY <2>1 DEF Turns
  <2>3. claimResult' # "pass"
    BY <1>3, <2>2 DEF C!Next, C!Cluster, C!CreateClaim, C!CreatePod, C!LookAtPod,
                      C!ReadLog, C!JudgeFirst,
                C!Annotate, C!WaitMove, C!ReadKept, C!Delete, C!DeleteEnds, C!ReadState,
                  C!Failure, C!UpFails,
                C!Goto, C!Return, C!driver
  <2> QED BY <2>3 DEF C!PassIsProof
<1> QED BY <1>1, <1>2, <1>3

ClaimProof == ClaimInv /\ C!PassIsProof

LEMMA ClaimInitially ==
  ASSUME ClaimFaults \in Nat, ClaimHarms \in Nat, C!Init
  PROVE  ClaimProof
<1>1. C!TypeOK
  <2>1. pods \in [C!Names -> C!Pod] /\ got \in Got
    BY DEF C!Init, C!Pod, C!Nodes, C!Contents, C!NoLook, Got
  <2>2. claimFaults \in 0..ClaimFaults /\ claimHarms \in 0..ClaimHarms
    BY DEF C!Init
  <2>3. /\ claim \in [ at : C!Nodes, holds : C!Contents ] /\ claimMove \in C!Moves
           /\ asked \in BOOLEAN
        /\ toNode \in BOOLEAN /\ bytes \in C!Contents /\ kept \in BOOLEAN
           /\ claimLost \in BOOLEAN
    BY DEF C!Init, C!Nodes, C!Contents, C!Moves
  <2>4. /\ claimPc = "claim" /\ up \in C!Names /\ claimResult = "none" /\ atRequest \in Nat
    BY DEF C!Init, C!Names
  <2> QED BY <2>1, <2>2, <2>3, <2>4 DEF C!TypeOK, Got
<1>2. Turns
  BY TurnsInitially
<1>3. PodsAreMadeOnce /\ UpHolds /\ LossIsSaid /\ StartsAreCounted /\ C!PassIsProof
  <2>1. /\ \A n \in C!Names : /\ pods[n].phase = "none" /\ pods[n].starts = 0
                            /\ pods[n].said = "none"
        /\ asked = FALSE /\ claimMove = "unanswered" /\ claimLost = FALSE
           /\ claimPc = "claim" /\ up = "first"
        /\ got.starts = 0 /\ claimResult = "none"
    BY DEF C!Init, C!NoLook
  <2> QED BY <2>1, NamesAreTwo DEF PodsAreMadeOnce, UpHolds, LossIsSaid, StartsAreCounted,
             C!PassIsProof, Written, C!Live
<1> QED BY <1>1, <1>2, <1>3 DEF ClaimProof, ClaimInv

LEMMA ClaimSteps ==
  ASSUME ClaimFaults \in Nat, ClaimHarms \in Nat, ClaimProof, [C!Next]_(C!vars)
  PROVE  ClaimProof'
BY ClaimTypesStay, TurnsStay, MadeOnceStays, UpHoldsStays, LossStaysSaid, StartsStayCounted,
   PassStaysProof DEF ClaimProof, ClaimInv

LEMMA KeptIsSeen ==
  ASSUME ClaimInv, [C!Next]_(C!vars)
  PROVE  kept' => kept \/ pods["first"].starts = atRequest
<1>1. CASE C!ReadKept
  <2>1. claimPc = "kept" /\ (kept' = kept \/ kept' = C!KeptRunning)
    BY <1>1 DEF C!ReadKept
  <2>2. claimPc = "kept" => up = "first"
    BY DEF ClaimInv, Turns
  <2>3. got.starts \in Nat /\ atRequest \in Nat /\ pods["first"].starts \in Nat
    BY NamesAreTwo DEF ClaimInv, C!TypeOK, C!Pod
  <2>4. got.starts <= atRequest /\ atRequest <= pods["first"].starts
    BY <2>1 DEF ClaimInv, StartsAreCounted
  <2>5. C!KeptRunning => pods["first"].starts = got.starts
    BY DEF C!KeptRunning
  <2>6. C!KeptRunning => pods["first"].starts = atRequest
    BY <2>3, <2>4, <2>5
  <2> QED BY <2>1, <2>6
<1>2. CASE ~C!ReadKept
  <2>1. kept' = kept
    BY <1>2 DEF C!Next, C!Cluster, C!CreateClaim, C!CreatePod, C!LookAtPod, C!ReadLog,
                C!JudgeFirst, C!Annotate,
                C!WaitMove, C!Delete, C!DeleteEnds, C!ReadState, C!Judge, C!vars, C!driver
  <2> QED BY <2>1
<1> QED BY <1>1, <1>2

-----------------------------------------------------------------------------
(* What the steps do to the VMI and its disk *)

Phases == {"none", "pending", "running"}

Files == {"none", "whole", "damaged"}

\* A VMI or a disk, of which something is changed.
LEMMA VmisStayVmis ==
  ASSUME NEW v \in V!Vmi
  PROVE  /\ v.gen \in Nat /\ v.phase \in Phases /\ v.node \in V!Nodes /\ v.boot \in Nat
         /\ v.gen + 1 \in Nat /\ v.boot + 1 \in Nat
         /\ \A g \in Nat, p \in Phases, n \in V!Nodes :
              [v EXCEPT !.gen = g, !.phase = p, !.node = n] \in V!Vmi
         /\ \A b \in Nat, p \in Phases : [v EXCEPT !.phase = p, !.boot = b] \in V!Vmi
         /\ \A p \in Phases : [v EXCEPT !.phase = p] \in V!Vmi
         /\ \A b \in Nat : [v EXCEPT !.boot = b] \in V!Vmi
         /\ \A n \in V!Nodes : [v EXCEPT !.node = n] \in V!Vmi
         /\ \A g \in Nat, n \in V!Nodes, b \in Nat :
              [v EXCEPT !.node = n, !.gen = g, !.boot = b] \in V!Vmi
<1>1. v.gen \in Nat /\ v.phase \in Phases /\ v.node \in V!Nodes /\ v.boot \in Nat
  BY DEF V!Vmi, Phases
<1>2. v.gen + 1 \in Nat /\ v.boot + 1 \in Nat
  BY <1>1
<1>3. \A g \in Nat, p \in Phases, n \in V!Nodes :
        [v EXCEPT !.gen = g, !.phase = p, !.node = n] \in V!Vmi
  BY DEF V!Vmi, Phases
<1>4. \A b \in Nat, p \in Phases : [v EXCEPT !.phase = p, !.boot = b] \in V!Vmi
  BY DEF V!Vmi, Phases
<1>5. \A p \in Phases : [v EXCEPT !.phase = p] \in V!Vmi
  BY DEF V!Vmi, Phases
<1>6. \A b \in Nat : [v EXCEPT !.boot = b] \in V!Vmi
  BY DEF V!Vmi
<1>7. \A n \in V!Nodes : [v EXCEPT !.node = n] \in V!Vmi
  BY DEF V!Vmi
<1>8. \A g \in Nat, n \in V!Nodes,
      b \in Nat : [v EXCEPT !.node = n, !.gen = g, !.boot = b] \in V!Vmi
  BY DEF V!Vmi
<1> QED BY <1>1, <1>2, <1>3, <1>4, <1>5, <1>6, <1>7, <1>8

LEMMA DisksStayDisks ==
  ASSUME NEW d \in V!Disk
  PROVE  /\ d.at \in V!Nodes /\ d.file \in Files /\ d.rounds \in 0..Rounds
            /\ d.bad \in BOOLEAN
         /\ \A n \in V!Nodes, f \in Files : [d EXCEPT !.at = n, !.file = f] \in V!Disk
         /\ \A n \in V!Nodes : [d EXCEPT !.at = n] \in V!Disk
         /\ \A f \in Files : [d EXCEPT !.file = f] \in V!Disk
         /\ \A k \in 0..Rounds : /\ [d EXCEPT !.rounds = k] \in V!Disk
                                 /\ [d EXCEPT !.rounds = k, !.bad = TRUE] \in V!Disk
<1>1. d.at \in V!Nodes /\ d.file \in Files /\ d.rounds \in 0..Rounds /\ d.bad \in BOOLEAN
  BY DEF V!Disk, Files
<1>2. \A n \in V!Nodes, f \in Files : [d EXCEPT !.at = n, !.file = f] \in V!Disk
  BY DEF V!Disk, Files
<1>3. \A n \in V!Nodes : [d EXCEPT !.at = n] \in V!Disk
  BY DEF V!Disk
<1>4. \A f \in Files : [d EXCEPT !.file = f] \in V!Disk
  BY DEF V!Disk, Files
<1>5. \A k \in 0..Rounds : /\ [d EXCEPT !.rounds = k] \in V!Disk
                           /\ [d EXCEPT !.rounds = k, !.bad = TRUE] \in V!Disk
  BY DEF V!Disk
<1> QED BY <1>1, <1>2, <1>3, <1>4, <1>5

LEMMA VmiIsMade ==
  ASSUME V!TypeOK, V!MakeVmi
  PROVE  /\ vmi' \in V!Vmi /\ vmi.phase = "none" /\ vmi'.phase = "pending"
            /\ vmi'.gen = vmi.gen + 1
         /\ vmi'.node = disk.at /\ vmi'.boot = vmi.boot /\ since' = since \cup {"new"}
         /\ UNCHANGED <<runs, disk, loop, vmMove, vmHarms>>
<1>. DEFINE q == [vmi EXCEPT !.gen = vmi.gen + 1, !.phase = "pending", !.node = disk.at]
<1>1. vmi \in V!Vmi /\ disk.at \in V!Nodes
  BY DisksStayDisks DEF V!TypeOK
<1>2. /\ vmi' = q /\ vmi.phase = "none" /\ since' = since \cup {"new"}
      /\ UNCHANGED <<runs, disk, loop, vmMove, vmHarms>>
  BY DEF V!MakeVmi, V!Happens
<1>3. q \in V!Vmi
  BY <1>1, VmisStayVmis DEF Phases
<1>4. q.phase = "pending" /\ q.gen = vmi.gen + 1 /\ q.node = disk.at /\ q.boot = vmi.boot
  BY <1>1 DEF V!Vmi
<1>. HIDE DEF q
<1> QED BY <1>2, <1>3, <1>4

LEMMA VmiBoots ==
  ASSUME V!TypeOK, V!BootVmi
  PROVE  /\ vmi' \in V!Vmi /\ vmi.phase = "pending" /\ vmi'.phase = "running"
         /\ vmi'.gen = vmi.gen /\ vmi'.node = vmi.node /\ vmi'.boot = vmi.boot + 1
         /\ UNCHANGED <<runs, disk, loop, vmMove, vmHarms, since>>
<1>. DEFINE q == [vmi EXCEPT !.phase = "running", !.boot = vmi.boot + 1]
<1>1. vmi \in V!Vmi
  BY DEF V!TypeOK
<1>2. vmi' = q /\ vmi.phase = "pending"
      /\ UNCHANGED <<runs, disk, loop, vmMove, vmHarms, since>>
  BY DEF V!BootVmi
<1>3. q \in V!Vmi
  BY <1>1, VmisStayVmis DEF Phases
<1>4. q.phase = "running" /\ q.gen = vmi.gen /\ q.node = vmi.node /\ q.boot = vmi.boot + 1
  BY <1>1 DEF V!Vmi
<1>. HIDE DEF q
<1> QED BY <1>2, <1>3, <1>4

LEMMA VmiStops ==
  ASSUME V!TypeOK, VmHarms \in Nat, V!StopVmi
  PROVE  /\ vmi' \in V!Vmi /\ vmi'.phase = "none" /\ vmi'.gen = vmi.gen
            /\ vmi'.node = vmi.node
         /\ vmi'.boot = vmi.boot /\ loop' = FALSE /\ vmHarms' \in 0..VmHarms
         /\ UNCHANGED <<runs, disk, vmMove, since>>
<1>. DEFINE q == [vmi EXCEPT !.phase = "none"]
<1>1. vmi \in V!Vmi /\ vmHarms \in 0..VmHarms
  BY DEF V!TypeOK
<1>2. vmi' = q /\ loop' = FALSE /\ UNCHANGED <<runs, disk, vmMove, since>>
  BY DEF V!StopVmi
<1>3. q \in V!Vmi
  BY <1>1, VmisStayVmis DEF Phases
<1>4. q.phase = "none" /\ q.gen = vmi.gen /\ q.node = vmi.node /\ q.boot = vmi.boot
  BY <1>1 DEF V!Vmi
<1>5. vmHarms' \in 0..VmHarms
  BY <1>1 DEF V!StopVmi, V!Harm
<1>. HIDE DEF q
<1> QED BY <1>2, <1>3, <1>4, <1>5

LEMMA VmiReboots ==
  ASSUME V!TypeOK, VmHarms \in Nat, V!Reboot
  PROVE  /\ vmi' \in V!Vmi /\ vmi.phase = "running" /\ vmi'.phase = "running"
         /\ vmi'.gen = vmi.gen /\ vmi'.node = vmi.node
         /\ vmi'.boot = vmi.boot + 1 /\ loop' = FALSE /\ vmHarms' \in 0..VmHarms
         /\ since' = since \cup {"reboot"} /\ UNCHANGED <<runs, disk, vmMove>>
<1>. DEFINE q == [vmi EXCEPT !.boot = vmi.boot + 1]
<1>1. vmi \in V!Vmi /\ vmHarms \in 0..VmHarms
  BY DEF V!TypeOK
<1>2. /\ vmi' = q /\ vmi.phase = "running" /\ loop' = FALSE
         /\ UNCHANGED <<runs, disk, vmMove>>
      /\ since' = since \cup {"reboot"}
  BY DEF V!Reboot, V!Running, V!Happens
<1>3. q \in V!Vmi
  BY <1>1, VmisStayVmis
<1>4. q.phase = vmi.phase /\ q.gen = vmi.gen /\ q.node = vmi.node /\ q.boot = vmi.boot + 1
  BY <1>1 DEF V!Vmi
<1>5. vmHarms' \in 0..VmHarms
  BY <1>1 DEF V!Reboot, V!Harm
<1>. HIDE DEF q
<1> QED BY <1>2, <1>3, <1>4, <1>5

LEMMA RoundEnds ==
  ASSUME V!TypeOK, VmHarms \in Nat, Rounds \in Nat, V!Round
  PROVE  /\ disk' \in V!Disk /\ disk'.at = disk.at /\ disk'.file = disk.file
            /\ vmHarms' \in 0..VmHarms
         /\ \/ disk'.bad = disk.bad /\ since' = since
            \/ disk'.bad = TRUE /\ since' = since \cup {"mismatch"}
         /\ UNCHANGED <<runs, vmi, loop, vmMove>>
<1>. DEFINE q == [disk EXCEPT !.rounds = disk.rounds + 1]
            r == [disk EXCEPT !.rounds = disk.rounds + 1, !.bad = TRUE]
<1>1. disk \in V!Disk /\ vmHarms \in 0..VmHarms
  BY DEF V!TypeOK
<1>2. UNCHANGED <<runs, vmi, loop, vmMove>> /\ disk.rounds < Rounds
  BY DEF V!Round
<1>3. disk.rounds + 1 \in 0..Rounds
  <2>1. disk.rounds \in 0..Rounds /\ disk.rounds < Rounds
    BY <1>1, <1>2, DisksStayDisks
  <2> QED BY <2>1
<1>4. q \in V!Disk /\ r \in V!Disk
  BY <1>1, <1>3, DisksStayDisks
<1>5. /\ q.at = disk.at /\ q.file = disk.file /\ q.bad = disk.bad
      /\ r.at = disk.at /\ r.file = disk.file /\ r.bad = TRUE
  BY <1>1 DEF V!Disk
<1>6. \/ disk' = q /\ since' = since
      \/ disk' = r /\ since' = since \cup {"mismatch"}
  BY DEF V!Round, V!Happens
<1>7. vmHarms' \in 0..VmHarms
  BY <1>1 DEF V!Round, V!Harm
<1>. HIDE DEF q, r
<1> QED BY <1>2, <1>4, <1>5, <1>6, <1>7

LEMMA VmMoves ==
  ASSUME V!Answer \/ V!MoveFails
  PROVE  /\ UNCHANGED <<runs, vmi, disk, loop, vmHarms, since>>
         /\ vmMove \in {"asked", "progress"} /\ vmMove' \in {"progress", "failed", "unset"}
  BY DEF V!Answer, V!MoveFails

LEMMA Migrates ==
  ASSUME V!TypeOK, VmHarms \in Nat, V!Migrate
  PROVE  /\ vmi' \in V!Vmi /\ disk' \in V!Disk /\ vmHarms' \in 0..VmHarms
            /\ loop' \in BOOLEAN
         /\ test = "live" /\ vmMove = "progress" /\ vmMove' = "done"
            /\ vmi.phase = "running"
         /\ vmi'.phase = "running" /\ disk'.at = vmi'.node
         /\ disk'.file = disk.file /\ disk'.bad = disk.bad /\ runs' = runs
         /\ \/ /\ vmi'.gen = vmi.gen /\ vmi'.boot = vmi.boot
               /\ since' = since \cup {"live"}
            \/ UNCHANGED <<vmi, since>>
            \/ /\ vmi'.gen = vmi.gen + 1 /\ vmi'.boot = vmi.boot + 1
               /\ since' = since \cup {"new"}
<1>1. vmi \in V!Vmi /\ disk \in V!Disk /\ vmHarms \in 0..VmHarms /\ loop \in BOOLEAN
  BY DEF V!TypeOK
<1>2. /\ test = "live" /\ vmMove = "progress" /\ vmMove' = "done" /\ vmi.phase = "running"
      /\ runs' = runs /\ disk' = [disk EXCEPT !.at = vmi'.node]
  BY DEF V!Migrate, V!Running
<1>3. vmHarms' \in 0..VmHarms /\ loop' \in BOOLEAN
  <2>1. vmHarms' \in 0..VmHarms
    <3>1. UNCHANGED vmHarms \/ V!Harm
      BY DEF V!Migrate
    <3> QED BY <1>1, <3>1 DEF V!Harm
  <2>2. loop' = loop \/ loop' = FALSE
    BY DEF V!Migrate
  <2> QED BY <1>1, <2>1, <2>2
<1>4. \A n \in V!Nodes :
        LET v == [vmi EXCEPT !.node = n]
            w == [vmi EXCEPT !.node = n, !.gen = vmi.gen + 1, !.boot = vmi.boot + 1]
        IN  /\ v \in V!Vmi /\ v.phase = vmi.phase /\ v.gen = vmi.gen /\ v.boot = vmi.boot
            /\ w \in V!Vmi /\ w.phase = vmi.phase
            /\ w.gen = vmi.gen + 1 /\ w.boot = vmi.boot + 1
  <2>. TAKE n \in V!Nodes
  <2>1. [vmi EXCEPT !.node = n] \in V!Vmi
    BY <1>1, VmisStayVmis
  <2>2. [vmi EXCEPT !.node = n, !.gen = vmi.gen + 1, !.boot = vmi.boot + 1] \in V!Vmi
    BY <1>1, VmisStayVmis
  <2> QED BY <1>1, <2>1, <2>2 DEF V!Vmi
<1>5. \/ (\E n \in V!Nodes : vmi' = [vmi EXCEPT !.node = n]) /\ since' = since \cup {"live"}
      \/ UNCHANGED <<vmi, since>>
      \/ /\ since' = since \cup {"new"}
         /\ \E n \in V!Nodes : vmi' = [vmi EXCEPT !.node = n, !.gen = vmi.gen + 1,
                                                  !.boot = vmi.boot + 1]
  BY DEF V!Migrate, V!Happens, V!Elsewhere
<1>6. /\ vmi' \in V!Vmi /\ vmi'.phase = "running"
      /\ \/ vmi'.gen = vmi.gen /\ vmi'.boot = vmi.boot /\ since' = since \cup {"live"}
         \/ UNCHANGED <<vmi, since>>
         \/ /\ vmi'.gen = vmi.gen + 1 /\ vmi'.boot = vmi.boot + 1
            /\ since' = since \cup {"new"}
  BY <1>1, <1>2, <1>4, <1>5
<1>7. /\ disk' \in V!Disk /\ disk'.at = vmi'.node /\ disk'.file = disk.file
      /\ disk'.bad = disk.bad
  <2>1. vmi'.node \in V!Nodes
    BY <1>6 DEF V!Vmi
  <2> QED BY <1>1, <1>2, <2>1 DEF V!Disk
<1> QED BY <1>2, <1>3, <1>6, <1>7

LEMMA DisksMove ==
  ASSUME V!TypeOK, VmHarms \in Nat, V!MoveDisks
  PROVE  /\ disk' \in V!Disk /\ vmHarms' \in 0..VmHarms /\ vmi.phase = "none"
         /\ test = "cold" /\ vmMove = "progress" /\ vmMove' = "done" /\ disk'.bad = disk.bad
         /\ \/ disk'.file = disk.file /\ since' \in {since, since \cup {"moved"}}
            \/ disk'.file # "whole" /\ since' = since \cup {"lost"}
         /\ UNCHANGED <<runs, vmi, loop>>
<1>1. disk \in V!Disk /\ vmHarms \in 0..VmHarms /\ V!Target \in V!Nodes
  BY DEF V!TypeOK, V!Target, V!Nodes
<1>2. /\ vmi.phase = "none" /\ test = "cold" /\ vmMove = "progress" /\ vmMove' = "done"
      /\ UNCHANGED <<runs, vmi, loop>>
  BY DEF V!MoveDisks
<1>3. vmHarms' \in 0..VmHarms
  BY <1>1 DEF V!MoveDisks, V!Harm
<1>4. \/ /\ \E n \in V!Nodes : disk' = [disk EXCEPT !.at = n]
         /\ since' \in {since, since \cup {"moved"}}
      \/ /\ \E f \in {"none", "damaged"} : disk' = [disk EXCEPT !.at = V!Target, !.file = f]
         /\ since' = since \cup {"lost"}
  BY <1>1 DEF V!MoveDisks, V!Happens
<1>5. \A n \in V!Nodes : LET d == [disk EXCEPT !.at = n]
                         IN  d \in V!Disk /\ d.file = disk.file /\ d.bad = disk.bad
  BY <1>1 DEF V!Disk
<1>6. \A f \in {"none", "damaged"} : LET d == [disk EXCEPT !.at = V!Target, !.file = f]
                                     IN  d \in V!Disk /\ d.file # "whole"
                                       /\ d.bad = disk.bad
  BY <1>1 DEF V!Disk
<1> QED BY <1>2, <1>3, <1>4, <1>5, <1>6

LivePcs == {"api", "loop", "state", "migrate", "poll", "look", "after"}

ColdPcs == {"write", "stop", "stopped", "annotate", "wait", "start", "again", "read"}

\* Each test has its own steps, and asks for the move at one of them.
VmTurns ==
  /\ vmPc \in LivePcs => test = "live"
  /\ vmPc \in ColdPcs => test = "cold"
  /\ vmPc \notin {"poll", "look", "after", "wait", "start", "again", "read", "done"}
     => vmMove = "none"
  /\ vmPc \in {"start", "again", "read"} => vmMove = "done"
  /\ vmResult = "pass" => vmPc = "done"

\* A VMI that is there is where its disk is, and those made are counted.
VmisAreCounted ==
  /\ vmi.phase # "none" => vmi.node = disk.at
  /\ vmPc \notin {"api", "create", "up", "done"} => vmi.gen >= first.gen
  /\ vmPc = "read" => vmi.gen > first.gen /\ vmNow.node = disk.at

\* The VMI that was brought up leaves its node by a live migration.
LiveIsSeen ==
  /\ vmMove # "done" => "live" \notin since
  /\ vmPc \in {"loop", "state", "migrate", "poll", "look"} =>
       (vmi.gen = first.gen /\ "live" \notin since => vmi.node = first.node)
  /\ vmPc = "after" /\ vmNow.gen = first.gen /\ "live" \notin since
     => vmNow.node = first.node

\* A guest that was rebooted, or started anew, is in a later boot.
BootsAreCounted ==
  vmPc \in {"migrate", "poll", "look", "after"} =>
    /\ vmi.boot >= seen.boot
    /\ "reboot" \in since => vmi.boot > seen.boot
    /\ "new" \in since => vmi.boot > seen.boot \/ vmi.phase # "running"

\* What was damaged or lost is not as it was written.
HarmIsKept ==
  /\ "mismatch" \in since => disk.bad
  /\ "lost" \in since => disk.file # "whole"

VmInv ==
  /\ V!TypeOK /\ VmTurns /\ VmisAreCounted /\ LiveIsSeen /\ BootsAreCounted /\ HarmIsKept
  /\ V!LivePassIsProof /\ V!ColdPassIsProof

-----------------------------------------------------------------------------
(* Types *)

VmDriverStep ==
  \/ V!ReadApi \/ V!CreateVm \/ V!Up
  \/ V!StartLoop \/ V!ReadState \/ V!CreateMigration \/ V!Poll \/ V!Look \/ V!JudgeLive
  \/ V!WriteFile \/ V!Stop \/ V!WaitStopped \/ V!Annotate \/ V!WaitMove \/ V!Start
     \/ V!UpAgain \/ V!JudgeCold

\* What the driver leaves alone: it writes the file, asks for the move, and the
\* rest is the guest's loop and whether the VM is to run.
LEMMA VmDriverLeaves ==
  ASSUME VmDriverStep
  PROVE  /\ UNCHANGED <<vmi, vmHarms, test>>
         /\ \/ disk' = disk
            \/ vmPc = "write" /\ disk' = [disk EXCEPT !.file = "whole"] /\ since' = {}
         /\ since' = since \/ (since' = {} /\ vmPc \in {"state", "write"})
         /\ vmMove' = vmMove \/ (vmMove' = "asked" /\ vmPc \in {"migrate", "annotate"})
<1>1. CASE V!ReadApi \/ V!Up \/ V!Poll \/ V!Look \/ V!JudgeLive \/ V!WaitStopped
           \/ V!WaitMove \/ V!UpAgain
           \/ V!JudgeCold \/ V!ReadState
  BY <1>1 DEF V!ReadApi, V!Up, V!Poll, V!Look, V!JudgeLive, V!WaitStopped, V!WaitMove,
              V!UpAgain, V!JudgeCold,
              V!ReadState, V!Looks, V!cluster, V!At
<1>2. CASE V!CreateVm \/ V!StartLoop \/ V!CreateMigration \/ V!WriteFile \/ V!Stop
           \/ V!Annotate \/ V!Start
  BY <1>2 DEF V!CreateVm, V!StartLoop, V!CreateMigration, V!WriteFile, V!Stop, V!Annotate,
              V!Start, V!SetRunning,
              V!At
<1> QED BY <1>1, <1>2 DEF VmDriverStep

VmPlace == [ gen : Nat, node : V!Nodes ]

\* What it keeps of what it saw.
LEMMA DriverSees ==
  ASSUME VmDriverStep
  PROVE  /\ first' = first \/ (vmPc = "up" /\ first' = [ gen |-> vmi.gen,
                                                         node |-> vmi.node ])
         /\ \/ vmNow' = vmNow
            \/ /\ vmPc \in {"look", "again"}
                  /\ vmNow' = [ gen |-> vmi.gen, node |-> vmi.node ]
               /\ vmPc = "again" => vmi.phase = "running" /\ vmi.gen # first.gen
         /\ \/ seen' = seen
            \/ vmPc = "state" /\ seen' = [ boot |-> vmi.boot, rounds |-> disk.rounds ]
         /\ read' = read \/ (vmPc \in {"after", "read"} /\ read' = vmi.gen)
<1>1. CASE V!ReadApi \/ V!Up \/ V!Poll \/ V!Look \/ V!JudgeLive \/ V!WaitStopped
           \/ V!WaitMove \/ V!UpAgain
           \/ V!JudgeCold \/ V!ReadState
  BY <1>1 DEF V!ReadApi, V!Up, V!Poll, V!Look, V!JudgeLive, V!WaitStopped, V!WaitMove,
              V!UpAgain, V!JudgeCold,
              V!ReadState, V!At, V!Running
<1>2. CASE V!CreateVm \/ V!StartLoop \/ V!CreateMigration \/ V!WriteFile \/ V!Stop
           \/ V!Annotate \/ V!Start
  BY <1>2 DEF V!CreateVm, V!StartLoop, V!CreateMigration, V!WriteFile, V!Stop, V!Annotate,
              V!Start, V!SetRunning
<1> QED BY <1>1, <1>2 DEF VmDriverStep

\* Where it goes.
LEMMA DriverGoes ==
  ASSUME VmDriverStep
  PROVE  /\ vmPc # "done"
         /\ \/ vmPc' = "done"
            \/ /\ vmResult' = vmResult
               /\ \/ vmPc = "api" /\ vmPc' = "create"
                  \/ vmPc = "create" /\ vmPc' = "up"
                  \/ /\ vmPc = "up" /\ first' = [ gen |-> vmi.gen, node |-> vmi.node ]
                     /\ vmPc' = IF test = "live" THEN "loop" ELSE "write"
                  \/ vmPc = "loop" /\ vmPc' = "state"
                  \/ /\ vmPc = "state" /\ vmPc' = "migrate" /\ since' = {}
                     /\ seen' = [ boot |-> vmi.boot, rounds |-> disk.rounds ]
                  \/ vmPc = "migrate" /\ vmPc' = "poll"
                  \/ vmPc = "poll" /\ vmPc' = "look"
                  \/ /\ vmPc = "look" /\ vmPc' = "after"
                     /\ vmNow' = [ gen |-> vmi.gen, node |-> vmi.node ]
                  \/ vmPc = "write" /\ vmPc' = "stop"
                  \/ vmPc = "stop" /\ vmPc' = "stopped"
                  \/ vmPc = "stopped" /\ vmPc' = "annotate"
                  \/ vmPc = "annotate" /\ vmPc' = "wait"
                  \/ vmPc = "wait" /\ vmPc' = "start" /\ vmMove = "done"
                  \/ vmPc = "start" /\ vmPc' = "again"
                  \/ /\ vmPc = "again" /\ vmPc' = "read" /\ vmi.phase = "running"
                     /\ vmi.gen # first.gen
                        /\ vmNow' = [ gen |-> vmi.gen, node |-> vmi.node ]
<1>1. CASE V!ReadApi \/ V!CreateVm \/ V!Up \/ V!StartLoop \/ V!ReadState
  BY <1>1 DEF V!ReadApi, V!CreateVm, V!Up, V!StartLoop, V!ReadState, V!At, V!Goto,
              V!Return, V!Failure
<1>2. CASE V!CreateMigration \/ V!Look \/ V!JudgeLive
  BY <1>2 DEF V!CreateMigration, V!Look, V!JudgeLive, V!At, V!Goto, V!Return, V!Failure
<1>3. CASE V!Poll
  BY <1>3 DEF V!Poll, V!At, V!Goto, V!Return, V!Failure
<1>4. CASE V!WriteFile \/ V!WaitStopped \/ V!Annotate \/ V!WaitMove
  BY <1>4 DEF V!WriteFile, V!WaitStopped, V!Annotate, V!WaitMove, V!At, V!Goto, V!Return,
              V!Failure
<1>5. CASE V!Stop \/ V!Start \/ V!UpAgain \/ V!JudgeCold
  BY <1>5 DEF V!Stop, V!Start, V!SetRunning, V!UpAgain, V!JudgeCold, V!At, V!Goto,
              V!Return, V!Failure, V!Running
<1> QED BY <1>1, <1>2, <1>3, <1>4, <1>5 DEF VmDriverStep

LEMMA VmClusterKeepsTypes ==
  ASSUME V!TypeOK, VmHarms \in Nat, Rounds \in Nat, V!Cluster
  PROVE  V!TypeOK'
<1>0. UNCHANGED <<V!driver, vmFaults>>
  BY DEF V!Cluster
<1>1. ASSUME /\ runs' = runs /\ vmi' \in V!Vmi /\ disk' \in V!Disk /\ loop' \in BOOLEAN
             /\ vmMove' \in {"none", "asked", "progress", "done", "failed", "unset"}
             /\ vmHarms' \in 0..VmHarms /\ since' \subseteq V!Events
      PROVE  V!TypeOK'
  BY <1>0, <1>1 DEF V!TypeOK, V!driver
<1>2. /\ vmi \in V!Vmi /\ disk \in V!Disk /\ loop \in BOOLEAN /\ vmHarms \in 0..VmHarms
      /\ since \subseteq V!Events
      /\ vmMove \in {"none", "asked", "progress", "done", "failed", "unset"}
  BY DEF V!TypeOK
<1>3. \A e \in V!Events : since \cup {e} \subseteq V!Events
  BY <1>2
<1>4. {"live", "reboot", "new", "mismatch", "lost", "moved"} \subseteq V!Events
  BY DEF V!Events
<1>5. CASE V!MakeVmi
  BY <1>1, <1>2, <1>3, <1>4, <1>5, VmiIsMade
<1>6. CASE V!BootVmi
  BY <1>1, <1>2, <1>6, VmiBoots
<1>7. CASE V!StopVmi
  BY <1>1, <1>2, <1>7, VmiStops
<1>8. CASE V!Reboot
  BY <1>1, <1>2, <1>3, <1>4, <1>8, VmiReboots
<1>9. CASE V!Round
  BY <1>1, <1>2, <1>3, <1>4, <1>9, RoundEnds
<1>10. CASE V!Answer \/ V!MoveFails
  BY <1>1, <1>2, <1>10, VmMoves
<1>11. CASE V!Migrate
  BY <1>1, <1>2, <1>3, <1>4, <1>11, Migrates
<1>12. CASE V!MoveDisks
  BY <1>1, <1>2, <1>3, <1>4, <1>12, DisksMove
<1> QED BY <1>5, <1>6, <1>7, <1>8, <1>9, <1>10, <1>11, <1>12 DEF V!Cluster

LEMMA VmDriverKeepsTypes ==
  ASSUME V!TypeOK, VmFaults \in Nat, VmHarms \in Nat, Rounds \in Nat, VmDriverStep
  PROVE  V!TypeOK'
<1>1. vmi \in V!Vmi /\ disk \in V!Disk
  BY DEF V!TypeOK
<1>2. vmi' \in V!Vmi /\ disk' \in V!Disk /\ vmHarms' \in 0..VmHarms
      /\ test' \in {"live", "cold"}
  <2>1. UNCHANGED <<vmi, vmHarms, test>>
    BY VmDriverLeaves
  <2>2. disk' = disk \/ disk' = [disk EXCEPT !.file = "whole"]
    BY VmDriverLeaves
  <2>3. [disk EXCEPT !.file = "whole"] \in V!Disk
    BY <1>1, DisksStayDisks DEF Files
  <2> QED BY <2>1, <2>2, <2>3 DEF V!TypeOK
<1>3. since' \subseteq V!Events
  BY VmDriverLeaves DEF V!TypeOK
<1>4. vmFaults' \in 0..VmFaults
  <2>1. UNCHANGED vmFaults \/ V!Fault
    BY DEF VmDriverStep, V!ReadApi, V!CreateVm, V!Up, V!StartLoop, V!ReadState,
           V!CreateMigration, V!Poll, V!Look,
           V!JudgeLive, V!WriteFile, V!Stop, V!WaitStopped, V!Annotate, V!WaitMove, V!Start,
             V!UpAgain, V!JudgeCold,
           V!SetRunning, V!Failure, V!Seen
  <2> QED BY <2>1 DEF V!TypeOK, V!Fault
<1>5. runs' \in BOOLEAN
  BY DEF VmDriverStep, V!ReadApi, V!CreateVm, V!Up, V!StartLoop, V!ReadState,
         V!CreateMigration, V!Poll, V!Look,
         V!JudgeLive, V!WriteFile, V!Stop, V!WaitStopped, V!Annotate, V!WaitMove, V!Start,
           V!UpAgain, V!JudgeCold,
         V!SetRunning, V!Looks, V!cluster, V!TypeOK
<1>6. loop' \in BOOLEAN
  <2>1. CASE V!StartLoop
    <3>1. loop' \in {loop, V!Running, TRUE}
      BY <2>1 DEF V!StartLoop
    <3>2. V!Running \in BOOLEAN /\ loop \in BOOLEAN
      BY DEF V!Running, V!TypeOK
    <3> QED BY <3>1, <3>2
  <2>2. CASE ~V!StartLoop
    <3>1. loop' = loop
      BY <2>2 DEF VmDriverStep, V!ReadApi, V!CreateVm, V!Up, V!ReadState,
                  V!CreateMigration, V!Poll, V!Look,
           V!JudgeLive, V!WriteFile, V!Stop, V!WaitStopped, V!Annotate, V!WaitMove, V!Start,
             V!UpAgain, V!JudgeCold,
           V!SetRunning, V!Looks, V!cluster
    <3> QED BY <3>1 DEF V!TypeOK
  <2> QED BY <2>1, <2>2
<1>7. vmMove' \in {"none", "asked", "progress", "done", "failed", "unset"}
  BY VmDriverLeaves DEF V!TypeOK
<1>8. first' \in VmPlace /\ vmNow' \in VmPlace
  <2>1. [ gen |-> vmi.gen, node |-> vmi.node ] \in VmPlace
    BY <1>1 DEF V!Vmi, VmPlace
  <2> QED BY <2>1, DriverSees DEF V!TypeOK, VmPlace
<1>9. seen' \in [ boot : Nat, rounds : 0..Rounds ]
  <2>1. [ boot |-> vmi.boot, rounds |-> disk.rounds ] \in [ boot : Nat, rounds : 0..Rounds ]
    BY <1>1 DEF V!Vmi, V!Disk
  <2> QED BY <2>1, DriverSees DEF V!TypeOK
<1>10. read' \in Nat
  BY <1>1, DriverSees DEF V!TypeOK, V!Vmi
<1>11. vmPc' \in {"api", "create", "up", "loop", "state", "migrate", "poll", "look",
                  "after",
                  "write", "stop", "stopped", "annotate", "wait", "start", "again", "read",
                    "done"}
  BY DriverGoes
<1>12. vmResult' \in {"none", "pass", "fail", "skip", "infra"}
  BY DEF VmDriverStep, V!ReadApi, V!CreateVm, V!Up, V!StartLoop, V!ReadState,
         V!CreateMigration, V!Poll, V!Look,
         V!JudgeLive, V!WriteFile, V!Stop, V!WaitStopped, V!Annotate, V!WaitMove, V!Start,
           V!UpAgain, V!JudgeCold,
         V!SetRunning, V!Failure, V!Goto, V!Return, V!TypeOK
<1> QED BY <1>2, <1>3, <1>4, <1>5, <1>6, <1>7, <1>8, <1>9, <1>10, <1>11, <1>12
           DEF V!TypeOK, VmPlace

LEMMA VmTypesStay ==
  ASSUME V!TypeOK, VmFaults \in Nat, VmHarms \in Nat, Rounds \in Nat, [V!Next]_(V!vars)
  PROVE  V!TypeOK'
<1>1. CASE UNCHANGED V!vars
  BY <1>1 DEF V!vars, V!cluster, V!driver, V!TypeOK
<1> QED BY <1>1, VmClusterKeepsTypes, VmDriverKeepsTypes DEF V!Next, VmDriverStep

-----------------------------------------------------------------------------
(* The invariants *)

LEMMA VmClusterSteps ==
  ASSUME V!Cluster
  PROVE  /\ UNCHANGED <<V!driver, vmFaults>> /\ vmPc # "done"
         /\ \/ V!MakeVmi \/ V!BootVmi \/ V!StopVmi \/ V!Reboot \/ V!Round
            \/ (V!Answer \/ V!MoveFails) \/ V!Migrate \/ V!MoveDisks
  BY DEF V!Cluster

LEMMA VmTurnsStay ==
  ASSUME V!TypeOK, VmHarms \in Nat, Rounds \in Nat, VmTurns, [V!Next]_(V!vars)
  PROVE  VmTurns'
<1>1. CASE UNCHANGED V!vars
  BY <1>1 DEF V!vars, V!cluster, V!driver, VmTurns, LivePcs, ColdPcs
<1>2. CASE V!Cluster
  <2>1. UNCHANGED V!driver
    BY <1>2, VmClusterSteps
  <2>2. vmMove' = vmMove \/ (vmMove \in {"asked", "progress"} /\ vmMove' # "none")
    BY <1>2, VmClusterSteps, VmiIsMade, VmiBoots, VmiStops, VmiReboots, RoundEnds, VmMoves,
       Migrates, DisksMove
  <2> QED BY <2>1, <2>2 DEF V!driver, VmTurns, LivePcs, ColdPcs
<1>3. CASE VmDriverStep
  <2>1. UNCHANGED test /\ test \in {"live", "cold"}
    BY <1>3, VmDriverLeaves DEF V!TypeOK
  <2>2. vmMove' = vmMove \/ (vmMove' = "asked" /\ vmPc \in {"migrate", "annotate"})
    BY <1>3, VmDriverLeaves
  <2> QED BY <1>3, <2>1, <2>2, DriverGoes DEF VmTurns, LivePcs, ColdPcs
<1> QED BY <1>1, <1>2, <1>3 DEF V!Next, VmDriverStep

LEMMA VmisStayCounted ==
  ASSUME V!TypeOK, VmHarms \in Nat, Rounds \in Nat, VmTurns, VmisAreCounted,
         [V!Next]_(V!vars)
  PROVE  VmisAreCounted'
<1>0. /\ vmi.gen \in Nat /\ first.gen \in Nat
  BY VmisStayVmis DEF V!TypeOK
<1>1. CASE UNCHANGED V!vars
  BY <1>1 DEF V!vars, V!cluster, V!driver, VmisAreCounted
<1>2. CASE V!Cluster
  <2>0. UNCHANGED <<vmPc, first, vmNow>>
    BY <1>2, VmClusterSteps DEF V!driver
  <2>1. CASE V!MakeVmi
    <3>1. vmi'.node = disk'.at /\ vmi'.gen = vmi.gen + 1 /\ disk' = disk
      BY <2>1, VmiIsMade
    <3> QED BY <1>0, <2>0, <3>1 DEF VmisAreCounted
  <2>2. CASE V!BootVmi \/ V!StopVmi \/ V!Reboot
    <3>1. /\ vmi'.node = vmi.node /\ disk' = disk /\ vmi'.gen = vmi.gen
          /\ vmi'.phase # "none" => vmi.phase # "none"
      BY <2>2, VmiBoots, VmiStops, VmiReboots
    <3> QED BY <2>0, <3>1 DEF VmisAreCounted
  <2>3. CASE V!Round
    BY <2>0, <2>3, RoundEnds DEF VmisAreCounted
  <2>4. CASE V!Answer \/ V!MoveFails
    BY <2>0, <2>4, VmMoves DEF VmisAreCounted
  <2>5. CASE V!Migrate
    <3>1. /\ disk'.at = vmi'.node /\ vmMove = "progress"
          /\ vmi'.gen = vmi.gen \/ vmi'.gen = vmi.gen + 1
      BY <2>5, Migrates
    <3>2. vmPc # "read"
      BY <3>1 DEF VmTurns
    <3> QED BY <1>0, <2>0, <3>1, <3>2 DEF VmisAreCounted
  <2>6. CASE V!MoveDisks
    <3>1. vmi.phase = "none" /\ vmi' = vmi /\ vmMove = "progress"
      BY <2>6, DisksMove
    <3>2. vmPc # "read"
      BY <3>1 DEF VmTurns
    <3> QED BY <2>0, <3>1, <3>2 DEF VmisAreCounted
  <2> QED BY <1>2, <2>1, <2>2, <2>3, <2>4, <2>5, <2>6, VmClusterSteps
<1>3. CASE VmDriverStep
  <2>1. vmi' = vmi
    BY <1>3, VmDriverLeaves
  <2>2. disk'.at = disk.at
    <3>1. disk \in V!Disk
      BY DEF V!TypeOK
    <3>2. [disk EXCEPT !.file = "whole"].at = disk.at
      BY <3>1 DEF V!Disk
    <3> QED BY <1>3, <3>2, VmDriverLeaves
  <2>3. first' = first \/ (vmPc = "up" /\ first'.gen = vmi.gen)
    BY <1>3, DriverSees
  <2>4. /\ vmPc = "again" /\ vmPc' = "read" => /\ vmi.phase = "running"
                                                  /\ vmi.gen # first.gen
                                               /\ vmNow'.node = vmi.node
        /\ vmPc' = "read" => vmPc = "again"
        /\ vmPc' \in {"done", "create", "up"} \/ vmPc \notin {"api", "create", "up"}
             \/ (vmPc = "up" /\ first'.gen = vmi.gen)
        /\ vmPc # "done"
    BY <1>3, DriverGoes
  <2>5. vmi.phase # "none" => vmi.node = disk.at
    BY DEF VmisAreCounted
  <2>6. vmPc' \notin {"api", "create", "up", "done"} => vmi.gen >= first'.gen
    BY <1>0, <2>3, <2>4 DEF VmisAreCounted
  <2>7. vmPc' = "read" => vmi.gen > first'.gen /\ vmNow'.node = disk.at
    BY <1>0, <2>3, <2>4, <2>5 DEF VmisAreCounted
  <2> QED BY <2>1, <2>2, <2>5, <2>6, <2>7 DEF VmisAreCounted
<1> QED BY <1>1, <1>2, <1>3 DEF V!Next, VmDriverStep

LEMMA LiveStaysSeen ==
  ASSUME V!TypeOK, VmHarms \in Nat, Rounds \in Nat, VmTurns, VmisAreCounted, LiveIsSeen,
         [V!Next]_(V!vars)
  PROVE  LiveIsSeen'
<1>0. vmi.gen \in Nat /\ first.gen \in Nat
  BY VmisStayVmis DEF V!TypeOK
<1>1. CASE UNCHANGED V!vars
  BY <1>1 DEF V!vars, V!cluster, V!driver, LiveIsSeen
<1>2. CASE V!Cluster
  <2>0. UNCHANGED <<vmPc, first, vmNow>>
    BY <1>2, VmClusterSteps DEF V!driver
  <2>1. CASE V!MakeVmi
    <3>1. /\ vmi'.gen = vmi.gen + 1 /\ vmMove' = vmMove
          /\ ("live" \in since') = ("live" \in since)
      BY <2>1, VmiIsMade
    <3>2. vmPc \in {"loop", "state", "migrate", "poll", "look"} => vmi'.gen # first.gen
      BY <1>0, <3>1 DEF VmisAreCounted
    <3> QED BY <2>0, <3>1, <3>2 DEF LiveIsSeen
  <2>2. CASE V!BootVmi \/ V!StopVmi \/ V!Reboot \/ V!Round
    <3>1. /\ vmi'.gen = vmi.gen /\ vmi'.node = vmi.node /\ vmMove' = vmMove
          /\ ("live" \in since') = ("live" \in since)
      <4>1. /\ vmi'.gen = vmi.gen /\ vmi'.node = vmi.node /\ vmMove' = vmMove
            /\ since' = since \/ since' = since \cup {"reboot"}
                 \/ since' = since \cup {"mismatch"}
        BY <2>2, VmiBoots, VmiStops, VmiReboots, RoundEnds
      <4> QED BY <4>1
    <3> QED BY <2>0, <3>1 DEF LiveIsSeen
  <2>3. CASE V!Answer \/ V!MoveFails
    BY <2>0, <2>3, VmMoves DEF LiveIsSeen
  <2>4. CASE V!Migrate
    <3>1. /\ vmMove' = "done"
          /\ \/ "live" \in since'
             \/ vmi' = vmi /\ since' = since
             \/ vmi'.gen = vmi.gen + 1 /\ (("live" \in since') = ("live" \in since))
      BY <2>4, Migrates
    <3>2. CASE vmi'.gen = vmi.gen + 1 /\ (("live" \in since') = ("live" \in since))
      <4>1. vmPc \in {"loop", "state", "migrate", "poll", "look"} => vmi'.gen # first.gen
        BY <1>0, <3>2 DEF VmisAreCounted
      <4> QED BY <2>0, <3>1, <3>2, <4>1 DEF LiveIsSeen
    <3>3. CASE "live" \in since' \/ (vmi' = vmi /\ since' = since)
      BY <2>0, <3>1, <3>3 DEF LiveIsSeen
    <3> QED BY <3>1, <3>2, <3>3
  <2>5. CASE V!MoveDisks
    <3>1. vmi' = vmi /\ vmMove' = "done" /\ (("live" \in since') = ("live" \in since))
      BY <2>5, DisksMove
    <3> QED BY <2>0, <3>1 DEF LiveIsSeen
  <2> QED BY <1>2, <2>1, <2>2, <2>3, <2>4, <2>5, VmClusterSteps
<1>3. CASE VmDriverStep
  <2>1. /\ vmi' = vmi
        /\ since' = since \/ (since' = {} /\ vmPc \in {"state", "write"})
        /\ vmMove' = vmMove \/ (vmMove' = "asked" /\ vmPc \in {"migrate", "annotate"})
    BY <1>3, VmDriverLeaves
  <2>2. /\ first' = first \/ (vmPc = "up" /\ first'.node = vmi.node)
        /\ \/ vmNow' = vmNow
           \/ vmPc \in {"look", "again"} /\ vmNow'.gen = vmi.gen /\ vmNow'.node = vmi.node
    BY <1>3, DriverSees
  <2>3. /\ vmPc' = "after" => vmPc = "look" /\ vmNow'.gen = vmi.gen
           /\ vmNow'.node = vmi.node
        /\ vmPc' \in {"loop", "state", "migrate", "poll", "look"} =>
             \/ vmPc \in {"loop", "state", "migrate", "poll"}
             \/ vmPc = "up" /\ first'.node = vmi.node
    BY <1>3, DriverGoes
  <2>4. vmPc \in {"migrate", "annotate", "state", "write"} => vmMove = "none"
    BY DEF VmTurns
  <2>5. vmMove = "none" => "live" \notin since
    BY DEF LiveIsSeen
  <2>6. vmMove' # "done" => "live" \notin since'
    BY <2>1, <2>4, <2>5 DEF LiveIsSeen
  <2>7. ASSUME vmPc' \in {"loop", "state", "migrate", "poll", "look"},
               vmi'.gen = first'.gen,
               "live" \notin since'
        PROVE  vmi'.node = first'.node
    <3>1. CASE vmPc \in {"loop", "state", "migrate", "poll"}
      <4>1. first' = first
        BY <2>2, <3>1
      <4>2. "live" \notin since' => "live" \notin since
        BY <2>1, <2>4, <2>5
      <4> QED BY <2>1, <2>7, <3>1, <4>1, <4>2 DEF LiveIsSeen
    <3>2. CASE vmPc = "up" /\ first'.node = vmi.node
      BY <2>1, <3>2
    <3> QED BY <2>3, <2>7, <3>1, <3>2
  <2>8. vmPc' = "after" /\ vmNow'.gen = first'.gen /\ "live" \notin since'
        => vmNow'.node = first'.node
    BY <2>1, <2>2, <2>3 DEF LiveIsSeen
  <2> QED BY <2>6, <2>7, <2>8 DEF LiveIsSeen
<1> QED BY <1>1, <1>2, <1>3 DEF V!Next, VmDriverStep

LEMMA BootsStayCounted ==
  ASSUME V!TypeOK, VmHarms \in Nat, Rounds \in Nat, BootsAreCounted, [V!Next]_(V!vars)
  PROVE  BootsAreCounted'
<1>0. vmi.boot \in Nat /\ seen.boot \in Nat
  BY VmisStayVmis DEF V!TypeOK
<1>1. CASE UNCHANGED V!vars
  BY <1>1 DEF V!vars, V!cluster, V!driver, BootsAreCounted
<1>2. CASE V!Cluster
  <2>0. UNCHANGED <<vmPc, seen>>
    BY <1>2, VmClusterSteps DEF V!driver
  <2>1. CASE V!MakeVmi
    BY <1>0, <2>0, <2>1, VmiIsMade DEF BootsAreCounted
  <2>2. CASE V!BootVmi
    BY <1>0, <2>0, <2>2, VmiBoots DEF BootsAreCounted
  <2>3. CASE V!StopVmi
    BY <1>0, <2>0, <2>3, VmiStops DEF BootsAreCounted
  <2>4. CASE V!Reboot
    BY <1>0, <2>0, <2>4, VmiReboots DEF BootsAreCounted
  <2>5. CASE V!Round
    <3>1. /\ vmi' = vmi /\ (("reboot" \in since') = ("reboot" \in since))
          /\ (("new" \in since') = ("new" \in since))
      <4>1. vmi' = vmi /\ (since' = since \/ since' = since \cup {"mismatch"})
        BY <2>5, RoundEnds
      <4> QED BY <4>1
    <3> QED BY <2>0, <3>1 DEF BootsAreCounted
  <2>6. CASE V!Answer \/ V!MoveFails
    BY <2>0, <2>6, VmMoves DEF BootsAreCounted
  <2>7. CASE V!Migrate
    <3>1. /\ vmi.phase = "running" /\ vmi'.phase = "running"
          /\ \/ /\ vmi'.boot = vmi.boot /\ (("reboot" \in since') = ("reboot" \in since))
                /\ (("new" \in since') = ("new" \in since))
             \/ vmi'.boot = vmi.boot + 1
      BY <2>7, Migrates
    <3> QED BY <1>0, <2>0, <3>1 DEF BootsAreCounted
  <2>8. CASE V!MoveDisks
    <3>1. /\ vmi' = vmi /\ (("reboot" \in since') = ("reboot" \in since))
          /\ (("new" \in since') = ("new" \in since))
      BY <2>8, DisksMove
    <3> QED BY <2>0, <3>1 DEF BootsAreCounted
  <2> QED BY <1>2, <2>1, <2>2, <2>3, <2>4, <2>5, <2>6, <2>7, <2>8, VmClusterSteps
<1>3. CASE VmDriverStep
  <2>1. /\ vmi' = vmi
        /\ since' = since \/ (since' = {} /\ vmPc \in {"state", "write"})
    BY <1>3, VmDriverLeaves
  <2>2. seen' = seen \/ (vmPc = "state" /\ seen'.boot = vmi.boot)
    BY <1>3, DriverSees
  <2>3. vmPc' \in {"migrate", "poll", "look", "after"} =>
          \/ vmPc \in {"migrate", "poll", "look"}
          \/ vmPc = "state" /\ since' = {} /\ seen'.boot = vmi.boot
    BY <1>3, DriverGoes
  <2> QED BY <1>0, <2>1, <2>2, <2>3 DEF BootsAreCounted
<1> QED BY <1>1, <1>2, <1>3 DEF V!Next, VmDriverStep

LEMMA HarmStaysKept ==
  ASSUME V!TypeOK, VmHarms \in Nat, Rounds \in Nat, HarmIsKept, [V!Next]_(V!vars)
  PROVE  HarmIsKept'
<1>0. disk \in V!Disk /\ disk.bad \in BOOLEAN
  BY DisksStayDisks DEF V!TypeOK
<1>1. CASE UNCHANGED V!vars
  BY <1>1 DEF V!vars, V!cluster, V!driver, HarmIsKept
<1>2. CASE V!Cluster
  <2>1. CASE V!MakeVmi \/ V!BootVmi \/ V!StopVmi \/ V!Reboot \/ V!Answer \/ V!MoveFails
    <3>1. /\ disk' = disk /\ (("mismatch" \in since') = ("mismatch" \in since))
          /\ (("lost" \in since') = ("lost" \in since))
      <4>1. /\ disk' = disk
            /\ since' = since \/ since' = since \cup {"new"}
               \/ since' = since \cup {"reboot"}
        BY <2>1, VmiIsMade, VmiBoots, VmiStops, VmiReboots, VmMoves
      <4> QED BY <4>1
    <3> QED BY <3>1 DEF HarmIsKept
  <2>2. CASE V!Round
    <3>1. /\ disk'.file = disk.file /\ (("lost" \in since') = ("lost" \in since))
          /\ "mismatch" \in since' => disk'.bad
      <4>1. /\ disk'.file = disk.file
            /\ \/ disk'.bad = disk.bad /\ since' = since
               \/ disk'.bad = TRUE /\ since' = since \cup {"mismatch"}
        BY <2>2, RoundEnds
      <4>2. ("lost" \in since') = ("lost" \in since)
        BY <4>1
      <4>3. "mismatch" \in since' => disk'.bad
        BY <4>1 DEF HarmIsKept
      <4> QED BY <4>1, <4>2, <4>3
    <3> QED BY <3>1 DEF HarmIsKept
  <2>3. CASE V!Migrate
    <3>1. /\ disk'.file = disk.file /\ disk'.bad = disk.bad
          /\ (("mismatch" \in since') = ("mismatch" \in since))
          /\ (("lost" \in since') = ("lost" \in since))
      BY <2>3, Migrates
    <3> QED BY <3>1 DEF HarmIsKept
  <2>4. CASE V!MoveDisks
    <3>1. /\ disk'.bad = disk.bad /\ (("mismatch" \in since') = ("mismatch" \in since))
          /\ \/ disk'.file = disk.file /\ (("lost" \in since') = ("lost" \in since))
             \/ disk'.file # "whole"
      BY <2>4, DisksMove
    <3> QED BY <3>1 DEF HarmIsKept
  <2> QED BY <1>2, <2>1, <2>2, <2>3, <2>4, VmClusterSteps
<1>3. CASE VmDriverStep
  <2>1. /\ disk' = disk \/ since' = {}
        /\ since' = since \/ since' = {}
    BY <1>3, VmDriverLeaves
  <2> QED BY <2>1 DEF HarmIsKept
<1> QED BY <1>1, <1>2, <1>3 DEF V!Next, VmDriverStep

\* A verdict, and nothing after it.
LEMMA PassesStayProof ==
  ASSUME V!TypeOK, VmHarms \in Nat, Rounds \in Nat, VmInv, [V!Next]_(V!vars)
  PROVE  V!LivePassIsProof' /\ V!ColdPassIsProof'
<1>1. CASE UNCHANGED V!vars
  BY <1>1 DEF V!vars, V!cluster, V!driver, VmInv, V!LivePassIsProof, V!ColdPassIsProof
<1>2. CASE V!JudgeLive
  <2>1. /\ vmPc = "after" /\ UNCHANGED <<test, since>>
        /\ vmResult' = "pass" => vmi.phase = "running" /\ V!LivePassed
    BY <1>2 DEF V!JudgeLive, V!At, V!Looks, V!Failure, V!Return, V!Running
  <2>2. test = "live"
    BY <2>1 DEF VmInv, VmTurns, LivePcs
  <2>3. ASSUME vmi.phase = "running", V!LivePassed
        PROVE  "live" \in since /\ since \cap {"reboot", "new", "mismatch"} = {}
    <3>1. "live" \in since
      BY <2>1, <2>3 DEF VmInv, LiveIsSeen, V!LivePassed, V!SameVmi
    <3>2. "mismatch" \notin since
      BY <2>3 DEF VmInv, HarmIsKept, V!LivePassed
    <3>3. vmi.boot \in Nat /\ vmi.boot = seen.boot
      BY <2>3, VmisStayVmis DEF V!LivePassed, V!NotRebooted, V!TypeOK
    <3>4. "reboot" \notin since /\ "new" \notin since
      BY <2>1, <2>3, <3>3 DEF VmInv, BootsAreCounted
    <3> QED BY <3>1, <3>2, <3>4
  <2> QED BY <2>1, <2>2, <2>3 DEF V!LivePassIsProof, V!ColdPassIsProof
<1>3. CASE V!JudgeCold
  <2>1. /\ vmPc = "read" /\ UNCHANGED <<test, since, first, disk>>
        /\ vmResult' = "pass" => V!ColdPassed /\ read' = vmi.gen
    BY <1>3 DEF V!JudgeCold, V!At, V!Looks, V!cluster, V!Return
  <2>2. test = "cold" /\ vmi.gen > first.gen /\ vmNow.node = disk.at
    BY <2>1 DEF VmInv, VmTurns, ColdPcs, VmisAreCounted
  <2>3. V!ColdPassed => disk.at = V!Target /\ "lost" \notin since
    BY <2>2 DEF V!ColdPassed, VmInv, HarmIsKept
  <2> QED BY <2>1, <2>2, <2>3 DEF V!LivePassIsProof, V!ColdPassIsProof
<1>4. CASE V!Next /\ ~V!JudgeLive /\ ~V!JudgeCold
  <2>1. vmPc # "done"
    BY <1>4, VmClusterSteps, DriverGoes DEF V!Next, VmDriverStep
  <2>2. vmResult # "pass"
    BY <2>1 DEF VmInv, VmTurns
  <2>3. vmResult' # "pass"
    BY <1>4, <2>2 DEF V!Next, V!Cluster, V!driver, V!ReadApi, V!CreateVm, V!Up,
                      V!StartLoop, V!ReadState,
           V!CreateMigration, V!Poll, V!Look, V!WriteFile, V!Stop, V!WaitStopped,
             V!Annotate, V!WaitMove, V!Start,
           V!UpAgain, V!SetRunning, V!Failure, V!Goto, V!Return
  <2> QED BY <2>3 DEF V!LivePassIsProof, V!ColdPassIsProof
<1> QED BY <1>1, <1>2, <1>3, <1>4

LEMMA VmInitially ==
  ASSUME VmFaults \in Nat, VmHarms \in Nat, Rounds \in Nat, V!Init
  PROVE  VmInv
<1>1. V!TypeOK
  <2>1. vmi \in V!Vmi /\ disk \in V!Disk
    BY DEF V!Init, V!Vmi, V!Disk, V!Nodes
  <2>2. vmFaults \in 0..VmFaults /\ vmHarms \in 0..VmHarms
    BY DEF V!Init
  <2>3. /\ first \in [ gen : Nat, node : V!Nodes ]
           /\ vmNow \in [ gen : Nat, node : V!Nodes ]
        /\ seen \in [ boot : Nat, rounds : 0..Rounds ]
    BY DEF V!Init, V!Nodes
  <2>4. /\ test \in {"live", "cold"} /\ vmPc \in {"api", "create"} /\ vmMove = "none"
        /\ runs = FALSE /\ loop = FALSE /\ vmResult = "none" /\ since = {} /\ read = 0
    BY DEF V!Init
  <2> QED BY <2>1, <2>2, <2>3, <2>4 DEF V!TypeOK
<1>2. VmTurns /\ VmisAreCounted /\ LiveIsSeen /\ BootsAreCounted /\ HarmIsKept
  BY DEF V!Init, VmTurns, LivePcs, ColdPcs, VmisAreCounted, LiveIsSeen, BootsAreCounted,
         HarmIsKept
<1>3. V!LivePassIsProof /\ V!ColdPassIsProof
  BY DEF V!Init, V!LivePassIsProof, V!ColdPassIsProof
<1> QED BY <1>1, <1>2, <1>3 DEF VmInv

LEMMA VmSteps ==
  ASSUME VmFaults \in Nat, VmHarms \in Nat, Rounds \in Nat, VmInv, [V!Next]_(V!vars)
  PROVE  VmInv'
<1>1. V!TypeOK'
  BY VmTypesStay DEF VmInv
<1>2. VmTurns' /\ VmisAreCounted' /\ LiveIsSeen' /\ BootsAreCounted' /\ HarmIsKept'
  BY VmTurnsStay, VmisStayCounted, LiveStaysSeen, BootsStayCounted, HarmStaysKept DEF VmInv
<1>3. V!LivePassIsProof' /\ V!ColdPassIsProof'
  BY PassesStayProof DEF VmInv
<1> QED BY <1>1, <1>2, <1>3 DEF VmInv

-----------------------------------------------------------------------------
(* What is told of the items *)

Lines == [P!Items -> P!Verdicts \cup {"none", "twice"}]

LEMMA EmitTells ==
  ASSUME podLines \in Lines, NEW is \in SUBSET P!Items, NEW v \in [is -> P!Verdicts],
         P!Emit(v)
  PROVE  /\ podLines' \in Lines
         /\ \A i \in P!Items : podLines'[i] = IF i \notin is THEN podLines[i]
                                              ELSE IF podLines[i] = "none" THEN v[i] ELSE "twice"
<1>1. DOMAIN v = is /\ \A i \in is : v[i] \in P!Verdicts
  OBVIOUS
<1>2. \A i \in P!Items : podLines[i] \in P!Verdicts \cup {"none", "twice"}
  BY DEF Lines
<1>3. podLines' = [i \in P!Items |-> IF i \notin is THEN podLines[i]
                                     ELSE IF podLines[i] = "none" THEN v[i] ELSE "twice"]
  BY <1>1 DEF P!Emit
<1> QED BY <1>1, <1>2, <1>3 DEF Lines

LEMMA AllAreTold ==
  ASSUME podLines \in Lines, NEW is \in SUBSET P!Items, NEW v \in P!Verdicts,
         P!Emit(P!All(is, v))
  PROVE  /\ podLines' \in Lines
         /\ \A i \in P!Items : podLines'[i] = IF i \notin is THEN podLines[i]
                                              ELSE IF podLines[i] = "none" THEN v ELSE "twice"
<1>1. P!All(is, v) \in [is -> P!Verdicts] /\ \A i \in is : P!All(is, v)[i] = v
  BY DEF P!All
<1> QED BY <1>1, EmitTells

LEMMA OneIsTold ==
  ASSUME podLines \in Lines, NEW j \in P!Items, NEW v \in P!Verdicts, P!Emit(P!Line(j, v))
  PROVE  /\ podLines' \in Lines
         /\ \A i \in P!Items : podLines'[i] = IF i # j THEN podLines[i]
                                              ELSE IF podLines[i] = "none" THEN v ELSE "twice"
<1>1. P!Line(j, v) \in [{j} -> P!Verdicts] /\ P!Line(j, v)[j] = v
  BY DEF P!Line
<1> QED BY <1>1, EmitTells

\* Whoever is not the driver tells of nothing, and goes nowhere.
Others == P!Environment \/ P!LookGet \/ P!LookList \/ P!OpenWatch \/ P!Hear \/ P!EndWatch

LEMMA OthersTellNothing ==
  ASSUME Others
  PROVE  UNCHANGED P!driver
BY DEF Others, P!Environment, P!LookGet, P!LookList, P!OpenWatch, P!Hear, P!EndWatch

\* The driver's steps that tell of nothing,
Silently(from, to) == podPc = from /\ podPc' = to /\ podLines' = podLines

\* and those that tell of some items.
Telling(from, to, is) ==
  /\ podPc = from /\ podPc' = to /\ podLines' \in Lines
  /\ \A i \in P!Items \ is : podLines'[i] = podLines[i]
  /\ \A i \in is : podLines[i] = "none" => podLines'[i] \in P!Verdicts

LEMMA DriverTells ==
  ASSUME podLines \in Lines, P!Driver
  PROVE  \/ Silently("start", "facts") \/ Telling("start", "done", P!Items)
         \/ Silently("start", "unstarted")
         \/ Telling("facts", "tokens", {"facts"})
         \/ Silently("tokens", "review")
         \/ Telling("tokens", "refused", {"token-review", "other-audience"})
         \/ Telling("review", "refused", {"token-review", "other-audience"})
         \/ Telling("review", "refused", {"other-audience"}) /\ tokens' = "blank"
         \/ Telling("refused", "grant", {"refused"})
         \/ Silently("grant", "granted")
         \/ Telling("grant", "watch", {"granted", "revoked"})
            /\ podLines'["granted"] # "pass"
         \/ Telling("granted", "ungrant", {"granted"})
         \/ Silently("ungrant", "revoked")
         \/ Telling("revoked", "watch", {"revoked"})
         \/ Silently("watch", "open") \/ Silently("open", "mark")
            \/ Silently("mark", "hold")
         \/ Silently("hold", "deleted")
         \/ \E from \in {"watch", "open", "mark"} :
              Telling(from, "unwatch", {"stream"}) /\ podLines'["stream"] # "pass"
         \/ Telling("deleted", "unwatch", {"stream"})
         \/ Silently("unwatch", "volume")
         \/ Telling("volume", "rotated", {"volume", "optout"})
         \/ Telling("rotated", "before", {"rotated"})
         \/ Telling("rotated", "done", {"rotated", "after-delete"})
         \/ Silently("before", "delete") \/ Silently("delete", "gone")
         \/ Silently("gone", "after")
         \/ \E from \in {"before", "delete", "gone", "after"} :
              Telling(from, "done", {"after-delete"})
<1>0. /\ {"pass", "fail", "told"} \subseteq P!Verdicts
      /\ {"facts", "token-review", "other-audience", "refused", "granted", "revoked",
          "stream",
          "volume", "optout", "rotated", "after-delete"} \subseteq P!Items
  BY DEF P!Verdicts, P!Items
<1>1. CASE P!Start
  <2>1. \/ Silently("start", "facts") \/ Silently("start", "unstarted")
        \/ podPc = "start" /\ podPc' = "done" /\ P!Emit(P!All(P!Items, "fail"))
    BY <1>1 DEF P!Start, P!At, P!Goto, Silently
  <2>2. ASSUME P!Emit(P!All(P!Items, "fail"))
        PROVE  /\ podLines' \in Lines
               /\ \A i \in P!Items : podLines[i] = "none" => podLines'[i] = "fail"
    BY <1>0, <2>2, AllAreTold
  <2>3. ASSUME podPc = "start", podPc' = "done", P!Emit(P!All(P!Items, "fail"))
        PROVE  Telling("start", "done", P!Items)
    BY <1>0, <2>2, <2>3 DEF Telling
  <2> QED BY <2>1, <2>3
<1>2. CASE P!Facts
  <2>1. podPc = "facts" /\ podPc' = "tokens" /\ P!Emit(P!Line("facts", "told"))
    BY <1>2 DEF P!Facts, P!At, P!Goto
  <2>2. Telling("facts", "tokens", {"facts"})
    BY <1>0, <2>1, OneIsTold DEF Telling
  <2> QED BY <2>2
\* The two of the tokens.
<1>3. ASSUME NEW v \in P!Verdicts, P!Emit(P!All({"token-review", "other-audience"}, v)),
             NEW p,
             podPc = p, podPc' = "refused"
      PROVE  Telling(p, "refused", {"token-review", "other-audience"})
  BY <1>0, <1>3, AllAreTold DEF Telling
<1>4. CASE P!FetchTokens \/ P!Review
  <2>1. \/ Silently("tokens", "review")
        \/ /\ podPc = "tokens" /\ podPc' = "refused"
           /\ P!Emit(P!All({"token-review", "other-audience"}, "fail"))
        \/ /\ podPc = "review" /\ podPc' = "refused"
           /\ P!Emit(P!All({"token-review", "other-audience"}, "told"))
        \/ /\ podPc = "review" /\ podPc' = "refused" /\ tokens' = "blank"
           /\ P!Emit(P!Line("other-audience", "told"))
    BY <1>4 DEF P!FetchTokens, P!Review, P!At, P!Goto, Silently
  <2>2. ASSUME podPc = "review", podPc' = "refused", P!Emit(P!Line("other-audience", "told"))
        PROVE  Telling("review", "refused", {"other-audience"})
    BY <1>0, <2>2, OneIsTold DEF Telling
  <2> QED BY <1>0, <1>3, <2>1, <2>2
\* Those of rbac and of the watch that have a verdict.
<1>5. ASSUME NEW j \in P!Items, NEW v \in P!Verdicts, P!Emit(P!Line(j, v)), NEW p, NEW q,
             podPc = p, podPc' = q
      PROVE  /\ Telling(p, q, {j})
             /\ v = "fail" => podLines'[j] # "pass"
  BY <1>0, <1>5, OneIsTold DEF Telling
<1>6. CASE P!Refused
  <2>1. /\ podPc = "refused" /\ podPc' = "grant"
        /\ \E v \in {"pass", "fail"} : P!Emit(P!Line("refused", v))
    BY <1>6 DEF P!Refused, P!At, P!Goto
  <2>2. Telling("refused", "grant", {"refused"})
    BY <1>0, <1>5, <2>1
  <2> QED BY <2>2
<1>7. CASE P!Granted
  <2>1. /\ podPc = "granted" /\ podPc' = "ungrant"
        /\ \E v \in {"pass", "fail"} : P!Emit(P!Line("granted", v))
    BY <1>7 DEF P!Granted, P!At, P!Goto
  <2>2. Telling("granted", "ungrant", {"granted"})
    BY <1>0, <1>5, <2>1
  <2> QED BY <2>2
<1>8. CASE P!Revoked
  <2>1. /\ podPc = "revoked" /\ podPc' = "watch"
        /\ \E v \in {"pass", "fail"} : P!Emit(P!Line("revoked", v))
    BY <1>8 DEF P!Revoked, P!At, P!Goto
  <2>2. Telling("revoked", "watch", {"revoked"})
    BY <1>0, <1>5, <2>1
  <2> QED BY <2>2
<1>9. CASE P!WaitDeleted
  <2>1. /\ podPc = "deleted" /\ podPc' = "unwatch"
        /\ \E v \in {"pass", "fail"} : P!Emit(P!Line("stream", v))
    BY <1>9 DEF P!WaitDeleted, P!At, P!Goto
  <2>2. Telling("deleted", "unwatch", {"stream"})
    BY <1>0, <1>5, <2>1
  <2> QED BY <2>2
<1>10. CASE P!GrantGet
  <2>1. \/ Silently("grant", "granted")
        \/ podPc = "grant" /\ podPc' = "watch"
           /\ P!Emit(P!All({"granted", "revoked"}, "fail"))
    BY <1>10 DEF P!GrantGet, P!At, P!Goto, Silently, P!NothingGranted
  <2>2. ASSUME podPc = "grant", podPc' = "watch",
               P!Emit(P!All({"granted", "revoked"}, "fail"))
        PROVE  Telling("grant", "watch", {"granted", "revoked"})
               /\ podLines'["granted"] # "pass"
    BY <1>0, <2>2, AllAreTold DEF Telling
  <2> QED BY <2>1, <2>2
<1>11. CASE P!GrantWatch \/ P!WaitOpen \/ P!CreateMarker
  <2>1. \/ Silently("watch", "open") \/ Silently("open", "mark") \/ Silently("mark", "hold")
        \/ /\ podPc \in {"watch", "open", "mark"} /\ podPc' = "unwatch"
           /\ P!Emit(P!Line("stream", "fail"))
    BY <1>11 DEF P!GrantWatch, P!WaitOpen, P!CreateMarker, P!At, P!Goto, Silently
  <2> QED BY <1>0, <1>5, <2>1
<1>12. CASE P!DeleteRbac("get", "ungrant", "revoked")
            \/ P!DeleteRbac("watch", "unwatch", "volume")
            \/ P!DeleteMarker \/ P!DeleteProbe
  BY <1>12 DEF P!DeleteRbac, P!DeleteMarker, P!DeleteProbe, P!At, P!Goto, Silently
<1>13. CASE P!OtherPods
  <2>1. podPc = "volume" /\ podPc' = "rotated"
        /\ P!Emit(P!All({"volume", "optout"}, "told"))
    BY <1>13 DEF P!OtherPods, P!At, P!Goto
  <2>2. Telling("volume", "rotated", {"volume", "optout"})
    BY <1>0, <2>1, AllAreTold DEF Telling
  <2> QED BY <2>2
<1>14. CASE P!Rotated
  <2>. DEFINE v == [i \in {"rotated",
                           "after-delete"} |-> IF i = "rotated" THEN "told" ELSE "fail"]
  <2>1. \/ podPc = "rotated" /\ podPc' = "before" /\ P!Emit(P!Line("rotated", "told"))
        \/ podPc = "rotated" /\ podPc' = "done" /\ P!Emit(v)
    BY <1>14 DEF P!Rotated, P!At, P!Goto
  <2>2. v \in [{"rotated", "after-delete"} -> P!Verdicts]
    BY <1>0
  <2>. HIDE DEF v
  <2>3. ASSUME podPc = "rotated", podPc' = "done", P!Emit(v)
        PROVE  Telling("rotated", "done", {"rotated", "after-delete"})
    BY <1>0, <2>2, <2>3, EmitTells DEF Telling
  <2> QED BY <1>0, <1>5, <2>1, <2>3
<1>15. CASE P!TryBefore \/ P!WaitGone \/ P!TryAfter \/ P!AfterFails
  <2>1. \/ Silently("before", "delete") \/ Silently("gone", "after")
        \/ /\ podPc \in {"before", "delete", "gone", "after"} /\ podPc' = "done"
           /\ \E v \in {"pass", "fail"} : P!Emit(P!Line("after-delete", v))
    BY <1>15 DEF P!TryBefore, P!WaitGone, P!TryAfter, P!AfterFails, P!At, P!Goto, Silently
  <2> QED BY <1>0, <1>5, <2>1
<1> QED BY <1>1, <1>2, <1>4, <1>6, <1>7, <1>8, <1>9, <1>10, <1>11, <1>12, <1>13, <1>14,
    <1>15
        DEF P!Driver

\* What the driver has of the tokens is settled with their review.
LEMMA TokensAreKept ==
  ASSUME [P!Next]_(P!vars)
  PROVE  podPc \in {"tokens", "review"} \/ tokens' = tokens
<1>1. CASE UNCHANGED P!vars \/ Others
  BY <1>1, OthersTellNothing DEF P!vars, P!driver
<1>2. CASE P!FetchTokens \/ P!Review
  BY <1>2 DEF P!FetchTokens, P!Review, P!At
<1>3. CASE P!Driver /\ ~P!FetchTokens /\ ~P!Review
  BY <1>3 DEF P!Driver, P!Start, P!Facts, P!Refused, P!GrantGet, P!Granted, P!DeleteRbac,
              P!Revoked, P!GrantWatch, P!WaitOpen, P!CreateMarker, P!DeleteMarker,
              P!WaitDeleted, P!OtherPods, P!Rotated, P!TryBefore, P!DeleteProbe,
              P!WaitGone, P!TryAfter, P!AfterFails
<1> QED BY <1>1, <1>2, <1>3 DEF P!Next, Others

\* Where an item is not told of yet, and everywhere else it is.
UntoldAt(i, pcs) == IF podPc \in pcs THEN podLines[i] = "none" ELSE podLines[i] \in P!Verdicts

AtFacts == {"start", "unstarted", "facts"}
AtTokens == AtFacts \cup {"tokens", "review"}
AtRefused == AtTokens \cup {"refused"}
AtGranted == AtRefused \cup {"grant", "granted"}
AtRevoked == AtGranted \cup {"ungrant", "revoked"}
AtStream == AtRevoked \cup {"watch", "open", "mark", "hold", "deleted"}
AtVolume == AtStream \cup {"unwatch", "volume"}
AtRotated == AtVolume \cup {"rotated"}
AtDelete == AtRotated \cup {"before", "delete", "gone", "after"}

\* The review, for which there may be no reviewer.
ReviewIsTold ==
  \/ UntoldAt("token-review", AtTokens)
  \/ podPc \notin AtTokens /\ tokens = "blank" /\ podLines["token-review"] = "none"

ItemsAreTold ==
  /\ UntoldAt("facts", AtFacts)
  /\ ReviewIsTold /\ UntoldAt("other-audience", AtTokens)
  /\ UntoldAt("refused", AtRefused) /\ UntoldAt("granted", AtGranted)
  /\ UntoldAt("revoked", AtRevoked) /\ UntoldAt("stream", AtStream)
  /\ UntoldAt("volume", AtVolume) /\ UntoldAt("optout", AtVolume)
  /\ UntoldAt("rotated", AtRotated) /\ UntoldAt("after-delete", AtDelete)

\* The last line's answer to GET a pod; of no line, none.
SaidOfGet == IF said = <<>> THEN P!NoLook ELSE said[1]

\* How far GET a pod got through is counted, of the looks there were and of those
\* that a line will be written of.
TurnsAreCounted ==
  /\ look = 403 \/ SaidOfGet = 403 => turns >= 1
  /\ SaidOfGet = 403 /\ look = 200 => turns >= 2
  /\ podLines["refused"] = "pass" =>
       /\ turns >= 1
       /\ look = 200 \/ SaidOfGet = 200 => turns >= 2
       /\ SaidOfGet = 200 /\ look = 403 => turns >= 3
  /\ podLines["refused"] = "pass" /\ podLines["granted"] = "pass" =>
       /\ turns >= 2
       /\ look = 403 \/ SaidOfGet = 403 => turns >= 3

\* What the first connection saw was heard on it.
EventsAreHeard ==
  /\ conn.open => conn.opens >= 1
  /\ conn.opens = 0 => conn.saw = {}
  /\ conn.opens = 1 => \A e \in conn.saw : <<e, 1>> \in heard

PodInv ==
  /\ P!TypeOK /\ ItemsAreTold /\ TurnsAreCounted /\ EventsAreHeard
  /\ P!RbacIsProof /\ P!WatchIsProof

LEMMA ItemsStayTold ==
  ASSUME P!TypeOK, ItemsAreTold, [P!Next]_(P!vars)
  PROVE  ItemsAreTold' /\ podLines' \in Lines
<1>. USE DEF ItemsAreTold, ReviewIsTold, UntoldAt, AtFacts, AtTokens, AtRefused, AtGranted,
             AtRevoked, AtStream, AtVolume, AtRotated, AtDelete
<1>1. podLines \in Lines
  BY DEF P!TypeOK, Lines
<1>a. podPc \in {"tokens", "review"} \/ tokens' = tokens
  BY TokensAreKept
<1>2. CASE UNCHANGED P!vars \/ Others
  <2>1. UNCHANGED P!driver
    BY <1>2, OthersTellNothing DEF P!vars
  <2> QED BY <1>1, <2>1 DEF P!driver
<1>3. ASSUME NEW p, NEW q, Silently(p, q),
             <<p, q>> \in { <<"start", "facts">>, <<"start", "unstarted">>,
                            <<"tokens", "review">>,
                            <<"grant", "granted">>,
                            <<"ungrant", "revoked">>, <<"watch", "open">>,
                              <<"open", "mark">>,
                            <<"mark", "hold">>, <<"hold", "deleted">>,
                              <<"unwatch", "volume">>,
                            <<"before", "delete">>, <<"delete", "gone">>,
                              <<"gone", "after">> }
      PROVE  ItemsAreTold' /\ podLines' \in Lines
  BY <1>1, <1>a, <1>3 DEF Silently
<1>4. ASSUME NEW p, NEW q, NEW is, Telling(p, q, is),
             <<p, q, is>> \in
               { <<"facts", "tokens", {"facts"}>>,
                 <<"tokens", "refused", {"token-review", "other-audience"}>>,
                 <<"review", "refused", {"token-review", "other-audience"}>>,
                 <<"refused", "grant", {"refused"}>>,
                 <<"grant", "watch", {"granted", "revoked"}>>,
                 <<"granted", "ungrant", {"granted"}>> }
      PROVE  ItemsAreTold' /\ podLines' \in Lines
  BY <1>1, <1>a, <1>4 DEF Telling, P!Items
<1>5. ASSUME NEW p, NEW q, NEW is, Telling(p, q, is),
             <<p, q, is>> \in
               { <<"revoked", "watch", {"revoked"}>>,
                 <<"watch", "unwatch", {"stream"}>>, <<"open", "unwatch", {"stream"}>>,
                 <<"mark", "unwatch", {"stream"}>>, <<"deleted", "unwatch", {"stream"}>>,
                 <<"volume", "rotated", {"volume", "optout"}>> }
      PROVE  ItemsAreTold' /\ podLines' \in Lines
  BY <1>1, <1>a, <1>5 DEF Telling, P!Items
<1>6. ASSUME NEW p, NEW q, NEW is, Telling(p, q, is),
             <<p, q, is>> \in
               { <<"rotated", "before", {"rotated"}>>,
                 <<"rotated", "done", {"rotated", "after-delete"}>>,
                 <<"before", "done", {"after-delete"}>>,
                   <<"delete", "done", {"after-delete"}>>,
                 <<"gone", "done", {"after-delete"}>>,
                   <<"after", "done", {"after-delete"}>> }
      PROVE  ItemsAreTold' /\ podLines' \in Lines
  BY <1>1, <1>a, <1>6 DEF Telling, P!Items
<1>7. ASSUME Telling("start", "done", P!Items) PROVE ItemsAreTold' /\ podLines' \in Lines
  BY <1>1, <1>a, <1>7 DEF Telling, P!Items
<1>8. ASSUME Telling("review", "refused", {"other-audience"}), tokens' = "blank"
      PROVE  ItemsAreTold' /\ podLines' \in Lines
  BY <1>1, <1>8 DEF Telling, P!Items
<1>9. CASE P!Driver
  BY <1>1, <1>3, <1>4, <1>5, <1>6, <1>7, <1>8, <1>9, DriverTells
<1> QED BY <1>2, <1>9 DEF P!Next, Others

-----------------------------------------------------------------------------
(* What the probe says *)

LEMMA LooksAreSaid ==
  ASSUME [P!Next]_(P!vars)
  PROVE  \/ UNCHANGED <<look, said, turns>>
         \/ /\ look = P!NoLook /\ said' = said /\ look' \in P!Codes
            /\ turns' = IF turns < 3 /\ look' = (IF turns = 1 THEN 200 ELSE 403)
                        THEN turns + 1 ELSE turns
            /\ podLines' = podLines
         \/ /\ look # P!NoLook /\ look' = P!NoLook /\ turns' = turns /\ podLines' = podLines
            /\ \E code \in P!Codes : said' = <<look, code>>
<1>1. CASE P!LookGet
  BY <1>1 DEF P!LookGet, P!driver
<1>2. CASE P!LookList
  BY <1>2 DEF P!LookList, P!driver
<1>3. CASE ~P!LookGet /\ ~P!LookList
  <2>1. CASE P!Environment \/ P!OpenWatch \/ P!Hear \/ P!EndWatch \/ UNCHANGED P!vars
    <3>1. CASE P!Environment \/ UNCHANGED P!vars
      BY <3>1 DEF P!Environment, P!Authorize, P!Expire, P!KillProbe, P!vars, P!probe
    <3>2. CASE P!OpenWatch \/ P!Hear \/ P!EndWatch
      <4>1. CASE P!OpenWatch
        BY <4>1 DEF P!OpenWatch
      <4>2. CASE P!Hear
        BY <4>2 DEF P!Hear
      <4>3. CASE P!EndWatch
        BY <4>3 DEF P!EndWatch
      <4> QED BY <3>2, <4>1, <4>2, <4>3
    <3> QED BY <2>1, <3>1, <3>2
  <2>2. CASE P!Driver
    <3>1. CASE P!CreateMarker \/ P!DeleteMarker \/ P!Start
      BY <3>1 DEF P!CreateMarker, P!DeleteMarker, P!Start
    <3>2. CASE ~P!CreateMarker /\ ~P!DeleteMarker /\ ~P!Start
      <4>1. UNCHANGED P!probe
        BY <2>2, <3>2 DEF P!Driver, P!Facts, P!FetchTokens, P!Review, P!Refused,
                          P!GrantGet, P!Granted,
               P!DeleteRbac, P!Revoked, P!GrantWatch, P!WaitOpen, P!WaitDeleted,
                 P!OtherPods, P!Rotated,
               P!TryBefore, P!DeleteProbe, P!WaitGone, P!TryAfter, P!AfterFails, P!Looks
      <4> QED BY <4>1 DEF P!probe
    <3> QED BY <3>1, <3>2
  <2> QED BY <1>3, <2>1, <2>2 DEF P!Next
<1> QED BY <1>1, <1>2, <1>3

\* What the watch sees and has heard: only what it hears, on the connection it
\* is; the driver, and the watch's ends, leave that alone.
LEMMA EventsAreSeen ==
  ASSUME P!TypeOK, [P!Next]_(P!vars)
  PROVE  \/ /\ conn'.open = conn.open /\ conn'.opens = conn.opens /\ conn'.saw = conn.saw
            /\ heard' = heard
         \/ conn'.open /\ conn'.opens = conn.opens + 1 /\ conn'.saw = conn.saw
            /\ heard' = heard
         \/ /\ conn.open /\ conn'.open /\ conn'.opens = conn.opens
            /\ \E e \in {"ADDED", "DELETED"} :
                 conn'.saw = conn.saw \cup {e} /\ heard' = heard \cup {<<e, conn.opens>>}
         \/ /\ ~conn'.open /\ conn'.opens = conn.opens /\ conn'.saw = conn.saw
            /\ heard' = heard
<1>1. conn \in P!Connection
  BY DEF P!TypeOK
<1>2. ASSUME UNCHANGED <<conn, heard>> PROVE
        /\ conn'.open = conn.open /\ conn'.opens = conn.opens /\ conn'.saw = conn.saw
        /\ heard' = heard
  BY <1>2
<1>3. CASE P!OpenWatch
  <2>. DEFINE c == [conn EXCEPT !.open = TRUE, !.opens = conn.opens + 1,
                                !.queue = IF marker = "there" THEN <<"ADDED">> ELSE <<>>]
  <2>1. conn' = c /\ heard' = heard
    BY <1>3 DEF P!OpenWatch
  <2>2. c.open = TRUE /\ c.opens = conn.opens + 1 /\ c.saw = conn.saw
    BY <1>1 DEF P!Connection
  <2>. HIDE DEF c
  <2> QED BY <2>1, <2>2
<1>4. CASE P!Hear
  <2>. DEFINE e == Head(conn.queue)
              c == [conn EXCEPT !.queue = Tail(conn.queue), !.saw = conn.saw \cup {e}]
  <2>1. conn' = c /\ heard' = heard \cup {<<e, conn.opens>>} /\ conn.queue # <<>>
        /\ conn.open
    BY <1>4 DEF P!Hear
  <2>2. c.open = conn.open /\ c.opens = conn.opens /\ c.saw = conn.saw \cup {e}
    BY <1>1 DEF P!Connection
  <2>3. e \in {"ADDED", "DELETED"}
    BY <1>1, <2>1 DEF P!Connection
  <2>. HIDE DEF c, e
  <2> QED BY <2>1, <2>2, <2>3
<1>5. CASE P!EndWatch
  <2>. DEFINE c == [conn EXCEPT !.open = FALSE, !.ended = conn.ended + 1, !.queue = <<>>]
  <2>1. conn' = c /\ heard' = heard
    BY <1>5 DEF P!EndWatch
  <2>2. c.open = FALSE /\ c.opens = conn.opens /\ c.saw = conn.saw
    BY <1>1 DEF P!Connection
  <2>. HIDE DEF c
  <2> QED BY <2>1, <2>2
<1>6. CASE P!CreateMarker \/ P!DeleteMarker
  <2>1. heard' = heard /\ (conn' = conn \/ \E q : conn' = [conn EXCEPT !.queue = q])
    BY <1>6 DEF P!CreateMarker, P!DeleteMarker, P!Sent
  <2>2. \A q : LET c == [conn EXCEPT !.queue = q]
               IN  c.open = conn.open /\ c.opens = conn.opens /\ c.saw = conn.saw
    BY <1>1 DEF P!Connection
  <2> QED BY <2>1, <2>2
<1>7. CASE UNCHANGED P!vars \/ P!Environment \/ P!LookGet \/ P!LookList
  <2>1. CASE UNCHANGED P!vars \/ P!Environment
    BY <1>2, <2>1 DEF P!Environment, P!Authorize, P!Expire, P!KillProbe, P!vars, P!probe
  <2>2. CASE P!LookGet
    BY <1>2, <2>2 DEF P!LookGet
  <2>3. CASE P!LookList
    BY <1>2, <2>3 DEF P!LookList
  <2> QED BY <1>7, <2>1, <2>2, <2>3
<1>8. CASE P!Driver /\ ~P!CreateMarker /\ ~P!DeleteMarker
  <2>1. UNCHANGED <<conn, heard>>
    BY <1>8 DEF P!Driver, P!Start, P!Facts, P!FetchTokens, P!Review, P!Refused, P!GrantGet,
                P!Granted,
           P!DeleteRbac, P!Revoked, P!GrantWatch, P!WaitOpen, P!WaitDeleted, P!OtherPods,
             P!Rotated,
           P!TryBefore, P!DeleteProbe, P!WaitGone, P!TryAfter, P!AfterFails, P!Looks,
             P!probe
  <2> QED BY <1>2, <2>1
<1> QED BY <1>3, <1>4, <1>5, <1>6, <1>7, <1>8 DEF P!Next

LEMMA EventsStayHeard ==
  ASSUME P!TypeOK, EventsAreHeard, [P!Next]_(P!vars)
  PROVE  EventsAreHeard'
<1>1. conn.opens \in Nat /\ conn.open \in BOOLEAN
  BY DEF P!TypeOK, P!Connection
<1>2. CASE /\ conn'.open = conn.open /\ conn'.opens = conn.opens /\ conn'.saw = conn.saw
           /\ heard' = heard
  BY <1>2 DEF EventsAreHeard
<1>3. CASE conn'.open /\ conn'.opens = conn.opens + 1 /\ conn'.saw = conn.saw
           /\ heard' = heard
  BY <1>1, <1>3 DEF EventsAreHeard
<1>4. CASE /\ conn.open /\ conn'.open /\ conn'.opens = conn.opens
           /\ \E e \in {"ADDED", "DELETED"} :
                conn'.saw = conn.saw \cup {e} /\ heard' = heard \cup {<<e, conn.opens>>}
  BY <1>1, <1>4 DEF EventsAreHeard
<1>5. CASE ~conn'.open /\ conn'.opens = conn.opens /\ conn'.saw = conn.saw /\ heard' = heard
  BY <1>5 DEF EventsAreHeard
<1> QED BY <1>2, <1>3, <1>4, <1>5, EventsAreSeen

\* Which lines may come to be a pass, and of what.
LEMMA PassesAreOfLogs ==
  ASSUME P!TypeOK, ItemsAreTold, [P!Next]_(P!vars)
  PROVE  /\ podLines'["refused"] = "pass" =>
              \/ podLines["refused"] = "pass"
              \/ podPc = "refused" /\ said = <<403, 403>> /\ UNCHANGED P!probe
         /\ podLines'["granted"] = "pass" =>
              \/ podLines["granted"] = "pass"
              \/ podPc = "granted" /\ said = <<200, 403>> /\ UNCHANGED P!probe
         /\ podLines'["revoked"] = "pass" =>
              \/ podLines["revoked"] = "pass"
              \/ podPc = "revoked" /\ said # <<>> /\ said[1] = 403 /\ UNCHANGED P!probe
         /\ podLines'["stream"] = "pass" =>
              \/ podLines["stream"] = "pass"
              \/ /\ podPc = "deleted" /\ conn.saw = {"ADDED", "DELETED"} /\ conn.opens = 1
                 /\ UNCHANGED P!probe
<1>0. /\ {"pass", "fail", "told"} \subseteq P!Verdicts
      /\ {"facts", "token-review", "other-audience", "refused", "granted", "revoked",
          "stream",
          "volume", "optout", "rotated", "after-delete"} \subseteq P!Items
      /\ podLines \in Lines
  BY DEF P!Verdicts, P!Items, P!TypeOK, Lines
<1>1. CASE UNCHANGED P!vars \/ Others
  <2>1. podLines' = podLines
    BY <1>1, OthersTellNothing DEF P!vars, P!driver
  <2> QED BY <2>1
\* A line about one item.
<1>2. ASSUME NEW j \in P!Items, NEW v \in P!Verdicts, P!Emit(P!Line(j, v)),
             NEW i \in P!Items,
             podLines'[i] = "pass"
      PROVE  podLines[i] = "pass" \/ (i = j /\ v = "pass")
  BY <1>0, <1>2, OneIsTold
<1>3. ASSUME NEW is \in SUBSET P!Items, NEW v \in P!Verdicts, P!Emit(P!All(is, v)),
             v # "pass",
             NEW i \in P!Items, podLines'[i] = "pass"
      PROVE  podLines[i] = "pass"
  BY <1>0, <1>3, AllAreTold
<1>4. CASE P!Refused
  <2>1. /\ podPc = "refused" /\ UNCHANGED P!probe
        /\ \E log \in P!Logs : P!Emit(P!Line("refused",
                                             IF log.rbac = <<403,
                                                             403>> THEN "pass" ELSE "fail"))
    BY <1>4 DEF P!Refused, P!At, P!Looks
  <2>2. PICK log \in P!Logs : P!Emit(P!Line("refused",
                                            IF log.rbac = <<403,
                                                            403>> THEN "pass" ELSE "fail"))
    BY <2>1
  <2>3. log.rbac = said \/ log.rbac = <<>>
    BY DEF P!Logs, P!Unsaid
  <2>4. log.rbac = <<403, 403>> => said = <<403, 403>>
    BY <2>3
  <2>5. ASSUME NEW i \in P!Items, podLines'[i] = "pass"
        PROVE  podLines[i] = "pass" \/ (i = "refused" /\ log.rbac = <<403, 403>>)
    BY <1>0, <1>2, <2>2, <2>5
  <2> QED BY <1>0, <2>1, <2>4, <2>5
<1>5. CASE P!Granted
  <2>1. /\ podPc = "granted" /\ UNCHANGED P!probe
        /\ \E log \in P!Logs : P!Emit(P!Line("granted",
                                             IF log.rbac = <<200,
                                                             403>> THEN "pass" ELSE "fail"))
    BY <1>5 DEF P!Granted, P!At, P!Looks
  <2>2. PICK log \in P!Logs : P!Emit(P!Line("granted",
                                            IF log.rbac = <<200,
                                                            403>> THEN "pass" ELSE "fail"))
    BY <2>1
  <2>3. log.rbac = said \/ log.rbac = <<>>
    BY DEF P!Logs, P!Unsaid
  <2>4. log.rbac = <<200, 403>> => said = <<200, 403>>
    BY <2>3
  <2>5. ASSUME NEW i \in P!Items, podLines'[i] = "pass"
        PROVE  podLines[i] = "pass" \/ (i = "granted" /\ log.rbac = <<200, 403>>)
    BY <1>0, <1>2, <2>2, <2>5
  <2> QED BY <1>0, <2>1, <2>4, <2>5
<1>6. CASE P!Revoked
  <2>1. /\ podPc = "revoked" /\ UNCHANGED P!probe
        /\ \E log \in P!Logs : P!Emit(P!Line("revoked",
                                             IF P!RefusedAgain(log.rbac) THEN "pass" ELSE "fail"))
    BY <1>6 DEF P!Revoked, P!At, P!Looks
  <2>2. PICK log \in P!Logs : P!Emit(P!Line("revoked",
                                            IF P!RefusedAgain(log.rbac) THEN "pass" ELSE "fail"))
    BY <2>1
  <2>3. log.rbac = said \/ log.rbac = <<>>
    BY DEF P!Logs, P!Unsaid
  <2>4. P!RefusedAgain(log.rbac) => said # <<>> /\ said[1] = 403
    BY <2>3 DEF P!RefusedAgain, P!Unsaid
  <2>5. ASSUME NEW i \in P!Items, podLines'[i] = "pass"
        PROVE  podLines[i] = "pass" \/ (i = "revoked" /\ P!RefusedAgain(log.rbac))
    BY <1>0, <1>2, <2>2, <2>5
  <2> QED BY <1>0, <2>1, <2>4, <2>5
<1>7. CASE P!WaitDeleted
  <2>1. /\ podPc = "deleted" /\ UNCHANGED P!probe
        /\ \E log \in P!Logs : P!Emit(P!Line("stream",
                                             IF P!JudgeWatch(log.watch) THEN "pass" ELSE "fail"))
    BY <1>7 DEF P!WaitDeleted, P!At, P!Looks
  <2>2. PICK log \in P!Logs : P!Emit(P!Line("stream",
                                            IF P!JudgeWatch(log.watch) THEN "pass" ELSE "fail"))
    BY <2>1
  <2>3. log.watch = conn \/ log.watch = P!NoConnection
    BY DEF P!Logs
  <2>4. P!JudgeWatch(log.watch) => conn.saw = {"ADDED", "DELETED"} /\ conn.opens = 1
    <3>1. ~P!JudgeWatch(P!NoConnection)
      BY DEF P!JudgeWatch, P!NoConnection
    <3>2. P!JudgeWatch(conn) => conn.saw = {"ADDED", "DELETED"} /\ conn.opens = 1
      BY DEF P!JudgeWatch
    <3> QED BY <2>3, <3>1, <3>2
  <2>5. ASSUME NEW i \in P!Items, podLines'[i] = "pass"
        PROVE  podLines[i] = "pass" \/ (i = "stream" /\ P!JudgeWatch(log.watch))
    BY <1>0, <1>2, <2>2, <2>5
  <2> QED BY <1>0, <2>1, <2>4, <2>5
<1>8. CASE P!Driver /\ ~P!Refused /\ ~P!Granted /\ ~P!Revoked /\ ~P!WaitDeleted
  <2>1. \/ podLines' = podLines
        \/ \E v \in {"fail", "told"}, is \in SUBSET P!Items : P!Emit(P!All(is, v))
        \/ \E v \in {"fail", "told"},
           j \in {"facts", "other-audience", "stream", "rotated"} : P!Emit(P!Line(j, v))
        \/ \E v \in {"fail", "pass"} : P!Emit(P!Line("after-delete", v))
        \/ P!Emit([i \in {"rotated",
                          "after-delete"} |-> IF i = "rotated" THEN "told" ELSE "fail"])
    <3>1. CASE P!Start \/ P!Facts \/ P!FetchTokens \/ P!Review \/ P!GrantGet
      BY <1>0, <3>1 DEF P!Start, P!Facts, P!FetchTokens, P!Review, P!GrantGet,
                        P!NothingGranted
    <3>2. CASE P!GrantWatch \/ P!WaitOpen \/ P!CreateMarker \/ P!DeleteMarker
               \/ P!DeleteRbac("get", "ungrant", "revoked")
               \/ P!DeleteRbac("watch", "unwatch", "volume")
      BY <3>2 DEF P!GrantWatch, P!WaitOpen, P!CreateMarker, P!DeleteMarker, P!DeleteRbac
    <3>3. CASE P!OtherPods \/ P!Rotated
      BY <1>0, <3>3 DEF P!OtherPods, P!Rotated
    <3>4. CASE P!TryBefore \/ P!DeleteProbe \/ P!WaitGone \/ P!TryAfter \/ P!AfterFails
      BY <3>4 DEF P!TryBefore, P!DeleteProbe, P!WaitGone, P!TryAfter, P!AfterFails
    <3> QED BY <1>8, <3>1, <3>2, <3>3, <3>4 DEF P!Driver
  <2>2. ASSUME P!Emit([i \in {"rotated",
                              "after-delete"} |-> IF i = "rotated" THEN "told" ELSE "fail"]),
               NEW i \in P!Items, podLines'[i] = "pass"
        PROVE  podLines[i] = "pass"
    <3>. DEFINE v == [k \in {"rotated",
                             "after-delete"} |-> IF k = "rotated" THEN "told" ELSE "fail"]
    <3>1. v \in [{"rotated", "after-delete"} -> P!Verdicts] /\ P!Emit(v)
          /\ \A k \in {"rotated", "after-delete"} : v[k] # "pass"
      BY <1>0, <2>2
    <3>. HIDE DEF v
    <3> QED BY <1>0, <2>2, <3>1, EmitTells
  <2>3. ASSUME NEW i \in {"refused", "granted", "revoked", "stream"}, podLines'[i] = "pass"
        PROVE  podLines[i] = "pass"
    <3>1. CASE podLines' = podLines
      BY <2>3, <3>1
    <3>2. CASE \E v \in {"fail", "told"}, is \in SUBSET P!Items : P!Emit(P!All(is, v))
      BY <1>0, <1>3, <2>3, <3>2
    <3>3. CASE \/ \E v \in {"fail", "told"},
                  j \in {"facts", "other-audience", "stream", "rotated"} :
                    P!Emit(P!Line(j, v))
               \/ \E v \in {"fail", "pass"} : P!Emit(P!Line("after-delete", v))
      BY <1>0, <1>2, <2>3, <3>3
    <3> QED BY <1>0, <2>1, <2>2, <2>3, <3>1, <3>2, <3>3
  <2> QED BY <2>3
<1> QED BY <1>1, <1>4, <1>5, <1>6, <1>7, <1>8 DEF P!Next, Others

LEMMA TurnsStayCounted ==
  ASSUME P!TypeOK, ItemsAreTold, TurnsAreCounted, P!RbacIsProof, [P!Next]_(P!vars)
  PROVE  TurnsAreCounted' /\ P!RbacIsProof'
<1>1. look \in {0, 1, 200, 403} /\ turns \in 0..3
  BY DEF P!TypeOK, P!Codes, P!NoLook
<1>2. P!RbacIsProof <=> (podLines["refused"] = "pass" /\ podLines["granted"] = "pass"
                         /\ podLines["revoked"] = "pass" => turns = 3)
  BY DEF P!RbacIsProof
<1>3. P!RbacIsProof' <=> (podLines'["refused"] = "pass" /\ podLines'["granted"] = "pass"
                          /\ podLines'["revoked"] = "pass" => turns' = 3)
  BY DEF P!RbacIsProof
\* A line may be judged: of what was said.
<1>4. CASE UNCHANGED <<look, said, turns>>
  <2>1. SaidOfGet' = SaidOfGet
    BY <1>4 DEF SaidOfGet
  <2>2. /\ said = <<403, 403>> => SaidOfGet = 403
        /\ said = <<200, 403>> => SaidOfGet = 200
        /\ said # <<>> /\ said[1] = 403 => SaidOfGet = 403
    BY DEF SaidOfGet
  <2>3. /\ podLines'["refused"] = "pass" =>
             podLines["refused"] = "pass" \/ (podPc = "refused" /\ SaidOfGet = 403)
        /\ podLines'["granted"] = "pass" =>
             podLines["granted"] = "pass" \/ (podPc = "granted" /\ SaidOfGet = 200)
        /\ podLines'["revoked"] = "pass" =>
             podLines["revoked"] = "pass" \/ (podPc = "revoked" /\ SaidOfGet = 403)
    BY <2>2, PassesAreOfLogs
  <2>4. /\ podPc = "refused" => podLines["granted"] # "pass" /\ podLines["revoked"] # "pass"
        /\ podPc = "granted" => podLines["revoked"] # "pass"
    BY DEF ItemsAreTold, ReviewIsTold, UntoldAt, AtFacts, AtTokens, AtRefused, AtGranted, AtRevoked
  <2> QED BY <1>1, <1>2, <1>3, <1>4, <2>1, <2>3, <2>4 DEF TurnsAreCounted
\* The pod is got,
<1>5. CASE /\ look = P!NoLook /\ said' = said /\ look' \in P!Codes /\ podLines' = podLines
           /\ turns' = IF turns < 3 /\ look' = (IF turns = 1 THEN 200 ELSE 403)
                       THEN turns + 1 ELSE turns
  <2>1. SaidOfGet' = SaidOfGet
    BY <1>5 DEF SaidOfGet
  <2> QED BY <1>1, <1>2, <1>3, <1>5, <2>1 DEF TurnsAreCounted, P!Codes, P!NoLook
\* and what it came to is said.
<1>6. CASE /\ look # P!NoLook /\ look' = P!NoLook /\ turns' = turns /\ podLines' = podLines
           /\ \E code \in P!Codes : said' = <<look, code>>
  <2>1. SaidOfGet' = look
    BY <1>6 DEF SaidOfGet
  <2> QED BY <1>1, <1>2, <1>3, <1>6, <2>1 DEF TurnsAreCounted, P!NoLook
<1> QED BY <1>4, <1>5, <1>6, LooksAreSaid

-----------------------------------------------------------------------------
(* Types *)

PodEvents == {"ADDED", "DELETED"}

LEMMA ConnectionsStay ==
  ASSUME conn \in P!Connection
  PROVE  /\ conn.opens + 1 \in Nat /\ conn.ended + 1 \in Nat
         /\ \A q \in Seq(PodEvents), n \in Nat :
              [conn EXCEPT !.open = TRUE, !.opens = n, !.queue = q] \in P!Connection
         /\ \A q \in Seq(PodEvents), n \in Nat :
              [conn EXCEPT !.open = FALSE, !.ended = n, !.queue = q] \in P!Connection
         /\ \A q \in Seq(PodEvents), s \in SUBSET PodEvents :
              [conn EXCEPT !.queue = q, !.saw = s] \in P!Connection
         /\ \A q \in Seq(PodEvents) : [conn EXCEPT !.queue = q] \in P!Connection
<1>1. conn.opens + 1 \in Nat /\ conn.ended + 1 \in Nat
  BY DEF P!Connection
<1>2. \A q \in Seq(PodEvents), n \in Nat :
        [conn EXCEPT !.open = TRUE, !.opens = n, !.queue = q] \in P!Connection
  BY DEF P!Connection, PodEvents
<1>3. \A q \in Seq(PodEvents), n \in Nat :
        [conn EXCEPT !.open = FALSE, !.ended = n, !.queue = q] \in P!Connection
  BY DEF P!Connection, PodEvents
<1>4. \A q \in Seq(PodEvents), s \in SUBSET PodEvents :
        [conn EXCEPT !.queue = q, !.saw = s] \in P!Connection
  BY DEF P!Connection, PodEvents
<1>5. \A q \in Seq(PodEvents) : [conn EXCEPT !.queue = q] \in P!Connection
  BY DEF P!Connection, PodEvents
<1> QED BY <1>1, <1>2, <1>3, <1>4, <1>5

LEMMA WatchStaysTyped ==
  ASSUME P!TypeOK, [P!Next]_(P!vars)
  PROVE  conn' \in P!Connection /\ heard' \subseteq {"ADDED", "DELETED"} \X Nat
<1>1. /\ conn \in P!Connection /\ heard \subseteq {"ADDED", "DELETED"} \X Nat
      /\ conn.queue \in Seq(PodEvents) /\ conn.opens \in Nat
         /\ conn.saw \in SUBSET PodEvents
  BY DEF P!TypeOK, P!Connection, PodEvents
<1>2. <<>> \in Seq(PodEvents) /\ <<"ADDED">> \in Seq(PodEvents)
  BY DEF PodEvents
<1>3. heard' \subseteq {"ADDED", "DELETED"} \X Nat
  BY <1>1, EventsAreSeen
<1>4. CASE P!OpenWatch
  <2>. DEFINE c(q, n) == [conn EXCEPT !.open = TRUE, !.opens = n, !.queue = q]
  <2>1. \E q \in Seq(PodEvents) : conn' = c(q, conn.opens + 1)
    BY <1>2, <1>4 DEF P!OpenWatch
  <2>2. \A q \in Seq(PodEvents), n \in Nat : c(q, n) \in P!Connection
    BY <1>1, ConnectionsStay
  <2>3. conn.opens + 1 \in Nat
    BY <1>1, ConnectionsStay
  <2>. HIDE DEF c
  <2> QED BY <1>3, <2>1, <2>2, <2>3
<1>5. CASE P!Hear
  <2>1. /\ conn.queue # <<>>
        /\ conn' = [conn EXCEPT !.queue = Tail(conn.queue),
                                !.saw = conn.saw \cup {Head(conn.queue)}]
    BY <1>5 DEF P!Hear
  <2>2. Tail(conn.queue) \in Seq(PodEvents) /\ Head(conn.queue) \in PodEvents
    BY <1>1, <2>1
  <2>3. conn.saw \cup {Head(conn.queue)} \in SUBSET PodEvents
    BY <1>1, <2>2
  <2> QED BY <1>1, <1>3, <2>1, <2>2, <2>3, ConnectionsStay
<1>6. CASE P!EndWatch
  <2>. DEFINE c(q, n) == [conn EXCEPT !.open = FALSE, !.ended = n, !.queue = q]
  <2>1. conn' = c(<<>>, conn.ended + 1)
    BY <1>6 DEF P!EndWatch
  <2>2. \A q \in Seq(PodEvents), n \in Nat : c(q, n) \in P!Connection
    BY <1>1, ConnectionsStay
  <2>3. conn.ended + 1 \in Nat
    BY <1>1, ConnectionsStay
  <2>. HIDE DEF c
  <2> QED BY <1>2, <1>3, <2>1, <2>2, <2>3
<1>7. CASE P!CreateMarker \/ P!DeleteMarker
  <2>1. conn' = conn \/ \E e \in PodEvents : P!Sent(e)
    BY <1>7 DEF P!CreateMarker, P!DeleteMarker, PodEvents
  <2>2. ASSUME NEW e \in PodEvents, P!Sent(e) PROVE conn' \in P!Connection
    <3>1. Append(conn.queue, e) \in Seq(PodEvents)
      BY <1>1
    <3>2. \E q \in Seq(PodEvents) : conn' = [conn EXCEPT !.queue = q]
      BY <1>1, <2>2, <3>1 DEF P!Sent
    <3> QED BY <1>1, <3>2, ConnectionsStay
  <2> QED BY <1>1, <1>3, <2>1, <2>2
<1>8. CASE UNCHANGED P!vars \/ P!Environment \/ P!LookGet \/ P!LookList
  <2>1. CASE UNCHANGED P!vars \/ P!Environment
    BY <1>1, <1>3, <2>1 DEF P!Environment, P!Authorize, P!Expire, P!KillProbe, P!vars,
                            P!probe
  <2>2. CASE P!LookGet
    BY <1>1, <1>3, <2>2 DEF P!LookGet
  <2>3. CASE P!LookList
    BY <1>1, <1>3, <2>3 DEF P!LookList
  <2> QED BY <1>8, <2>1, <2>2, <2>3
<1>9. CASE P!Driver /\ ~P!CreateMarker /\ ~P!DeleteMarker
  <2>1. UNCHANGED <<conn, heard>>
    BY <1>9 DEF P!Driver, P!Start, P!Facts, P!FetchTokens, P!Review, P!Refused, P!GrantGet,
                P!Granted,
           P!DeleteRbac, P!Revoked, P!GrantWatch, P!WaitOpen, P!WaitDeleted, P!OtherPods,
             P!Rotated,
           P!TryBefore, P!DeleteProbe, P!WaitGone, P!TryAfter, P!AfterFails, P!Looks,
             P!probe
  <2> QED BY <1>1, <1>3, <2>1
<1> QED BY <1>4, <1>5, <1>6, <1>7, <1>8, <1>9 DEF P!Next

LEMMA ClusterStaysTyped ==
  ASSUME P!TypeOK, [P!Next]_(P!vars)
  PROVE  /\ bound' \subseteq P!Verbs /\ allowed' \subseteq P!Verbs \cup {"secrets"}
         /\ marker' \in {"none", "there", "gone"}
            /\ pod' \in {"none", "there", "dead", "gone"}
         /\ valid' \in BOOLEAN /\ polls' \in BOOLEAN /\ tokens' \in {"none", "fetched", "blank"}
<1>1. CASE UNCHANGED P!vars \/ P!Environment
  BY <1>1 DEF P!Environment, P!Authorize, P!Expire, P!KillProbe, P!vars, P!cluster,
              P!probe, P!driver, P!TypeOK
<1>2. CASE P!LookGet \/ P!LookList \/ P!OpenWatch \/ P!Hear \/ P!EndWatch
  <2>1. UNCHANGED P!cluster /\ UNCHANGED P!driver /\ polls' = polls
    BY <1>2 DEF P!LookGet, P!LookList, P!OpenWatch, P!Hear, P!EndWatch
  <2> QED BY <2>1 DEF P!cluster, P!driver, P!TypeOK
<1>3. CASE P!Start
  BY <1>3 DEF P!Start, P!TypeOK
<1>4. CASE P!FetchTokens \/ P!Review
  BY <1>4 DEF P!FetchTokens, P!Review, P!Looks, P!cluster, P!probe, P!TypeOK
<1>5. CASE P!GrantGet \/ P!GrantWatch \/ P!DeleteRbac("get", "ungrant", "revoked")
           \/ P!DeleteRbac("watch", "unwatch", "volume")
  BY <1>5 DEF P!GrantGet, P!GrantWatch, P!DeleteRbac, P!Verbs, P!probe, P!TypeOK
<1>6. CASE P!CreateMarker \/ P!DeleteMarker \/ P!DeleteProbe
  BY <1>6 DEF P!CreateMarker, P!DeleteMarker, P!DeleteProbe, P!probe, P!TypeOK
<1>7. CASE P!Facts \/ P!Refused \/ P!Granted \/ P!Revoked \/ P!WaitOpen
           \/ P!WaitDeleted \/ P!OtherPods
           \/ P!Rotated \/ P!TryBefore \/ P!WaitGone \/ P!TryAfter \/ P!AfterFails
  <2>1. UNCHANGED P!cluster /\ UNCHANGED P!probe /\ tokens' = tokens
    BY <1>7 DEF P!Facts, P!Refused, P!Granted, P!Revoked, P!WaitOpen,
                P!WaitDeleted, P!OtherPods,
                P!Rotated, P!TryBefore, P!WaitGone, P!TryAfter, P!AfterFails, P!Looks
  <2> QED BY <2>1 DEF P!cluster, P!probe, P!TypeOK
<1> QED BY <1>1, <1>2, <1>3, <1>4, <1>5, <1>6, <1>7 DEF P!Next, P!Driver

LEMMA FaultsStayTyped ==
  ASSUME P!TypeOK, PodFaults \in Nat, PodHarms \in Nat, [P!Next]_(P!vars)
  PROVE  podFaults' \in 0..PodFaults /\ podHarms' \in 0..PodHarms
<1>1. UNCHANGED podFaults \/ P!Fault
  BY DEF P!Next, P!Driver, P!Environment, P!LookGet, P!LookList, P!OpenWatch, P!Hear,
         P!EndWatch, P!Start, P!Facts,
         P!FetchTokens, P!Review, P!Refused, P!GrantGet, P!Granted, P!DeleteRbac, P!Revoked,
           P!GrantWatch,
         P!WaitOpen, P!CreateMarker, P!DeleteMarker, P!WaitDeleted, P!OtherPods, P!Rotated,
           P!TryBefore,
         P!DeleteProbe, P!WaitGone, P!TryAfter, P!AfterFails, P!Read, P!Answer, P!vars
<1>2. UNCHANGED podHarms \/ P!Harm
  BY DEF P!Next, P!Driver, P!Environment, P!Authorize, P!Expire, P!KillProbe, P!LookGet,
         P!LookList, P!OpenWatch,
         P!Hear, P!EndWatch, P!Start, P!Facts,
         P!FetchTokens, P!Review, P!Refused, P!GrantGet, P!Granted, P!DeleteRbac, P!Revoked,
           P!GrantWatch,
         P!WaitOpen, P!CreateMarker, P!DeleteMarker, P!WaitDeleted, P!OtherPods, P!Rotated,
           P!TryBefore,
         P!DeleteProbe, P!WaitGone, P!TryAfter, P!AfterFails, P!Looks, P!vars
<1>3. podFaults \in 0..PodFaults /\ podHarms \in 0..PodHarms
  BY DEF P!TypeOK
<1>4. podFaults' \in 0..PodFaults
  BY <1>1, <1>3 DEF P!Fault
<1>5. podHarms' \in 0..PodHarms
  BY <1>2, <1>3 DEF P!Harm
<1> QED BY <1>4, <1>5

LEMMA PodTypesStay ==
  ASSUME P!TypeOK, ItemsAreTold, PodFaults \in Nat, PodHarms \in Nat, [P!Next]_(P!vars)
  PROVE  P!TypeOK'
<1>1. podLines' \in Lines
  BY ItemsStayTold
<1>2. look' \in P!Codes \cup {P!NoLook} /\ said' \in (P!Codes \X P!Codes) \cup {<<>>}
      /\ turns' \in 0..3
  <2>1. look \in P!Codes \cup {P!NoLook} /\ said \in (P!Codes \X P!Codes) \cup {<<>>}
        /\ turns \in 0..3
    BY DEF P!TypeOK
  <2> QED BY <2>1, LooksAreSaid
<1>3. podPc' \in {"start", "unstarted", "facts", "tokens", "review", "refused", "grant", "granted",
                  "ungrant",
                  "revoked", "watch", "open", "mark", "hold", "deleted", "unwatch",
                    "volume",
                  "rotated", "before", "delete", "gone", "after", "done"}
  <2>1. CASE UNCHANGED P!vars \/ Others
    BY <2>1, OthersTellNothing DEF P!vars, P!driver, P!TypeOK
  <2>2. CASE P!Driver
    <3>1. podLines \in Lines
      BY DEF P!TypeOK, Lines
    <3> QED BY <2>2, <3>1, DriverTells DEF Silently, Telling
  <2> QED BY <2>1, <2>2 DEF P!Next, Others
<1>4. conn' \in P!Connection /\ heard' \subseteq {"ADDED", "DELETED"} \X Nat
  BY WatchStaysTyped
<1>5. podFaults' \in 0..PodFaults /\ podHarms' \in 0..PodHarms
  BY FaultsStayTyped
<1> QED BY <1>1, <1>2, <1>3, <1>4, <1>5, ClusterStaysTyped DEF P!TypeOK, Lines

-----------------------------------------------------------------------------
(* Together *)

LEMMA PodInitially ==
  ASSUME PodFaults \in Nat, PodHarms \in Nat, P!Init
  PROVE  PodInv
<1>1. conn \in P!Connection
  <2>1. <<>> \in Seq({"ADDED", "DELETED"})
    OBVIOUS
  <2> QED BY <2>1 DEF P!Init, P!Connection
<1>2. podLines \in Lines /\ \A i \in P!Items : podLines[i] = "none"
  BY DEF P!Init, Lines
<1>3. podFaults \in 0..PodFaults /\ podHarms \in 0..PodHarms
  BY DEF P!Init
<1>4. P!TypeOK
  <2>1. /\ bound = {} /\ allowed = {} /\ marker = "none" /\ pod = "none" /\ valid = FALSE
        /\ polls = FALSE /\ look = P!NoLook /\ said = <<>> /\ podPc = "start"
           /\ tokens = "none"
        /\ turns = 0 /\ heard = {}
    BY DEF P!Init
  <2>2. said \in (P!Codes \X P!Codes) \cup {<<>>} /\ look \in P!Codes \cup {P!NoLook}
    BY <2>1
  <2>3. turns \in 0..3 /\ bound \subseteq P!Verbs
        /\ allowed \subseteq P!Verbs \cup {"secrets"}
    BY <2>1
  <2> QED BY <1>1, <1>2, <1>3, <2>1, <2>2, <2>3 DEF P!TypeOK, Lines
<1>5. ItemsAreTold
  BY <1>2 DEF P!Init, ItemsAreTold, ReviewIsTold, UntoldAt, AtFacts, AtTokens, AtRefused, AtGranted,
              AtRevoked,
              AtStream, AtVolume, AtRotated, AtDelete, P!Items
<1>6. TurnsAreCounted /\ P!RbacIsProof /\ P!WatchIsProof
  <2>1. podLines["refused"] = "none" /\ podLines["stream"] = "none" /\ look = 1
        /\ said = <<>>
    BY <1>2 DEF P!Init, P!Items, P!NoLook
  <2> QED BY <2>1 DEF TurnsAreCounted, P!RbacIsProof, P!WatchIsProof, SaidOfGet, P!NoLook
<1>7. EventsAreHeard
  BY DEF P!Init, EventsAreHeard
<1> QED BY <1>4, <1>5, <1>6, <1>7 DEF PodInv

LEMMA PodSteps ==
  ASSUME PodFaults \in Nat, PodHarms \in Nat, PodInv, [P!Next]_(P!vars)
  PROVE  PodInv'
<1>1. P!TypeOK' /\ ItemsAreTold'
  BY PodTypesStay, ItemsStayTold DEF PodInv
<1>2. TurnsAreCounted' /\ P!RbacIsProof'
  BY TurnsStayCounted DEF PodInv
<1>3. EventsAreHeard'
  BY EventsStayHeard DEF PodInv
<1>4. P!WatchIsProof'
  <2>1. CASE podLines["stream"] = "pass"
    <3>1. heard \subseteq heard'
      BY EventsAreSeen DEF PodInv
    <3> QED BY <2>1, <3>1 DEF PodInv, P!WatchIsProof
  <2>2. CASE podPc = "deleted" /\ conn.saw = {"ADDED", "DELETED"} /\ conn.opens = 1
             /\ UNCHANGED P!probe
    BY <2>2 DEF PodInv, P!WatchIsProof, EventsAreHeard, P!probe
  <2>3. CASE podLines'["stream"] # "pass"
    BY <2>3 DEF P!WatchIsProof
  <2> QED BY <2>1, <2>2, <2>3, PassesAreOfLogs DEF PodInv
<1> QED BY <1>1, <1>2, <1>3, <1>4 DEF PodInv

LEMMA ItemsAreToldOnce == ItemsAreTold => P!ToldOnce
BY DEF ItemsAreTold, ReviewIsTold, UntoldAt, AtFacts, AtTokens, AtRefused, AtGranted, AtRevoked, AtStream,
       AtVolume, AtRotated, AtDelete, P!ToldOnce, P!Items

-----------------------------------------------------------------------------
(* Types *)

TopoBounds == Masters \in Nat /\ Workers \in Nat /\ TopoFaults \in Nat /\ TopoHarms \in Nat

LEMMA UsersAreTwo ==
  /\ {T!Agent, T!Writer, T!Reader} \subseteq T!Names /\ T!Serves \subseteq T!Names
  /\ T!Writer # T!Reader /\ T!Agent \notin {T!Writer, T!Reader}
  /\ \A w \in T!Ws : <<"serve", w>> \in T!Serves
  /\ \A n \in T!Serves : n \notin {T!Agent, T!Writer, T!Reader}
  BY DEF T!Names, T!Serves, T!Agent, T!Writer, T!Reader

\* No pod is made of fewer than two workers.
MadeOfTwo ==
  /\ topoPc \in {"create", "place", "agent", "probe", "cross", "claim", "writer", "written",
                 "reader", "found"} => workersReady >= 2
  /\ \A n \in T!Names : topoPods[n].phase # "none" => workersReady >= 2

LEMMA PinnedIsAWorker ==
  ASSUME TopoBounds, workersReady \in 0..Workers, workersReady >= 2, NEW n \in T!Names
  PROVE  T!Pinned(n) \in T!Ws
<1>1. CASE n \in T!Serves
  <2>1. PICK w \in T!Ws : n = <<"serve", w>>
    BY <1>1 DEF T!Serves
  <2>2. n[2] = w
    BY <2>1
  <2>3. T!Pinned(n) = n[2]
    BY <1>1, UsersAreTwo DEF T!Pinned
  <2> QED BY <2>2, <2>3
<1>2. CASE n \notin T!Serves /\ n = T!Agent
  <2>1. T!Pinned(n) = 1
    BY <1>2, UsersAreTwo DEF T!Pinned
  <2> QED BY <2>1 DEF T!Ws, TopoBounds
<1>3. CASE n \notin T!Serves /\ n = T!Writer
  <2>1. T!Pinned(n) = workersReady
    BY <1>3, UsersAreTwo DEF T!Pinned
  <2> QED BY <2>1 DEF T!Ws, TopoBounds
<1>4. CASE n \notin T!Serves /\ n = T!Reader
  <2>1. T!Pinned(n) = IF workersReady > 2 THEN 2 ELSE 1
    BY <1>4, UsersAreTwo DEF T!Pinned
  <2> QED BY <2>1 DEF T!Ws, TopoBounds
<1> QED BY <1>1, <1>2, <1>3, <1>4 DEF T!Names

\* What a step may do to the pods.
Made(n) == topoPods' = [topoPods EXCEPT ![n].phase = "pending"]

Ran(n) ==
  /\ topoPods[n].phase = "pending"
  /\ \E p \in {"running", "ended"}, w \in T!Ws :
       topoPods' = [topoPods EXCEPT ![n].phase = p, ![n].node = w]

Spoke(n) ==
  /\ n \in {T!Writer, T!Reader} /\ topoPods[n].phase = "running"
     /\ topoPods[n].said = "nothing"
  /\ \E s \in {"written", "found", "mismatch"} : topoPods' = [topoPods EXCEPT ![n].said = s]

Ended(n) == topoPods' = [topoPods EXCEPT ![n].phase = "ended"]

LEMMA RunsAsPinned ==
  ASSUME TopoBounds, T!TypeOK, MadeOfTwo, NEW n \in T!Names, T!RunPod(n)
  PROVE  Ran(n)
<1>1. workersReady \in 0..Workers
  BY DEF T!TypeOK
<1>2. topoPods[n].phase = "pending"
  BY DEF T!RunPod
<1>3. workersReady >= 2
  BY <1>2 DEF MadeOfTwo
<1>4. T!Pinned(n) \in T!Ws
  BY <1>1, <1>3, PinnedIsAWorker
<1> QED BY <1>2, <1>4 DEF T!RunPod, Ran

LEMMA ClusterOnPods ==
  ASSUME TopoBounds, T!TypeOK, MadeOfTwo, T!Cluster
  PROVE  topoPods' = topoPods \/ \E n \in T!Names : Ran(n) \/ Spoke(n)
<1>1. CASE T!Replicate \/ T!LoseClaim
  BY <1>1 DEF T!Replicate, T!LoseClaim
<1>2. ASSUME NEW n \in T!Names, T!SayOfClaim(n) PROVE Spoke(n)
  BY <1>2 DEF T!SayOfClaim, Spoke
<1> QED BY <1>1, <1>2, RunsAsPinned DEF T!Cluster

LEMMA DriverOnPods ==
  ASSUME T!Driver, T!TypeOK
  PROVE  \/ topoPods' = topoPods
         \/ topoPc = "create" /\ next <= workersReady /\ Made(<<"serve", next>>)
         \/ topoPc = "agent" /\ Made(T!Agent)
         \/ topoPc = "writer" /\ Made(T!Writer)
         \/ topoPc = "reader" /\ Made(T!Reader)
         \/ topoPc = "written" /\ Ended(T!Writer)
         \/ topoPc = "found" /\ Ended(T!Reader)
<1> USE DEF T!Looks, T!cluster, T!KeepsOthers
<1>1. CASE T!List \/ T!AskReady \/ T!AllAsked \/ T!WriteMark \/ T!ReadMark \/ T!AllRead
  BY <1>1 DEF T!List, T!AskReady, T!AllAsked, T!WriteMark, T!ReadMark, T!AllRead
<1>2. CASE T!CountWorkers \/ T!SeePlaced \/ T!AllPlaced \/ T!ReadProbes \/ T!JudgeCross
           \/ T!CreateClaim
  BY <1>2 DEF T!CountWorkers, T!SeePlaced, T!AllPlaced, T!ReadProbes, T!JudgeCross,
              T!CreateClaim
<1>3. CASE T!CreateServe
  BY <1>3 DEF T!CreateServe, T!Make, Made
<1>4. CASE T!CreateAgent
  BY <1>4 DEF T!CreateAgent, T!Make, Made
<1>5. CASE T!CreateUser(T!Writer, "writer", "written")
           \/ T!CreateUser(T!Reader, "reader", "found")
  BY <1>5 DEF T!CreateUser, T!Make, Made
<1>6. CASE \/ T!ReadUser(T!Writer, "written", "written", "reader")
           \/ T!ReadUser(T!Reader, "found", "found", "done")
  BY <1>6 DEF T!ReadUser, Ended
<1> QED BY <1>1, <1>2, <1>3, <1>4, <1>5, <1>6 DEF T!Driver

LEMMA PodsStayTyped ==
  ASSUME TopoBounds, T!TypeOK, MadeOfTwo, T!Next
  PROVE  /\ topoPods' \in [T!Names -> T!Pod]
         /\ \A n \in T!Names : topoPods'[n].phase # "none" => workersReady >= 2
<1>1. topoPods \in [T!Names -> T!Pod] /\ workersReady \in 0..Workers
  BY DEF T!TypeOK
<1>2. \A n \in T!Names : topoPods[n].phase # "none" => workersReady >= 2
  BY DEF MadeOfTwo
<1>3. ASSUME topoPods' = topoPods
      PROVE  topoPods' \in [T!Names -> T!Pod]
             /\ (\A n \in T!Names : topoPods'[n].phase # "none" => workersReady >= 2)
  BY <1>1, <1>2, <1>3
<1>4. ASSUME NEW n \in T!Names, NEW p \in {"pending", "ended"}, workersReady >= 2,
             topoPods' = [topoPods EXCEPT ![n].phase = p]
      PROVE  topoPods' \in [T!Names -> T!Pod]
             /\ (\A m \in T!Names : topoPods'[m].phase # "none" => workersReady >= 2)
  <2> DEFINE q == [topoPods[n] EXCEPT !.phase = p]
  <2>1. q \in T!Pod
    BY <1>1 DEF T!Pod
  <2>2. topoPods' = [topoPods EXCEPT ![n] = q]
    BY <1>4
  <2> HIDE DEF q
  <2> QED BY <1>1, <1>4, <2>1, <2>2
<1>5. ASSUME NEW n \in T!Names, Ran(n)
      PROVE  topoPods' \in [T!Names -> T!Pod]
             /\ (\A m \in T!Names : topoPods'[m].phase # "none" => workersReady >= 2)
  <2>1. PICK p \in {"running", "ended"}, w \in T!Ws :
          topoPods' = [topoPods EXCEPT ![n].phase = p, ![n].node = w]
    BY <1>5 DEF Ran
  <2> DEFINE q == [topoPods[n] EXCEPT !.phase = p, !.node = w]
  <2>2. q \in T!Pod
    <3>1. topoPods[n] \in T!Pod /\ w \in 0..Workers
      BY <1>1 DEF T!Ws, TopoBounds
    <3> QED BY <3>1 DEF T!Pod
  <2>3. topoPods' = [topoPods EXCEPT ![n] = q]
    BY <2>1, <1>1 DEF T!Pod
  <2>4. workersReady >= 2
    BY <1>5, <1>2 DEF Ran
  <2> HIDE DEF q
  <2> QED BY <1>1, <2>2, <2>3, <2>4
<1>6. ASSUME NEW n \in T!Names, Spoke(n)
      PROVE  topoPods' \in [T!Names -> T!Pod]
             /\ (\A m \in T!Names : topoPods'[m].phase # "none" => workersReady >= 2)
  <2>1. PICK s \in {"written", "found",
                    "mismatch"} : topoPods' = [topoPods EXCEPT ![n].said = s]
    BY <1>6 DEF Spoke
  <2> DEFINE q == [topoPods[n] EXCEPT !.said = s]
  <2>2. q \in T!Pod
    BY <1>1 DEF T!Pod
  <2>3. topoPods' = [topoPods EXCEPT ![n] = q]
    BY <2>1
  <2>4. workersReady >= 2
    BY <1>6, <1>2 DEF Spoke
  <2> HIDE DEF q
  <2> QED BY <1>1, <2>2, <2>3, <2>4
<1>7. ASSUME topoPc = "create" /\ next <= workersReady /\ Made(<<"serve", next>>)
      PROVE  topoPods' \in [T!Names -> T!Pod]
             /\ (\A m \in T!Names : topoPods'[m].phase # "none" => workersReady >= 2)
  <2>1. next \in T!Ws
    BY <1>7, <1>1 DEF T!TypeOK, T!Ws, TopoBounds
  <2>2. <<"serve", next>> \in T!Names
    BY <2>1, UsersAreTwo
  <2> QED BY <1>7, <1>4, <2>2 DEF Made, MadeOfTwo
<1>8. ASSUME \/ topoPc = "agent" /\ Made(T!Agent)
             \/ topoPc = "writer" /\ Made(T!Writer)
             \/ topoPc = "reader" /\ Made(T!Reader)
      PROVE  topoPods' \in [T!Names -> T!Pod]
             /\ (\A m \in T!Names : topoPods'[m].phase # "none" => workersReady >= 2)
  BY <1>8, <1>4, UsersAreTwo DEF Made, MadeOfTwo
<1>9. ASSUME \/ topoPc = "written" /\ Ended(T!Writer)
             \/ topoPc = "found" /\ Ended(T!Reader)
      PROVE  topoPods' \in [T!Names -> T!Pod]
             /\ (\A m \in T!Names : topoPods'[m].phase # "none" => workersReady >= 2)
  BY <1>9, <1>4, UsersAreTwo DEF Ended, MadeOfTwo
<1> QED
  BY <1>3, <1>5, <1>6, <1>7, <1>8, <1>9, ClusterOnPods, DriverOnPods DEF T!Next

LEMMA TopoTypesStay ==
  ASSUME TopoBounds, T!TypeOK, MadeOfTwo, T!Next
  PROVE  T!TypeOK'
<1>1. topoPods' \in [T!Names -> T!Pod]
  BY PodsStayTyped
<1>2. CASE T!Cluster
  <2>1. UNCHANGED <<T!driver, topoFaults>>
    BY <1>2 DEF T!Cluster
  <2>2. CASE T!Replicate
    BY <1>1, <2>1, <2>2 DEF T!Replicate, T!TypeOK, T!driver
  <2>3. CASE T!LoseClaim
    BY <1>1, <2>1, <2>3 DEF T!LoseClaim, T!Harm, T!TypeOK, T!driver, TopoBounds
  <2>4. ASSUME NEW n \in T!Names, T!RunPod(n) PROVE T!TypeOK'
    BY <1>1, <2>1, <2>4 DEF T!RunPod, T!Harm, T!TypeOK, T!driver, TopoBounds
  <2>5. ASSUME NEW n \in T!Names, T!SayOfClaim(n) PROVE T!TypeOK'
    BY <1>1, <2>1, <2>5 DEF T!SayOfClaim, T!TypeOK, T!driver
  <2> QED BY <1>2, <2>2, <2>3, <2>4, <2>5 DEF T!Cluster
<1> USE DEF T!TypeOK, T!Looks, T!cluster, T!KeepsOthers, T!Fault, T!Goto, TopoBounds, T!Ms,
    T!Ws
<1>3. CASE T!List
  BY <1>3 DEF T!List, T!Line, T!Items
<1>4. CASE T!AskReady
  <2>1. next \in T!Ms /\ next' \in 1..(Masters + 1)
    BY <1>4 DEF T!AskReady
  <2>2. direct' \subseteq T!Ms
    BY <1>4, <2>1 DEF T!AskReady
  <2> QED BY <1>4, <2>1, <2>2 DEF T!AskReady
<1>5. CASE T!AllAsked
  BY <1>5 DEF T!AllAsked, T!Line, T!Items
<1>6. CASE T!WriteMark
  <2>1. has' \subseteq T!Ms
    BY <1>6 DEF T!WriteMark
  <2>2. topoFaults' \in 0..TopoFaults
    BY <1>6 DEF T!WriteMark
  <2>3. /\ topoPc' \in {"read", "workers"}
        /\ topoLines' \in [T!Items -> {"none", "pass", "fail", "skip", "infra"}]
    BY <1>6 DEF T!WriteMark, T!EtcdFails, T!Line, T!Items
  <2> QED BY <1>6, <2>1, <2>2, <2>3 DEF T!WriteMark
<1>7. CASE T!ReadMark
  <2>1. PICK m \in T!ToRead : next' \in {m + 1, next}
    BY <1>7 DEF T!ReadMark
  <2>2. m \in 1..Masters
    BY DEF T!ToRead, T!Rest
  <2>3. next' \in 1..(Masters + 1) \cup 1..(Workers + 1)
    BY <2>1, <2>2
  <2>4. topoFaults' \in 0..TopoFaults
    BY <1>7 DEF T!ReadMark
  <2>5. /\ topoPc' \in {"read", "workers"}
        /\ topoLines' \in [T!Items -> {"none", "pass", "fail", "skip", "infra"}]
    BY <1>7 DEF T!ReadMark, T!EtcdFails, T!Line, T!Items
  <2>6. bad' \in BOOLEAN
    BY <1>7 DEF T!ReadMark
  <2> QED BY <1>7, <2>3, <2>4, <2>5, <2>6 DEF T!ReadMark
<1>8. CASE T!AllRead
  BY <1>8 DEF T!AllRead, T!EtcdFails, T!Line, T!Items
<1>9. CASE T!CountWorkers
  <2>1. topoLines' \in [T!Items -> {"none", "pass", "fail", "skip", "infra"}]
    BY <1>9 DEF T!CountWorkers, T!NoWorkloads
  <2>2. next' \in 1..(Masters + 1)
    BY <1>9 DEF T!CountWorkers
  <2>3. topoPc' \in {"done", "create"}
    BY <1>9 DEF T!CountWorkers, T!NoWorkloads
  <2> QED BY <1>9, <2>1, <2>2, <2>3 DEF T!CountWorkers
<1>10. CASE T!CreateServe
  <2>1. next' \in 1..(Workers + 1)
    BY <1>10 DEF T!CreateServe
  <2>2. topoFaults' \in 0..TopoFaults
    BY <1>10 DEF T!CreateServe
  <2> QED BY <1>1, <1>10, <2>1, <2>2 DEF T!CreateServe
<1>11. CASE T!SeePlaced
  <2>1. next \in T!Ws /\ next' \in 1..(Workers + 1)
    BY <1>11 DEF T!SeePlaced
  <2>2. placed' \subseteq T!Ws
    BY <1>11, <2>1 DEF T!SeePlaced
  <2>3. topoFaults' \in 0..TopoFaults
    BY <1>11 DEF T!SeePlaced
  <2> QED BY <1>11, <2>1, <2>2, <2>3 DEF T!SeePlaced
<1>12. CASE T!AllPlaced
  BY <1>12 DEF T!AllPlaced, T!Line, T!Items
<1>13. CASE T!CreateAgent
  BY <1>1, <1>13 DEF T!CreateAgent, T!CrossFails, T!Line, T!Items
<1>14. CASE T!ReadProbes
  BY <1>14 DEF T!ReadProbes, T!CrossFails, T!Line, T!Items
<1>15. CASE T!JudgeCross
  BY <1>15 DEF T!JudgeCross, T!CrossFails, T!Line, T!Items
<1>16. CASE T!CreateClaim
  BY <1>16 DEF T!CreateClaim, T!ClaimErrs, T!ClaimFails, T!Line, T!Items
<1>17. CASE T!CreateUser(T!Writer, "writer", "written")
            \/ T!CreateUser(T!Reader, "reader", "found")
  <2>1. /\ topoFaults' \in 0..TopoFaults /\ topoPc' \in {"written", "found", "done"}
        /\ topoLines' \in [T!Items -> {"none", "pass", "fail", "skip", "infra"}]
    BY <1>17 DEF T!CreateUser, T!ClaimErrs, T!ClaimFails, T!Line, T!Items
  <2>2. UNCHANGED <<apart, has, reaches, topoClaim, topoHarms, topoLost, full, workersReady,
                    next, direct, bad,
                    placed, probes>>
    BY <1>17 DEF T!CreateUser
  <2> QED BY <1>1, <2>1, <2>2
<1>18. CASE \/ T!ReadUser(T!Writer, "written", "written", "reader")
            \/ T!ReadUser(T!Reader, "found", "found", "done")
  BY <1>1, <1>18 DEF T!ReadUser, T!ClaimFails, T!Line, T!Items
<1> QED BY <1>2, <1>3, <1>4, <1>5, <1>6, <1>7, <1>8, <1>9, <1>10, <1>11, <1>12, <1>13,
    <1>14,
           <1>15, <1>16, <1>17, <1>18 DEF T!Next, T!Driver

-----------------------------------------------------------------------------
(* What the items rest on *)

First == direct \ T!Rest

\* The mark spreads from the first master within its store, and what was read is
\* there.
Spread ==
  /\ \A m \in has : m \in First \/ m \notin apart
  /\ (\E m \in has : m \notin First) => First \cap apart = {}
  /\ topoPc \in {"list", "masters"} => has = {}
  /\ topoPc \in {"write", "read"} => T!Rest # {}
  /\ topoPc = "write" => next = 1
  /\ topoPc = "read" /\ ~bad => \A m \in T!Rest : m < next => m \in has
  /\ topoLines["etcd"] # "none" => topoPc \notin {"list", "masters", "write", "read"}
  /\ T!ReplicatedIsProof

\* A worker that is not in bad has its pod placed; what is said to be open is.
Reached ==
  /\ topoPc = "create" \/ topoPc = "place" => topoLines["schedule"] = "none"
  /\ topoPc = "place" /\ ~bad => 1..(next - 1) \subseteq placed
  /\ topoPc \in {"list", "masters", "write", "read", "workers", "create"} =>
       placed = {} /\ \A i \in {"schedule", "cross"} : topoLines[i] = "none"
  /\ topoLines["schedule"] = "pass" => 1..workersReady \subseteq placed
  /\ \A w \in T!Ws : probes[w] = "open" => w \in reaches
  /\ topoPc \in {"place", "agent", "probe", "cross"} => topoLines["cross"] = "none"
  /\ topoLines["cross"] = "pass" => \A w \in placed \ {1} : probes[w] = "open"

\* The reader is made when the writer's word is known and its pod gone; what was
\* lost, the reader does not find.
Reread ==
  /\ topoPc \notin {"writer", "written", "reader", "found", "done"} =>
       topoClaim = "none" /\ topoPods[T!Writer].phase = "none"
         /\ topoLines["reattach"] = "none"
  /\ topoPc = "writer" => topoPods[T!Writer].phase = "none"
  /\ topoPods[T!Writer].phase = "none" => topoPods[T!Writer].said = "nothing"
  /\ topoPods[T!Reader].phase = "none" => topoPods[T!Reader].said = "nothing"
  /\ topoPc \notin {"found", "done"} => topoPods[T!Reader].phase = "none"
  /\ topoPc \in {"reader", "found"} =>
       topoPods[T!Writer].said = "written" /\ topoPods[T!Writer].phase = "ended"
         /\ topoPods[T!Writer].node = workersReady
  /\ topoPods[T!Reader].phase # "none" => topoPods[T!Writer].said # "nothing"
  /\ topoClaim \in {"whole", "damaged"} => topoPods[T!Writer].said # "nothing"
  /\ topoLost => /\ topoPods[T!Writer].said # "nothing"
                 /\ \/ topoPods[T!Reader].said = "written"
                    \/ topoClaim \in {"empty", "damaged"}
                       /\ topoPods[T!Reader].said \in {"nothing", "mismatch"}
  /\ topoLines["reattach"] = "pass" =>
       /\ topoPc = "done" /\ topoPods[T!Writer].phase = "ended"
          /\ topoPods[T!Reader].phase = "ended"
       /\ topoPods[T!Reader].said = "found"
          /\ topoPods[T!Writer].node # topoPods[T!Reader].node

TopoInv == T!TypeOK /\ MadeOfTwo /\ Spread /\ Reached /\ Reread

-----------------------------------------------------------------------------
(* Where the driver is *)

MastersStep == T!List \/ T!AskReady \/ T!AllAsked \/ T!WriteMark \/ T!ReadMark \/ T!AllRead

WorkersStep ==
  \/ T!CountWorkers \/ T!CreateServe \/ T!SeePlaced \/ T!AllPlaced
  \/ T!CreateAgent \/ T!ReadProbes \/ T!JudgeCross

UsersStep ==
  \/ T!CreateUser(T!Writer, "writer", "written")
     \/ T!ReadUser(T!Writer, "written", "written", "reader")
  \/ T!CreateUser(T!Reader, "reader", "found")
     \/ T!ReadUser(T!Reader, "found", "found", "done")

ClaimStep == T!CreateClaim \/ UsersStep

AtMasters == {"list", "masters", "write", "read"}

AtWorkers == {"workers", "create", "place", "agent", "probe", "cross"}

AtClaim == {"claim", "writer", "written", "reader", "found"}

LEMMA MastersLeave ==
  ASSUME T!TypeOK, MastersStep
  PROVE  /\ UNCHANGED <<apart, topoPods, reaches, topoClaim, topoLost, workersReady, placed,
                        probes>>
         /\ \A i \in {"schedule", "cross", "reattach"} : topoLines'[i] = topoLines[i]
         /\ topoPc \in AtMasters /\ topoPc' \in AtMasters \cup {"workers", "done"}
<1> USE DEF T!TypeOK, T!Looks, T!cluster, T!Goto, T!Line, T!Items, AtMasters
<1>1. CASE T!List \/ T!AskReady \/ T!AllAsked
  BY <1>1 DEF T!List, T!AskReady, T!AllAsked
<1>2. CASE T!WriteMark
  BY <1>2 DEF T!WriteMark, T!EtcdFails
<1>3. CASE T!ReadMark \/ T!AllRead
  BY <1>3 DEF T!ReadMark, T!AllRead, T!EtcdFails
<1> QED BY <1>1, <1>2, <1>3 DEF MastersStep

LEMMA WorkersLeave ==
  ASSUME T!TypeOK, WorkersStep
  PROVE  /\ UNCHANGED <<apart, has, reaches, topoClaim, topoLost, workersReady, direct>>
         /\ topoLines'["etcd"] = topoLines["etcd"]
         /\ topoLines'["reattach"] \in {topoLines["reattach"], "infra", "fail"}
         /\ topoPc \in AtWorkers /\ topoPc' \in AtWorkers \cup {"claim", "done"}
         /\ topoPc' \in AtWorkers \cup {"claim"}
            => topoLines'["reattach"] = topoLines["reattach"]
<1> USE DEF T!TypeOK, T!Looks, T!cluster, T!KeepsOthers, T!Goto, T!Line, T!Items, AtWorkers
<1>1. CASE T!CountWorkers
  BY <1>1 DEF T!CountWorkers, T!NoWorkloads
<1>2. CASE T!CreateServe
  BY <1>2 DEF T!CreateServe
<1>3. CASE T!SeePlaced \/ T!AllPlaced
  BY <1>3 DEF T!SeePlaced, T!AllPlaced
<1>4. CASE T!CreateAgent
  BY <1>4 DEF T!CreateAgent, T!CrossFails
<1>5. CASE T!ReadProbes
  BY <1>5 DEF T!ReadProbes, T!CrossFails
<1>6. CASE T!JudgeCross
  BY <1>6 DEF T!JudgeCross, T!CrossFails
<1> QED BY <1>1, <1>2, <1>3, <1>4, <1>5, <1>6 DEF WorkersStep

LEMMA ClaimLeaves ==
  ASSUME T!TypeOK, ClaimStep
  PROVE  /\ UNCHANGED <<apart, has, reaches, topoLost, workersReady, direct, placed,
                        probes>>
         /\ \A i \in {"etcd", "schedule", "cross"} : topoLines'[i] = topoLines[i]
         /\ topoPc \in AtClaim /\ topoPc' \in AtClaim \cup {"done"}
<1> USE DEF T!TypeOK, T!KeepsOthers, T!Goto, T!Line, T!Items, AtClaim, T!ClaimErrs,
    T!ClaimFails
<1>1. CASE T!CreateClaim
  BY <1>1 DEF T!CreateClaim
<1>2. CASE T!CreateUser(T!Writer, "writer", "written")
           \/ T!CreateUser(T!Reader, "reader", "found")
  BY <1>2 DEF T!CreateUser
<1>3. CASE \/ T!ReadUser(T!Writer, "written", "written", "reader")
           \/ T!ReadUser(T!Reader, "found", "found", "done")
  BY <1>3 DEF T!ReadUser
<1> QED BY <1>1, <1>2, <1>3 DEF ClaimStep, UsersStep

LEMMA ThreeWays ==
  ASSUME T!Next PROVE T!Cluster \/ MastersStep \/ WorkersStep \/ ClaimStep
  BY DEF T!Next, T!Driver, MastersStep, WorkersStep, ClaimStep, UsersStep

LEMMA MadeOfTwoStays ==
  ASSUME TopoBounds, T!TypeOK, MadeOfTwo, T!Next
  PROVE  MadeOfTwo'
<1>1. \A n \in T!Names : topoPods'[n].phase # "none" => workersReady >= 2
  BY PodsStayTyped
<1>2. workersReady' = workersReady
  BY ThreeWays, MastersLeave, WorkersLeave, ClaimLeaves DEF T!Cluster, T!driver
<1>3. topoPc' \in {"create", "place", "agent", "probe", "cross"} \cup AtClaim
      => workersReady >= 2
  <2>1. CASE T!Cluster
    BY <2>1 DEF T!Cluster, T!driver, MadeOfTwo, AtClaim
  <2>2. CASE MastersStep
    BY <2>2, MastersLeave DEF AtMasters, AtClaim
  <2>3. CASE T!CountWorkers
    BY <2>3 DEF T!CountWorkers, T!NoWorkloads, T!Goto, AtClaim
  <2>4. CASE WorkersStep /\ ~T!CountWorkers
    BY <2>4, WorkersLeave DEF WorkersStep, AtWorkers, MadeOfTwo, T!CreateServe, T!SeePlaced,
      T!AllPlaced, T!CreateAgent, T!ReadProbes, T!JudgeCross
  <2>5. CASE ClaimStep
    BY <2>5, ClaimLeaves DEF AtClaim, MadeOfTwo
  <2> QED BY <2>1, <2>2, <2>3, <2>4, <2>5, ThreeWays
<1> QED BY <1>1, <1>2, <1>3 DEF MadeOfTwo, AtClaim

-----------------------------------------------------------------------------
(* The mark *)

LEMMA FirstIsOne ==
  ASSUME TopoBounds, T!TypeOK, NEW a \in First, NEW b \in First PROVE a = b
<1>1. a \in Nat /\ b \in Nat /\ a \in direct /\ b \in direct
  BY DEF First, T!TypeOK, T!Ms, TopoBounds
<1>2. ~(a < b) /\ ~(b < a)
  BY <1>1 DEF First, T!Rest
<1> QED BY <1>1, <1>2

LEMMA TwoHaveARest ==
  ASSUME TopoBounds, T!TypeOK, T!Rest = {} PROVE Cardinality(direct) < 2
<1>1. CASE direct = {}
  BY <1>1, FS_EmptySet
<1>2. CASE direct # {}
  <2>1. PICK a : a \in direct
    BY <1>2
  <2>2. ASSUME NEW b \in direct PROVE b = a
    BY <2>1, <2>2, FirstIsOne DEF First
  <2>3. direct = {a}
    BY <2>1, <2>2
  <2>4. Cardinality({a}) = 1
    BY FS_Singleton, Zenon
  <2> QED BY <2>3, <2>4
<1> QED BY <1>1, <1>2

LEMMA SpreadStays ==
  ASSUME TopoBounds, T!TypeOK, Spread, T!Next
  PROVE  Spread'
<1> USE DEF T!ReplicatedIsProof
<1>1. CASE T!Cluster
  <2>1. UNCHANGED <<T!driver, topoFaults>>
    BY <1>1 DEF T!Cluster
  <2>2. CASE UNCHANGED <<apart, has>>
    BY <2>1, <2>2 DEF Spread, First, T!Rest, T!driver
  <2>3. CASE T!Replicate
    <3>1. PICK m \in direct \ has, w \in has : w \notin apart /\ m \notin apart
               /\ has' = has \cup {m}
      BY <2>3 DEF T!Replicate
    <3>2. UNCHANGED <<apart, direct, topoPc, bad, next, topoLines>> /\ First' = First
          /\ T!Rest' = T!Rest
      BY <2>1, <2>3 DEF T!Replicate, T!driver, First, T!Rest
    <3>3. First \cap apart = {} \/ \A x \in has' : x \in First
      <4>1. CASE w \in First
        BY <4>1, <3>1, FirstIsOne
      <4>2. CASE w \notin First
        BY <4>2 DEF Spread
      <4> QED BY <4>1, <4>2
    <3>4. \A x \in has' : x \in First \/ x \notin apart
      BY <3>1 DEF Spread
    <3>5. topoPc \notin {"list", "masters"}
      BY <3>1 DEF Spread
    <3> QED BY <3>1, <3>2, <3>3, <3>4, <3>5 DEF Spread
  <2> QED BY <1>1, <2>2, <2>3 DEF T!Cluster, T!LoseClaim, T!RunPod, T!SayOfClaim
<1>2. CASE WorkersStep \/ ClaimStep
  <2>1. /\ UNCHANGED <<apart, has, direct>> /\ topoLines'["etcd"] = topoLines["etcd"]
        /\ topoPc' \notin AtMasters
    BY <1>2, WorkersLeave, ClaimLeaves DEF AtWorkers, AtClaim, AtMasters
  <2> QED BY <2>1 DEF Spread, First, T!Rest, AtMasters
<1> USE DEF T!Looks, T!cluster, T!Goto, T!Line
<1>3. CASE T!List
  BY <1>3 DEF T!List, Spread, First, T!Rest, T!TypeOK, T!Items
<1>4. CASE T!AskReady
  BY <1>4 DEF T!AskReady, Spread
<1>5. CASE T!AllAsked
  <2>1. topoPc' = "write" => T!Rest # {}
    BY <1>5, TwoHaveARest DEF T!AllAsked, T!Cardinality, Cardinality
  <2>2. /\ UNCHANGED <<apart, has, direct, bad>> /\ next' = 1
        /\ topoPc = "masters" /\ topoPc' \in {"workers", "write"}
    BY <1>5 DEF T!AllAsked
  <2>3. topoLines'["etcd"] # "pass" /\ (topoLines'["etcd"] # "none" => topoPc' = "workers")
    BY <1>5 DEF T!AllAsked, Spread, T!TypeOK, T!Items
  <2> QED BY <2>1, <2>2, <2>3 DEF Spread, First, T!Rest
<1>6. CASE T!WriteMark
  <2>1. PICK f \in First : has' \subseteq {f}
    BY <1>6 DEF T!WriteMark, First
  <2>2. UNCHANGED <<apart, direct, next>> /\ topoPc = "write"
        /\ topoPc' \in {"workers", "read"}
    BY <1>6 DEF T!WriteMark, T!EtcdFails
  <2>3. First' = First /\ T!Rest' = T!Rest
    BY <2>2 DEF First, T!Rest
  <2>4. topoLines'["etcd"] # "pass" /\ (topoLines'["etcd"] # "none" => topoPc' = "workers")
    BY <1>6 DEF T!WriteMark, T!EtcdFails, Spread, T!TypeOK, T!Items
  <2>5. topoPc' = "read" => T!Rest # {}
    BY <2>2 DEF Spread
  <2>6. \A m \in T!Rest : ~(m < next)
    <3>1. next = 1
      BY <2>2 DEF Spread
    <3> QED BY <3>1 DEF T!Rest, T!TypeOK, T!Ms, TopoBounds
  <2> QED BY <2>1, <2>2, <2>3, <2>4, <2>5, <2>6 DEF Spread
<1>7. CASE T!ReadMark
  <2>1. UNCHANGED <<apart, has, direct>> /\ topoPc = "read"
        /\ topoPc' \in {"workers", "read"}
    BY <1>7 DEF T!ReadMark, T!EtcdFails
  <2>2. First' = First /\ T!Rest' = T!Rest
    BY <2>1 DEF First, T!Rest
  <2>3. topoLines'["etcd"] # "pass" /\ (topoLines'["etcd"] # "none" => topoPc' = "workers")
    BY <1>7 DEF T!ReadMark, T!EtcdFails, Spread, T!TypeOK, T!Items
  <2>4. topoPc' = "read" /\ ~bad' => \A m \in T!Rest : m < next' => m \in has
    <3>1. SUFFICES ASSUME topoPc' = "read", ~bad', NEW k \in T!Rest, k < next'
                   PROVE  k \in has
      OBVIOUS
    <3>2. PICK m \in T!ToRead : /\ \A x \in T!ToRead : m <= x
                                /\ m \in has /\ next' = m + 1 /\ bad' = bad
      BY <1>7, <3>1 DEF T!ReadMark, T!EtcdFails
    <3>3. k \in Nat /\ m \in Nat /\ next \in Nat
      BY DEF T!ToRead, T!Rest, T!TypeOK, T!Ms, TopoBounds
    <3>4. CASE k \in T!ToRead
      BY <3>1, <3>2, <3>3, <3>4
    <3>5. CASE k \notin T!ToRead
      <4>1. k < next
        BY <3>3, <3>5 DEF T!ToRead
      <4> QED BY <3>1, <3>2, <4>1, <2>1 DEF Spread
    <3> QED BY <3>4, <3>5
  <2> QED BY <2>1, <2>2, <2>3, <2>4 DEF Spread
<1>8. CASE T!AllRead
  <2>1. /\ UNCHANGED <<apart, has, direct>> /\ topoPc = "read" /\ topoPc' = "workers"
        /\ topoLines'["etcd"] = "pass" => ~bad
    BY <1>8 DEF T!AllRead, T!EtcdFails, T!TypeOK, T!Items
  <2>2. First' = First /\ T!Rest' = T!Rest
    BY <2>1 DEF First, T!Rest
  <2>3. ASSUME ~bad PROVE direct \cap apart = {}
    <3>1. \A m \in T!Rest : m \in has
      <4>1. \A m \in T!Rest : m \in Nat /\ next \in Nat
        BY DEF T!Rest, T!TypeOK, T!Ms, TopoBounds
      <4> QED BY <1>8, <2>3, <4>1 DEF T!AllRead, T!ToRead, Spread
    <3>2. PICK m : m \in T!Rest
      BY <2>1 DEF Spread
    <3>3. First \cap apart = {}
      BY <3>1, <3>2 DEF Spread, First
    <3>4. T!Rest \cap apart = {}
      BY <3>1 DEF Spread, First
    <3> QED BY <3>3, <3>4 DEF First
  <2> QED BY <2>1, <2>2, <2>3 DEF Spread
<1> QED BY <1>1, <1>2, <1>3, <1>4, <1>5, <1>6, <1>7, <1>8, ThreeWays DEF MastersStep

-----------------------------------------------------------------------------
(* Placed and reached *)

LEMMA ReachedStays ==
  ASSUME TopoBounds, T!TypeOK, Reached, T!Next
  PROVE  Reached'
<1>1. CASE T!Cluster
  <2>1. UNCHANGED <<T!driver, reaches>>
    BY <1>1 DEF T!Cluster, T!Replicate, T!LoseClaim, T!RunPod, T!SayOfClaim
  <2> QED BY <2>1 DEF Reached, T!driver
<1>2. CASE MastersStep
  BY <1>2, MastersLeave DEF Reached, AtMasters
<1>3. CASE ClaimStep
  BY <1>3, ClaimLeaves DEF Reached, AtClaim
<1> USE DEF T!Looks, T!cluster, T!KeepsOthers, T!Goto, T!Line, T!TypeOK, T!Items
<1>4. CASE T!CountWorkers
  <2>1. UNCHANGED <<workersReady, placed, probes, reaches>> /\ topoPc = "workers"
        /\ topoPc' \in {"done", "create"}
    BY <1>4 DEF T!CountWorkers, T!NoWorkloads
  <2>2. \A i \in {"schedule", "cross"} : topoLines'[i] # "pass"
        /\ (topoPc' = "create" => topoLines'[i] = "none")
    BY <1>4 DEF T!CountWorkers, T!NoWorkloads, Reached
  <2> QED BY <2>1, <2>2 DEF Reached
<1>5. CASE T!CreateServe
  <2>1. /\ UNCHANGED <<workersReady, placed, probes, reaches, topoLines>>
           /\ topoPc = "create"
        /\ topoPc' = "create" \/ (topoPc' = "place" /\ next' = 1)
    BY <1>5 DEF T!CreateServe
  <2> QED BY <2>1 DEF Reached
<1>6. CASE T!SeePlaced
  <2>1. UNCHANGED <<workersReady, probes, reaches, topoLines, topoPc>>
        /\ topoPc = "place" /\ next' = next + 1
    BY <1>6 DEF T!SeePlaced
  <2>2. (placed' = placed \cup {next} /\ bad' = bad) \/ (bad' = TRUE /\ placed' = placed)
    BY <1>6 DEF T!SeePlaced
  <2>3. ~bad' => 1..(next' - 1) \subseteq placed'
    BY <2>1, <2>2 DEF Reached, TopoBounds
  <2> QED BY <2>1, <2>3 DEF Reached
<1>7. CASE T!AllPlaced
  <2>1. UNCHANGED <<workersReady, placed, probes, reaches>> /\ topoPc = "place"
        /\ topoPc' = "agent" /\ next > workersReady
    BY <1>7 DEF T!AllPlaced
  <2>2. topoLines'["cross"] = topoLines["cross"]
        /\ (topoLines'["schedule"] = "pass" => ~bad)
    BY <1>7 DEF T!AllPlaced
  <2>3. ~bad => 1..workersReady \subseteq placed
    BY <2>1 DEF Reached, TopoBounds
  <2> QED BY <2>1, <2>2, <2>3 DEF Reached
<1>8. CASE T!CreateAgent
  <2>1. UNCHANGED <<workersReady, placed, probes, reaches>> /\ topoPc = "agent"
        /\ topoPc' \in {"probe", "claim"}
    BY <1>8 DEF T!CreateAgent, T!CrossFails
  <2>2. /\ topoLines'["schedule"] = topoLines["schedule"] /\ topoLines'["cross"] # "pass"
        /\ topoPc' = "probe" => topoLines'["cross"] = "none"
    BY <1>8 DEF T!CreateAgent, T!CrossFails, Reached
  <2> QED BY <2>1, <2>2 DEF Reached
<1>9. CASE T!ReadProbes
  <2>1. UNCHANGED <<workersReady, placed, reaches>> /\ topoPc = "probe"
        /\ topoPc' \in {"cross", "claim"}
    BY <1>9 DEF T!ReadProbes, T!CrossFails
  <2>2. /\ topoLines'["schedule"] = topoLines["schedule"] /\ topoLines'["cross"] # "pass"
        /\ topoPc' = "cross" => topoLines'["cross"] = "none"
    BY <1>9 DEF T!ReadProbes, T!CrossFails, Reached
  <2>3. \A w \in T!Ws : probes'[w] = "open" => w \in reaches
    BY <1>9 DEF T!ReadProbes, Reached
  <2> QED BY <2>1, <2>2, <2>3 DEF Reached
<1>10. CASE T!JudgeCross
  <2>1. UNCHANGED <<workersReady, placed, probes, reaches>> /\ topoPc = "cross"
        /\ topoPc' = "claim"
    BY <1>10 DEF T!JudgeCross, T!CrossFails
  <2>2. topoLines'["schedule"] = topoLines["schedule"]
        /\ (topoLines'["cross"] = "pass" => T!AllOpen)
    BY <1>10 DEF T!JudgeCross, T!CrossFails
  <2> QED BY <2>1, <2>2 DEF Reached, T!AllOpen, T!Others
<1> QED BY <1>1, <1>2, <1>3, <1>4, <1>5, <1>6, <1>7, <1>8, <1>9, <1>10, ThreeWays
           DEF WorkersStep

LEMMA ReachedIsProof ==
  ASSUME TopoBounds, T!TypeOK, Reached PROVE T!CrossIsProof
<1> SUFFICES ASSUME topoLines["schedule"] = "pass", topoLines["cross"] = "pass",
                    NEW w \in 2..workersReady
             PROVE  w \in reaches
  BY DEF T!CrossIsProof
<1>1. w \in placed \ {1} /\ w \in T!Ws
  BY DEF Reached, T!TypeOK, T!Ws, TopoBounds
<1> QED BY <1>1 DEF Reached

-----------------------------------------------------------------------------
(* The claim *)

TheWriter == topoPods[T!Writer]

TheReader == topoPods[T!Reader]

\* What a step leaves of the two.
LEMMA UsersAreOthers ==
  ASSUME TopoBounds, T!TypeOK, NEW n \in T!Names \ {T!Writer, T!Reader}, Made(n) \/ Ran(n)
  PROVE  TheWriter' = TheWriter /\ TheReader' = TheReader
<1>1. topoPods \in [T!Names -> T!Pod] /\ T!Writer \in T!Names /\ T!Reader \in T!Names
  BY UsersAreTwo DEF T!TypeOK
<1>2. CASE Made(n)
  BY <1>1, <1>2 DEF Made, TheWriter, TheReader
<1>3. CASE Ran(n)
  <2>1. PICK p \in {"running", "ended"}, w \in T!Ws :
          topoPods' = [topoPods EXCEPT ![n].phase = p, ![n].node = w]
    BY <1>3 DEF Ran
  <2> QED BY <1>1, <2>1 DEF TheWriter, TheReader
<1> QED BY <1>2, <1>3

LEMMA UserRuns ==
  ASSUME TopoBounds, T!TypeOK, NEW n \in {T!Writer, T!Reader}, Ran(n)
  PROVE  /\ topoPods'[n].phase # "none" /\ topoPods'[n].said = topoPods[n].said
            /\ topoPods[n].phase = "pending"
         /\ \A o \in {T!Writer, T!Reader} \ {n} : topoPods'[o] = topoPods[o]
<1>1. topoPods \in [T!Names -> T!Pod] /\ {T!Writer, T!Reader} \subseteq T!Names
  BY UsersAreTwo DEF T!TypeOK
<1>2. PICK p \in {"running", "ended"}, w \in T!Ws :
        topoPods' = [topoPods EXCEPT ![n].phase = p, ![n].node = w]
  BY DEF Ran
<1>3. topoPods'[n].phase = p /\ topoPods'[n].said = topoPods[n].said
  BY <1>1, <1>2 DEF T!Pod
<1> QED BY <1>1, <1>2, <1>3 DEF Ran

LEMMA UserSays ==
  ASSUME TopoBounds, T!TypeOK, NEW n \in {T!Writer, T!Reader}, T!SayOfClaim(n)
  PROVE  /\ topoPods'[n].phase = "running" /\ topoPods[n].phase = "running"
         /\ topoPods[n].said = "nothing" /\ topoPods'[n].said # "nothing"
         /\ topoPods'[n].node = topoPods[n].node
         /\ \A o \in {T!Writer, T!Reader} \ {n} : topoPods'[o] = topoPods[o]
         /\ topoClaim = "empty" => topoPods'[n].said = "written" /\ topoClaim' = "whole"
         /\ topoClaim = "damaged" => topoPods'[n].said = "mismatch"
            /\ topoClaim' = "damaged"
         /\ topoClaim = "whole" => topoClaim' = "whole"
         /\ topoClaim # "none" /\ UNCHANGED topoLost
<1>1. topoPods \in [T!Names -> T!Pod] /\ {T!Writer, T!Reader} \subseteq T!Names
  BY UsersAreTwo DEF T!TypeOK
<1> DEFINE s == CASE topoClaim = "empty" -> "written"
                  [] topoClaim = "whole" -> "found"
                  [] OTHER -> "mismatch"
<1>2. /\ topoPods' = [topoPods EXCEPT ![n].said = s] /\ topoPods[n].phase = "running"
      /\ topoPods[n].said = "nothing" /\ topoClaim # "none" /\ UNCHANGED topoLost
      /\ topoClaim' = IF topoClaim = "empty" THEN "whole" ELSE topoClaim
  BY DEF T!SayOfClaim
<1>3. /\ topoClaim = "empty" => s = "written"
      /\ topoClaim = "damaged" => s = "mismatch"
      /\ s # "nothing"
  OBVIOUS
<1> HIDE DEF s
<1>4. topoPods'[n].said = s /\ topoPods'[n].phase = topoPods[n].phase
      /\ topoPods'[n].node = topoPods[n].node
  BY <1>1, <1>2 DEF T!Pod
<1>5. \A o \in {T!Writer, T!Reader} \ {n} : topoPods'[o] = topoPods[o]
  BY <1>1, <1>2
<1> QED BY <1>2, <1>3, <1>4, <1>5

LEMMA RereadStaysInCluster ==
  ASSUME TopoBounds, T!TypeOK, MadeOfTwo, Reread, T!Cluster
  PROVE  Reread'
<1>1. UNCHANGED <<T!driver, topoFaults>>
  BY DEF T!Cluster
<1>2. CASE T!Replicate
  BY <1>1, <1>2 DEF T!Replicate, Reread, T!driver
<1>3. CASE T!LoseClaim
  BY <1>1, <1>3 DEF T!LoseClaim, Reread, T!driver
<1>4. ASSUME NEW n \in T!Names, T!RunPod(n), Ran(n) PROVE Reread'
  <2>1. UNCHANGED <<topoClaim, topoLost, topoPc, topoLines, workersReady>>
    BY <1>1, <1>4 DEF T!RunPod, T!driver
  <2>2. CASE n \notin {T!Writer, T!Reader}
    BY <1>4, <2>1, <2>2, UsersAreOthers DEF Reread, TheWriter, TheReader
  <2>3. CASE n = T!Writer
    BY <1>4, <2>1, <2>3, UserRuns, UsersAreTwo DEF Reread
  <2>4. CASE n = T!Reader
    BY <1>4, <2>1, <2>4, UserRuns, UsersAreTwo DEF Reread
  <2> QED BY <2>2, <2>3, <2>4
<1>5. ASSUME T!SayOfClaim(T!Writer) PROVE Reread'
  BY <1>1, <1>5, UserSays, UsersAreTwo DEF Reread, T!driver, T!TypeOK
<1>6. ASSUME T!SayOfClaim(T!Reader) PROVE Reread'
  BY <1>1, <1>6, UserSays, UsersAreTwo DEF Reread, T!driver, T!TypeOK
<1> QED BY <1>2, <1>3, <1>4, <1>5, <1>6, RunsAsPinned DEF T!Cluster, T!SayOfClaim

LEMMA RereadStays ==
  ASSUME TopoBounds, T!TypeOK, MadeOfTwo, Reread, T!Next
  PROVE  Reread'
<1>1. CASE T!Cluster
  BY <1>1, RereadStaysInCluster
<1>2. CASE MastersStep
  BY <1>2, MastersLeave DEF Reread, AtMasters
<1>3. CASE WorkersStep
  <2>1. TheWriter' = TheWriter /\ TheReader' = TheReader
    <3>1. topoPc \in AtWorkers /\ WorkersStep
      BY <1>3, WorkersLeave
    <3>2. /\ topoPods' = topoPods \/ Made(T!Agent)
             \/ (next <= workersReady /\ Made(<<"serve", next>>))
      BY <3>1, DriverOnPods DEF WorkersStep, T!Driver, AtWorkers
    <3>3. ASSUME next <= workersReady
          PROVE  <<"serve", next>> \in T!Names \ {T!Writer, T!Reader}
      <4>1. next \in T!Ws
        BY <3>3 DEF T!TypeOK, TopoBounds, T!Ws
      <4> QED BY <4>1, UsersAreTwo
    <3> QED BY <3>2, <3>3, UsersAreOthers, UsersAreTwo DEF TheWriter, TheReader
  <2> QED BY <1>3, <2>1, WorkersLeave DEF Reread, AtWorkers, TheWriter, TheReader
<1> USE DEF T!Goto, T!Line, T!Items, T!ClaimErrs, T!ClaimFails
<1>4. topoPods \in [T!Names -> T!Pod] /\ {T!Writer, T!Reader} \subseteq T!Names
      /\ T!Writer # T!Reader
  BY UsersAreTwo DEF T!TypeOK
<1>5. CASE T!CreateClaim
  <2>1. /\ UNCHANGED <<topoPods, topoLost, workersReady>>
           /\ topoClaim' \in {"none", "empty"} /\ topoPc = "claim"
        /\ topoPc' \in {"writer", "done"} /\ topoLines'["reattach"] # "pass"
    BY <1>5 DEF T!CreateClaim, Reread, T!TypeOK
  <2> QED BY <2>1 DEF Reread
<1>6. CASE T!CreateUser(T!Writer, "writer", "written")
  <2>1. /\ UNCHANGED <<topoClaim, topoLost, workersReady>> /\ topoPc = "writer"
           /\ topoPc' \in {"written", "done"}
        /\ topoLines'["reattach"] = "pass" => topoLines["reattach"] = "pass"
    BY <1>6 DEF T!CreateUser, T!KeepsOthers, T!TypeOK
  <2>2. topoPods'[T!Reader] = topoPods[T!Reader]
        /\ topoPods'[T!Writer].said = topoPods[T!Writer].said
    BY <1>4, <1>6 DEF T!CreateUser, T!Make, T!Pod
  <2>3. topoPods[T!Writer].phase = "none" /\ topoPods[T!Reader].phase = "none"
    BY <2>1 DEF Reread
  <2> QED BY <2>1, <2>2, <2>3 DEF Reread
<1>7. CASE T!CreateUser(T!Reader, "reader", "found")
  <2>1. /\ UNCHANGED <<topoClaim, topoLost, workersReady>> /\ topoPc = "reader"
           /\ topoPc' \in {"found", "done"}
        /\ topoLines'["reattach"] = "pass" => topoLines["reattach"] = "pass"
    BY <1>7 DEF T!CreateUser, T!KeepsOthers, T!TypeOK
  <2>2. topoPods'[T!Writer] = topoPods[T!Writer]
        /\ topoPods'[T!Reader].said = topoPods[T!Reader].said
    BY <1>4, <1>7 DEF T!CreateUser, T!Make, T!Pod
  <2> QED BY <2>1, <2>2 DEF Reread
<1>8. CASE T!ReadUser(T!Writer, "written", "written", "reader")
  <2>1. /\ UNCHANGED <<topoClaim, topoLost, workersReady>> /\ topoPc = "written"
           /\ topoPc' \in {"reader", "done"}
        /\ topoLines'["reattach"] = "pass" => topoLines["reattach"] = "pass"
        /\ topoPc' = "reader" => topoPods[T!Writer].said = "written"
           /\ topoPods[T!Writer].node = T!Pinned(T!Writer)
    BY <1>8 DEF T!ReadUser, T!KeepsOthers, T!OnItsNode, T!TypeOK
  <2>2. /\ topoPods'[T!Reader] = topoPods[T!Reader]
           /\ topoPods'[T!Writer].said = topoPods[T!Writer].said
        /\ topoPods'[T!Writer].phase = "ended"
           /\ topoPods'[T!Writer].node = topoPods[T!Writer].node
    BY <1>4, <1>8 DEF T!ReadUser, T!Pod
  <2>3. T!Pinned(T!Writer) = workersReady
    BY UsersAreTwo DEF T!Pinned
  <2> QED BY <2>1, <2>2, <2>3 DEF Reread
<1>9. CASE T!ReadUser(T!Reader, "found", "found", "done")
  <2>1. /\ UNCHANGED <<topoClaim, topoLost, workersReady>> /\ topoPc = "found"
           /\ topoPc' = "done"
        /\ topoLines["reattach"] # "pass" /\ topoLines'["reattach"] = "pass" =>
             topoPods[T!Reader].said = "found"
               /\ topoPods[T!Reader].node = T!Pinned(T!Reader)
    BY <1>9 DEF T!ReadUser, T!KeepsOthers, T!OnItsNode, T!TypeOK
  <2>2. /\ topoPods'[T!Writer] = topoPods[T!Writer]
           /\ topoPods'[T!Reader].said = topoPods[T!Reader].said
        /\ topoPods'[T!Reader].phase = "ended"
           /\ topoPods'[T!Reader].node = topoPods[T!Reader].node
    BY <1>4, <1>9 DEF T!ReadUser, T!Pod
  <2>3. T!Pinned(T!Reader) = IF workersReady > 2 THEN 2 ELSE 1
    BY UsersAreTwo DEF T!Pinned
  <2>4. workersReady >= 2 /\ workersReady \in Nat
    BY <2>1 DEF MadeOfTwo, T!TypeOK, TopoBounds
  <2>5. workersReady # T!Pinned(T!Reader)
    BY <2>3, <2>4
  <2>6. topoLines["reattach"] # "pass" /\ topoPods[T!Writer].node = workersReady
        /\ topoPods[T!Writer].phase = "ended"
    BY <2>1 DEF Reread
  <2> QED BY <2>1, <2>2, <2>5, <2>6 DEF Reread
<1> QED BY <1>1, <1>2, <1>3, <1>5, <1>6, <1>7, <1>8, <1>9, ThreeWays DEF ClaimStep,
                                                                         UsersStep

-----------------------------------------------------------------------------

LEMMA TopoInitially == ASSUME TopoBounds, T!Init PROVE TopoInv
<1> USE DEF TopoBounds, T!Init
<1>1. T!TypeOK
  <2>1. topoPods \in [T!Names -> T!Pod]
        /\ topoLines \in [T!Items -> {"none", "pass", "fail", "skip", "infra"}]
    BY DEF T!Pod
  <2>2. full \in BOOLEAN /\ apart \subseteq T!Ms /\ reaches \subseteq T!Ws
    BY DEF T!Ms, T!Ws
  <2>3. probes \in [T!Ws -> {"untold", "open", "other"}] /\ next \in 1..(Masters + 1)
    OBVIOUS
  <2>4. topoLost \in BOOLEAN /\ bad \in BOOLEAN
    BY Zenon
  <2>5. /\ has \subseteq T!Ms /\ direct \subseteq T!Ms /\ placed \subseteq T!Ws
        /\ topoFaults \in 0..TopoFaults /\ topoHarms \in 0..TopoHarms
           /\ workersReady \in 0..Workers
        /\ topoClaim = "none" /\ topoPc = "list"
    OBVIOUS
  <2> HIDE DEF T!Init
  <2> QED BY <2>1, <2>2, <2>3, <2>4, <2>5 DEF T!TypeOK
<1>2. MadeOfTwo
  BY DEF MadeOfTwo
<1>3. Spread
  BY DEF Spread, T!ReplicatedIsProof, T!Items
<1>4. Reached
  BY DEF Reached, T!Items
<1>5. Reread
  BY UsersAreTwo DEF Reread, T!Items
<1> QED BY <1>1, <1>2, <1>3, <1>4, <1>5 DEF TopoInv

LEMMA TopoSteps == ASSUME TopoBounds, TopoInv, [T!Next]_(T!vars) PROVE TopoInv'
<1>1. CASE T!Next
  BY <1>1, TopoTypesStay, MadeOfTwoStays, SpreadStays, ReachedStays, RereadStays DEF TopoInv
<1>2. CASE UNCHANGED T!vars
  BY <1>2 DEF T!vars, T!cluster, T!driver, TopoInv, T!TypeOK, MadeOfTwo, Spread, First,
              T!Rest,
    T!ReplicatedIsProof, Reached, Reread
<1> QED BY <1>1, <1>2

LEMMA TopoProof ==
  ASSUME TopoBounds, TopoInv
  PROVE  T!ReplicatedIsProof /\ T!CrossIsProof /\ T!ReattachIsProof
<1>1. T!ReattachIsProof
  BY DEF TopoInv, Reread, T!ReattachIsProof
<1> QED BY <1>1, ReachedIsProof DEF TopoInv, Spread

-----------------------------------------------------------------------------
(* The network of the medium suite: the lemmas of Isolation's proofs are    *)
(* about the same definitions with the same variables.                      *)

AskedP == INSTANCE IsolationProofs WITH
  Faults <- NetFaults, Harms <- 0, faults <- netFaults, harms <- netHarms,
  pc <- netPc, lines <- netLines

HarmedP == INSTANCE IsolationProofs WITH
  Faults <- 0, Harms <- NetHarms, faults <- netFaults, harms <- netHarms,
  pc <- netPc, lines <- netLines

LEMMA AskedIsTheSame ==
  /\ Asked!Init <=> AskedP!Init
  /\ [Asked!Next]_(Asked!vars) <=> [AskedP!Next]_(AskedP!vars)
  /\ Asked!TypeOK <=> AskedP!TypeOK
  /\ Asked!PassIsThePolicys <=> AskedP!PassIsThePolicys
  /\ Asked!FailIsThePolicys <=> AskedP!FailIsThePolicys
  /\ Asked!LeakIsTold <=> AskedP!LeakIsTold
  /\ Asked!EveryPairIsTold <=> AskedP!EveryPairIsTold
<1>1. Asked!Init <=> AskedP!Init
  BY DEF Asked!Init, AskedP!Init, Asked!Members, AskedP!Members, Asked!Outside,
         AskedP!Outside, Asked!Froms, AskedP!Froms, Asked!Tos, AskedP!Tos,
         Asked!Path, AskedP!Path, Asked!Paths, AskedP!Paths, Asked!Inner,
         AskedP!Inner, Asked!Crossing, AskedP!Crossing
<1>2. [Asked!Next]_(Asked!vars) <=> [AskedP!Next]_(AskedP!vars)
  BY DEF Asked!Members, AskedP!Members, Asked!Outside, AskedP!Outside,
         Asked!Froms, AskedP!Froms, Asked!Tos, AskedP!Tos, Asked!Path,
         AskedP!Path, Asked!Paths, AskedP!Paths, Asked!Inner, AskedP!Inner,
         Asked!Crossing, AskedP!Crossing, Asked!Way, AskedP!Way, Asked!cluster,
         AskedP!cluster, Asked!driver, AskedP!driver, Asked!vars, AskedP!vars,
         Asked!Networks, AskedP!Networks, Asked!ClusterStep,
         AskedP!ClusterStep, Asked!Harm, AskedP!Harm, Asked!ComeUp,
         AskedP!ComeUp, Asked!Enforce, AskedP!Enforce, Asked!GoWrong,
         AskedP!GoWrong, Asked!Cluster, AskedP!Cluster, Asked!Fault,
         AskedP!Fault, Asked!Goto, AskedP!Goto, Asked!Say, AskedP!Say,
         Asked!Is, AskedP!Is, Asked!Looks, AskedP!Looks, Asked!Start,
         AskedP!Start, Asked!TimeIsUp, AskedP!TimeIsUp, Asked!Waits,
         AskedP!Waits, Asked!Down, AskedP!Down, Asked!Told, AskedP!Told,
         Asked!SeeUp, AskedP!SeeUp, Asked!GiveUp, AskedP!GiveUp, Asked!Miss,
         AskedP!Miss, Asked!Wait, AskedP!Wait, Asked!Pass, AskedP!Pass,
         Asked!From, AskedP!From, Asked!Finding, AskedP!Finding, Asked!Record,
         AskedP!Record, Asked!Loses, AskedP!Loses, Asked!ProbeLost,
         AskedP!ProbeLost, Asked!AllTold, AskedP!AllTold, Asked!LineCut,
         AskedP!LineCut, Asked!Probing, AskedP!Probing, Asked!ProbeFromAgent,
         AskedP!ProbeFromAgent, Asked!ProbeFromVms, AskedP!ProbeFromVms,
         Asked!AgentFails, AskedP!AgentFails, Asked!Inbound, AskedP!Inbound,
         Asked!NodeIn, AskedP!NodeIn, Asked!Silent, AskedP!Silent,
         Asked!Broken, AskedP!Broken, Asked!JudgeControl, AskedP!JudgeControl,
         Asked!CreatePolicy, AskedP!CreatePolicy, Asked!WaitEnforced,
         AskedP!WaitEnforced, Asked!ToldOf, AskedP!ToldOf, Asked!Meaningful,
         AskedP!Meaningful, Asked!Judged, AskedP!Judged, Asked!Reached,
         AskedP!Reached, Asked!Leaks, AskedP!Leaks, Asked!Border,
         AskedP!Border, Asked!Inside, AskedP!Inside, Asked!LinesFromInside,
         AskedP!LinesFromInside, Asked!LinesOfSilent, AskedP!LinesOfSilent,
         Asked!LinesFromDriver, AskedP!LinesFromDriver, Asked!LinesFromNode,
         AskedP!LinesFromNode, Asked!JudgeIsolated, AskedP!JudgeIsolated,
         Asked!Driver, AskedP!Driver, Asked!Next, AskedP!Next
<1>3. Asked!TypeOK <=> AskedP!TypeOK
  BY DEF Asked!TypeOK, AskedP!TypeOK, Asked!Line, AskedP!Line, Asked!Results,
         AskedP!Results, Asked!Verdicts, AskedP!Verdicts, Asked!Members,
         AskedP!Members, Asked!Outside, AskedP!Outside, Asked!Froms,
         AskedP!Froms, Asked!Tos, AskedP!Tos, Asked!Path, AskedP!Path,
         Asked!Paths, AskedP!Paths, Asked!Inner, AskedP!Inner, Asked!Crossing,
         AskedP!Crossing
<1>4. /\ Asked!PassIsThePolicys <=> AskedP!PassIsThePolicys
      /\ Asked!FailIsThePolicys <=> AskedP!FailIsThePolicys
      /\ Asked!LeakIsTold <=> AskedP!LeakIsTold
      /\ Asked!EveryPairIsTold <=> AskedP!EveryPairIsTold
  BY DEF Asked!PassIsThePolicys, AskedP!PassIsThePolicys,
         Asked!FailIsThePolicys, AskedP!FailIsThePolicys, Asked!LeakIsTold,
         AskedP!LeakIsTold, Asked!EveryPairIsTold, AskedP!EveryPairIsTold,
         Asked!Is, AskedP!Is, Asked!Members, AskedP!Members, Asked!Outside,
         AskedP!Outside, Asked!Froms, AskedP!Froms, Asked!Tos, AskedP!Tos,
         Asked!Path, AskedP!Path, Asked!Paths, AskedP!Paths, Asked!Inner,
         AskedP!Inner, Asked!Crossing, AskedP!Crossing
<1> QED BY <1>1, <1>2, <1>3, <1>4

LEMMA HarmedIsTheSame ==
  /\ Harmed!Init <=> HarmedP!Init
  /\ [Harmed!Next]_(Harmed!vars) <=> [HarmedP!Next]_(HarmedP!vars)
  /\ Harmed!TypeOK <=> HarmedP!TypeOK
  /\ Harmed!PassIsThePolicys <=> HarmedP!PassIsThePolicys
  /\ Harmed!FailIsThePolicys <=> HarmedP!FailIsThePolicys
  /\ Harmed!LeakIsTold <=> HarmedP!LeakIsTold
  /\ Harmed!EveryPairIsTold <=> HarmedP!EveryPairIsTold
<1>1. Harmed!Init <=> HarmedP!Init
  BY DEF Harmed!Init, HarmedP!Init, Harmed!Members, HarmedP!Members,
         Harmed!Outside, HarmedP!Outside, Harmed!Froms, HarmedP!Froms,
         Harmed!Tos, HarmedP!Tos, Harmed!Path, HarmedP!Path, Harmed!Paths,
         HarmedP!Paths, Harmed!Inner, HarmedP!Inner, Harmed!Crossing,
         HarmedP!Crossing
<1>2. [Harmed!Next]_(Harmed!vars) <=> [HarmedP!Next]_(HarmedP!vars)
  BY DEF Harmed!Members, HarmedP!Members, Harmed!Outside, HarmedP!Outside,
         Harmed!Froms, HarmedP!Froms, Harmed!Tos, HarmedP!Tos, Harmed!Path,
         HarmedP!Path, Harmed!Paths, HarmedP!Paths, Harmed!Inner,
         HarmedP!Inner, Harmed!Crossing, HarmedP!Crossing, Harmed!Way,
         HarmedP!Way, Harmed!cluster, HarmedP!cluster, Harmed!driver,
         HarmedP!driver, Harmed!vars, HarmedP!vars, Harmed!Networks,
         HarmedP!Networks, Harmed!ClusterStep, HarmedP!ClusterStep,
         Harmed!Harm, HarmedP!Harm, Harmed!ComeUp, HarmedP!ComeUp,
         Harmed!Enforce, HarmedP!Enforce, Harmed!GoWrong, HarmedP!GoWrong,
         Harmed!Cluster, HarmedP!Cluster, Harmed!Fault, HarmedP!Fault,
         Harmed!Goto, HarmedP!Goto, Harmed!Say, HarmedP!Say, Harmed!Is,
         HarmedP!Is, Harmed!Looks, HarmedP!Looks, Harmed!Start, HarmedP!Start,
         Harmed!TimeIsUp, HarmedP!TimeIsUp, Harmed!Waits, HarmedP!Waits,
         Harmed!Down, HarmedP!Down, Harmed!Told, HarmedP!Told, Harmed!SeeUp,
         HarmedP!SeeUp, Harmed!GiveUp, HarmedP!GiveUp, Harmed!Miss,
         HarmedP!Miss, Harmed!Wait, HarmedP!Wait, Harmed!Pass, HarmedP!Pass,
         Harmed!From, HarmedP!From, Harmed!Finding, HarmedP!Finding,
         Harmed!Record, HarmedP!Record, Harmed!Loses, HarmedP!Loses,
         Harmed!ProbeLost, HarmedP!ProbeLost, Harmed!AllTold, HarmedP!AllTold,
         Harmed!LineCut, HarmedP!LineCut, Harmed!Probing, HarmedP!Probing,
         Harmed!ProbeFromAgent, HarmedP!ProbeFromAgent, Harmed!ProbeFromVms,
         HarmedP!ProbeFromVms, Harmed!AgentFails, HarmedP!AgentFails,
         Harmed!Inbound, HarmedP!Inbound, Harmed!NodeIn, HarmedP!NodeIn,
         Harmed!Silent, HarmedP!Silent, Harmed!Broken, HarmedP!Broken,
         Harmed!JudgeControl, HarmedP!JudgeControl, Harmed!CreatePolicy,
         HarmedP!CreatePolicy, Harmed!WaitEnforced, HarmedP!WaitEnforced,
         Harmed!ToldOf, HarmedP!ToldOf, Harmed!Meaningful, HarmedP!Meaningful,
         Harmed!Judged, HarmedP!Judged, Harmed!Reached, HarmedP!Reached,
         Harmed!Leaks, HarmedP!Leaks, Harmed!Border, HarmedP!Border,
         Harmed!Inside, HarmedP!Inside, Harmed!LinesFromInside,
         HarmedP!LinesFromInside, Harmed!LinesOfSilent, HarmedP!LinesOfSilent,
         Harmed!LinesFromDriver, HarmedP!LinesFromDriver, Harmed!LinesFromNode,
         HarmedP!LinesFromNode, Harmed!JudgeIsolated, HarmedP!JudgeIsolated,
         Harmed!Driver, HarmedP!Driver, Harmed!Next, HarmedP!Next
<1>3. Harmed!TypeOK <=> HarmedP!TypeOK
  BY DEF Harmed!TypeOK, HarmedP!TypeOK, Harmed!Line, HarmedP!Line,
         Harmed!Results, HarmedP!Results, Harmed!Verdicts, HarmedP!Verdicts,
         Harmed!Members, HarmedP!Members, Harmed!Outside, HarmedP!Outside,
         Harmed!Froms, HarmedP!Froms, Harmed!Tos, HarmedP!Tos, Harmed!Path,
         HarmedP!Path, Harmed!Paths, HarmedP!Paths, Harmed!Inner,
         HarmedP!Inner, Harmed!Crossing, HarmedP!Crossing
<1>4. /\ Harmed!PassIsThePolicys <=> HarmedP!PassIsThePolicys
      /\ Harmed!FailIsThePolicys <=> HarmedP!FailIsThePolicys
      /\ Harmed!LeakIsTold <=> HarmedP!LeakIsTold
      /\ Harmed!EveryPairIsTold <=> HarmedP!EveryPairIsTold
  BY DEF Harmed!PassIsThePolicys, HarmedP!PassIsThePolicys,
         Harmed!FailIsThePolicys, HarmedP!FailIsThePolicys, Harmed!LeakIsTold,
         HarmedP!LeakIsTold, Harmed!EveryPairIsTold, HarmedP!EveryPairIsTold,
         Harmed!Is, HarmedP!Is, Harmed!Members, HarmedP!Members,
         Harmed!Outside, HarmedP!Outside, Harmed!Froms, HarmedP!Froms,
         Harmed!Tos, HarmedP!Tos, Harmed!Path, HarmedP!Path, Harmed!Paths,
         HarmedP!Paths, Harmed!Inner, HarmedP!Inner, Harmed!Crossing,
         HarmedP!Crossing
<1> QED BY <1>1, <1>2, <1>3, <1>4

-----------------------------------------------------------------------------
(* A behaviour of the suites is one of its part *)

LEMMA SuitesBegin ==
  ASSUME SuitesInit
  PROVE  /\ Init /\ C!Init /\ V!Init /\ P!Init /\ T!Init /\ K!Init /\ E!Init
         /\ IF part = "harmed" THEN Harmed!Init ELSE Asked!Init
  BY DEF SuitesInit

\* What a step of another part does to the variables of each: nothing.
LEMMA SuitesStep ==
  ASSUME [SuitesNext]_allVars
  PROVE  /\ [Next]_vars
         /\ [C!Next]_(C!vars) /\ [V!Next]_(V!vars) /\ [P!Next]_(P!vars)
         /\ [T!Next]_(T!vars) /\ [K!Next]_(K!vars) /\ [E!Next]_(E!vars)
         /\ UNCHANGED part
         /\ IF part = "harmed" THEN [Harmed!Next]_(Harmed!vars) ELSE [Asked!Next]_(Asked!vars)
<1>1. [Next]_vars
  BY DEF SuitesNext, allVars
<1>2. [C!Next]_(C!vars)
  <2>1. C!Next \/ UNCHANGED claimVars
    BY DEF SuitesNext, allVars
  <2>2. UNCHANGED claimVars => UNCHANGED C!vars
    BY DEF claimVars, C!vars, C!cluster, C!driver
  <2> QED BY <2>1, <2>2
<1>3. [V!Next]_(V!vars)
  <2>1. V!Next \/ UNCHANGED vmVars
    BY DEF SuitesNext, allVars
  <2>2. UNCHANGED vmVars => UNCHANGED V!vars
    BY DEF vmVars, V!vars, V!cluster, V!driver
  <2> QED BY <2>1, <2>2
<1>4. [P!Next]_(P!vars)
  <2>1. P!Next \/ UNCHANGED podVars
    BY DEF SuitesNext, allVars
  <2>2. UNCHANGED podVars => UNCHANGED P!vars
    BY DEF podVars, P!vars, P!cluster, P!probe, P!driver
  <2> QED BY <2>1, <2>2
<1>5. [T!Next]_(T!vars)
  <2>1. T!Next \/ UNCHANGED topoVars
    BY DEF SuitesNext, allVars
  <2>2. UNCHANGED topoVars => UNCHANGED T!vars
    BY DEF topoVars, T!vars, T!cluster, T!driver
  <2> QED BY <2>1, <2>2
<1>6. [K!Next]_(K!vars)
  <2>1. K!Next \/ UNCHANGED createVars
    BY DEF SuitesNext, allVars
  <2>2. UNCHANGED createVars => UNCHANGED K!vars
    BY DEF createVars, K!vars
  <2> QED BY <2>1, <2>2
<1>7. [E!Next]_(E!vars)
  <2>1. E!Next \/ UNCHANGED engineVars
    BY DEF SuitesNext, allVars
  <2>2. UNCHANGED engineVars => UNCHANGED E!vars
    BY DEF engineVars, E!vars, E!given
  <2> QED BY <2>1, <2>2
<1>8. IF part = "harmed" THEN [Harmed!Next]_(Harmed!vars) ELSE [Asked!Next]_(Asked!vars)
  <2>1. CASE part = "harmed"
    <3>1. Harmed!Next \/ UNCHANGED netVars
      BY <2>1 DEF SuitesNext, allVars
    <3>2. UNCHANGED netVars => UNCHANGED Harmed!vars
      BY DEF netVars, Harmed!vars, Harmed!cluster, Harmed!driver
    <3> QED BY <2>1, <3>1, <3>2
  <2>2. CASE part # "harmed"
    <3>1. Asked!Next \/ UNCHANGED netVars
      BY <2>2 DEF SuitesNext, allVars
    <3>2. UNCHANGED netVars => UNCHANGED Asked!vars
      BY DEF netVars, Asked!vars, Asked!cluster, Asked!driver
    <3> QED BY <2>2, <3>1, <3>2
  <2> QED BY <2>1, <2>2
<1>9. UNCHANGED part
  BY DEF SuitesNext, allVars
<1> QED BY <1>1, <1>2, <1>3, <1>4, <1>5, <1>6, <1>7, <1>8, <1>9

LEMMA SuitesNumbers ==
  /\ ClaimFaults \in Nat /\ ClaimHarms \in Nat
  /\ VmFaults \in Nat /\ VmHarms \in Nat /\ Rounds \in Nat
  /\ PodFaults \in Nat /\ PodHarms \in Nat
  /\ TopoBounds
  /\ CreateAttempts \in Nat \ {0} /\ CreateFaults \in Nat
  /\ EngineAttempts \in Nat \ {0} /\ EngineFaults \in Nat
  /\ NetFaults \in Nat /\ NetHarms \in Nat /\ 0 \in Nat
  BY SuitesAssumption DEF TopoBounds

LEMMA NetNamesAreTold == AskedP!NamesAreTold /\ HarmedP!NamesAreTold
  BY SuitesAssumption DEF AskedP!NamesAreTold, HarmedP!NamesAreTold, AskedP!Outside,
     HarmedP!Outside, AskedP!Members, HarmedP!Members

NetProof == IF part = "harmed" THEN HarmedP!NetInv ELSE AskedP!NetInv

\* The invariants of all parts hold together, whichever part the behaviour is of.
SuitesInv ==
  part \in Parts /\ ClaimProof /\ VmInv /\ PodInv /\ TopoInv /\ CreateInv /\ EngineInv /\ NetProof

\* A behaviour of the suites is one of the mobility run, that rests or not.
LEMMA SuitesRunMobility == SuitesSpec => Spec
<1>1. SuitesInit => Init
  BY SuitesBegin
<1>2. [SuitesNext]_allVars => [Next]_vars
  BY SuitesStep
<1> QED BY <1>1, <1>2, PTL DEF SuitesSpec, Spec

LEMMA SuitesHold == SuitesSpec => []SuitesInv
<1>1. SuitesInit => SuitesInv
  <2> SUFFICES ASSUME SuitesInit PROVE SuitesInv
    OBVIOUS
  <2>1. ClaimProof /\ VmInv
    BY SuitesBegin, SuitesNumbers, ClaimInitially, VmInitially
  <2>2. PodInv /\ TopoInv
    BY SuitesBegin, SuitesNumbers, PodInitially, TopoInitially
  <2>3. CreateInv
    BY SuitesBegin, SuitesNumbers, CountedStays, CreatedStaysOurs, RefusedStaysAbsent
       DEF CreateInv
  <2>4. EngineInv
    BY SuitesBegin, SuitesNumbers, ChoiceTypesStay, RefusalStaysFinal, UnluckyStays
       DEF EngineInv
  <2>5. NetProof
    <3>1. CASE part = "harmed"
      BY <3>1, SuitesBegin, SuitesNumbers, HarmedIsTheSame, HarmedP!NetInitially DEF NetProof
    <3>2. CASE part # "harmed"
      BY <3>2, SuitesBegin, SuitesNumbers, AskedIsTheSame, AskedP!NetInitially DEF NetProof
    <3> QED BY <3>1, <3>2
  <2>6. part \in Parts
    BY DEF SuitesInit
  <2> QED BY <2>1, <2>2, <2>3, <2>4, <2>5, <2>6 DEF SuitesInv
<1>2. SuitesInv /\ [SuitesNext]_allVars => SuitesInv'
  <2> SUFFICES ASSUME SuitesInv, [SuitesNext]_allVars PROVE SuitesInv'
    OBVIOUS
  <2>1. ClaimProof' /\ VmInv'
    BY SuitesStep, SuitesNumbers, ClaimSteps, VmSteps DEF SuitesInv
  <2>2. PodInv' /\ TopoInv'
    BY SuitesStep, SuitesNumbers, PodSteps, TopoSteps DEF SuitesInv
  <2>3. CreateInv'
    BY SuitesStep, SuitesNumbers, CountedStays, CreatedStaysOurs, RefusedStaysAbsent
       DEF SuitesInv, CreateInv
  <2>4. EngineInv'
    BY SuitesStep, SuitesNumbers, ChoiceTypesStay, RefusalStaysFinal, UnluckyStays
       DEF SuitesInv, EngineInv
  <2>5. NetProof'
    <3>1. CASE part = "harmed"
      <4>1. HarmedP!NetInv'
        BY <3>1, SuitesStep, SuitesNumbers, NetNamesAreTold, HarmedIsTheSame,
           HarmedP!NetSteps DEF SuitesInv, NetProof
      <4> QED BY <3>1, <4>1, SuitesStep DEF NetProof
    <3>2. CASE part # "harmed"
      <4>1. AskedP!NetInv'
        BY <3>2, SuitesStep, SuitesNumbers, NetNamesAreTold, AskedIsTheSame,
           AskedP!NetSteps DEF SuitesInv, NetProof
      <4> QED BY <3>2, <4>1, SuitesStep DEF NetProof
    <3> QED BY <3>1, <3>2
  <2>6. part' \in Parts
    BY SuitesStep DEF SuitesInv
  <2> QED BY <2>1, <2>2, <2>3, <2>4, <2>5, <2>6 DEF SuitesInv
<1> QED BY <1>1, <1>2, PTL DEF SuitesSpec

\* A claim test that passes moved the claim and what was written on it; a live
\* migration that passes moved a VM that ran on, and a cold one its disk, however
\* many faults and harms there are, in whatever order they come.
THEOREM PassedMovesMoved == SuitesSpec => []MovesAreProof
<1>1. SuitesInv => MovesAreProof
  BY DEF SuitesInv, ClaimProof, VmInv, MovesAreProof
<1> QED BY <1>1, SuitesHold, PTL

\* A podapi run that has a client tells of each item once, but for a review that
\* cannot be asked for; its rbac items pass on what was refused and granted, its
\* watch on what it heard.
THEOREM PodItemsAreProof == SuitesSpec => []PodApiIsProof
<1>1. SuitesInv => PodApiIsProof
  BY ItemsAreToldOnce DEF SuitesInv, PodInv, PodApiIsProof
<1> QED BY <1>1, SuitesHold, PTL

\* What a topology run's lines pass is so, for every number of masters and of
\* workers.
THEOREM TopologyItemsAreProof == SuitesSpec => []TopologyIsProof
<1>1. SuitesInv => TopologyIsProof
  BY TopoProof, SuitesNumbers DEF SuitesInv, TopologyIsProof
<1> QED BY <1>1, SuitesHold, PTL

\* A create told as done made the object that is there, and one refused at once
\* made none, for every number of attempts.
THEOREM CreatesAreTold == SuitesSpec => []CreateIsToldAsItIs
<1>1. SuitesInv => CreateIsToldAsItIs
  BY DEF SuitesInv, CreateInv, CreateIsToldAsItIs
<1> QED BY <1>1, SuitesHold, PTL

\* No later attempt comes back from a refused certificate, and an engine that
\* offers TLS is asked plainly only once its attempts failed, for every number of
\* them.
THEOREM EngineKeepsTls == SuitesSpec => []TlsIsKept
<1>1. SuitesInv => TlsIsKept
  BY SuitesNumbers, UnluckyStays DEF SuitesInv, EngineInv, TlsIsKept
<1> QED BY <1>1, SuitesHold, PTL

\* A border that passes was closed by the policy, and a pair within that fails was,
\* for any members and any number of lost probes or of things that go wrong.
THEOREM VerdictsFollowThePolicy == SuitesSpec => []VerdictsAreThePolicys
<1>1. SuitesInv => VerdictsAreThePolicys
  <2>1. ASSUME SuitesInv, part = "harmed" PROVE VerdictsAreThePolicys
    BY <2>1, HarmedIsTheSame DEF SuitesInv, NetProof, HarmedP!NetInv, HarmedP!Verdicted,
                                 VerdictsAreThePolicys
  <2>2. ASSUME SuitesInv, part # "harmed" PROVE VerdictsAreThePolicys
    BY <2>2, AskedIsTheSame DEF SuitesInv, NetProof, AskedP!NetInv, AskedP!Verdicted,
                                VerdictsAreThePolicys
  <2> QED BY <2>1, <2>2
<1> QED BY <1>1, SuitesHold, PTL

\* An open border is told, and so is every pair, for any members.
THEOREM NothingIsUntold == SuitesSpec => []NothingIsPassedOver
<1>1. SuitesInv => NothingIsPassedOver
  <2>1. ASSUME SuitesInv, part = "harmed" PROVE NothingIsPassedOver
    BY <2>1, HarmedIsTheSame DEF SuitesInv, NetProof, HarmedP!NetInv, HarmedP!Verdicted,
                                 NothingIsPassedOver
  <2>2. ASSUME SuitesInv, part # "harmed" PROVE NothingIsPassedOver
    BY <2>2, AskedIsTheSame DEF SuitesInv, NetProof, AskedP!NetInv, AskedP!Verdicted,
                                NothingIsPassedOver
  <2> QED BY <2>1, <2>2
<1> QED BY <1>1, SuitesHold, PTL

\* Every reachable state of the part a behaviour is of is well typed.
THEOREM SuitesAreTyped == SuitesSpec => []SuitesTypeOK
<1>1. SuitesInv /\ TypeOK => SuitesTypeOK
  <2> SUFFICES ASSUME SuitesInv, TypeOK PROVE SuitesTypeOK
    OBVIOUS
  <2>1. C!TypeOK /\ V!TypeOK /\ P!TypeOK /\ T!TypeOK /\ K!TypeOK /\ E!TypeOK
    BY DEF SuitesInv, ClaimProof, ClaimInv, VmInv, PodInv, TopoInv, CreateInv, EngineInv
  <2>2. part = "harmed" => Harmed!TypeOK
    BY HarmedIsTheSame DEF SuitesInv, NetProof, HarmedP!NetInv
  <2>3. part = "asked" => Asked!TypeOK
    BY AskedIsTheSame DEF SuitesInv, NetProof, AskedP!NetInv
  <2>4. part \in {"mobility", "claim", "vm", "podapi", "asked", "harmed", "topology", "create",
                 "engine"}
    BY SuitesAssumption DEF SuitesInv
  <2> QED BY <2>1, <2>2, <2>3, <2>4 DEF SuitesTypeOK
<1> QED BY <1>1, SuitesHold, SuitesRunMobility, TypeCorrect, PTL

\* A pod that is said to have kept running was not restarted, and a member that was
\* up when its wait began is told down only after a look at it failed.
THEOREM LooksTellTrue == SuitesSpec => LooksAreTrue
<1>1. SuitesInv /\ [SuitesNext]_allVars =>
        [kept' => kept \/ pods["first"].starts = atRequest]_(C!vars)
  BY SuitesStep, KeptIsSeen DEF SuitesInv, ClaimProof
<1>2. SuitesInv /\ [SuitesNext]_allVars =>
        [\A m \in ready : Asked!Is("up", "-", m, "fail") \in netLines' \ netLines
                            => netFaults' < NetFaults]_(Asked!vars)
  <2> SUFFICES ASSUME SuitesInv, [SuitesNext]_allVars, NEW m \in ready,
                      Asked!Is("up", "-", m, "fail") \in netLines' \ netLines
               PROVE  netFaults' < NetFaults
    OBVIOUS
  <2>1. CASE part = "harmed"
    <3>1. HarmedP!Is("up", "-", m, "fail") = Asked!Is("up", "-", m, "fail")
      BY DEF HarmedP!Is, Asked!Is
    <3>2. netFaults' < 0
      BY <2>1, <3>1, SuitesStep, SuitesNumbers, HarmedIsTheSame, HarmedP!UpStaysSeen
         DEF SuitesInv, NetProof
    <3>3. netFaults' \in Nat
      <4>1. HarmedP!NetInv'
        BY <2>1, SuitesStep, SuitesNumbers, NetNamesAreTold, HarmedIsTheSame,
           HarmedP!NetSteps DEF SuitesInv, NetProof
      <4>2. netFaults' \in 0..0
        BY <4>1 DEF HarmedP!NetInv, HarmedP!TypeOK
      <4> QED BY <4>2
    <3> QED BY <3>2, <3>3
  <2>2. CASE part # "harmed"
    <3>1. AskedP!Is("up", "-", m, "fail") = Asked!Is("up", "-", m, "fail")
      BY DEF AskedP!Is, Asked!Is
    <3> QED BY <2>2, <3>1, SuitesStep, SuitesNumbers, AskedIsTheSame, AskedP!UpStaysSeen
         DEF SuitesInv, NetProof
  <2> QED BY <2>1, <2>2
<1> QED BY <1>1, <1>2, SuitesHold, PTL DEF SuitesSpec, LooksAreTrue, C!KeptRan, Asked!UpIsSeen
=============================================================================
