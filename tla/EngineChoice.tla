---------------------------- MODULE EngineChoice ----------------------------
(***************************************************************************)
(* How a run chooses the transport to the stormblock engine (engine.rs     *)
(* `resolve`): by the URL it is given, else by asking the node what its    *)
(* engine offers, TLS first, again until something answers. The node may   *)
(* be switched from plain to both to TLS only meanwhile.                   *)
(***************************************************************************)
EXTENDS Naturals

CONSTANTS
  Attempts,  \* Policy::PROBE.attempts
  Faults     \* bound: connections that fail, on an engine that offers them

Modes == <<"plain", "optional", "required">>

VARIABLES
  \* the node
  mode,      \* index in Modes
  trusted,   \* its certificate verifies against the CA
  \* what the run is given
  url,       \* none | http | https | other
  ca,        \* none | usable | unusable
  \* the choice
  pc,        \* start | tls | plain | done
  attempt,
  choice,    \* none | https | http | error
  faults,
  refused,   \* ghost: a certificate was refused
  began      \* ghost: the mode at the start

given == <<trusted, url, ca>>

vars == <<mode, given, pc, attempt, choice, faults, refused, began>>

TypeOK ==
  /\ mode \in 1..3 /\ trusted \in BOOLEAN
  /\ url \in {"none", "http", "https", "other"} /\ ca \in {"none", "usable", "unusable"}
  /\ pc \in {"start", "tls", "plain", "done"} /\ attempt \in 0..Attempts
  /\ choice \in {"none", "https", "http", "error"} /\ faults \in 0..Faults
  /\ refused \in BOOLEAN /\ began \in 1..3

Init ==
  /\ mode \in 1..3 /\ trusted \in BOOLEAN
  /\ url \in {"none", "http", "https", "other"} /\ ca \in {"none", "usable", "unusable"}
  /\ pc = "start" /\ attempt = 0 /\ choice = "none" /\ faults = Faults
  /\ refused = FALSE /\ began = mode

OffersTls == Modes[mode] # "plain"
OffersPlain == Modes[mode] # "required"

\* stormcos switches the engine on.
Switch ==
  /\ mode < 3 /\ mode' = mode + 1 /\ pc # "done"
  /\ UNCHANGED <<given, pc, attempt, choice, faults, refused, began>>

MayRetryOnceMore == attempt <= Attempts

MayRetry == attempt < Attempts

Fault == faults > 0 /\ faults' = faults - 1

Choose(c) == pc' = "done" /\ choice' = c

\* By the URL and the CA, where they decide.
Given ==
  /\ pc = "start"
  /\ CASE url = "https" -> Choose(IF ca = "usable" THEN "https" ELSE "error")
       [] url = "http"  -> Choose("http")
       [] url = "other" -> Choose("error")
       [] url = "none"  -> /\ ca # "usable"
                           /\ Choose(IF ca = "none" THEN "http" ELSE "error")
  /\ UNCHANGED <<mode, given, attempt, faults, refused, began>>

Ask ==
  /\ pc = "start" /\ url = "none" /\ ca = "usable"
  /\ pc' = "tls" /\ attempt' = 1
  /\ UNCHANGED <<mode, given, choice, faults, refused, began>>

\* TLS answers, its certificate verified or refused.
TlsAnswers ==
  /\ pc = "tls" /\ OffersTls /\ Choose("https")
  /\ refused' = ~trusted
  /\ UNCHANGED <<mode, given, attempt, faults, began>>

TlsFails ==
  /\ pc = "tls" /\ pc' = "plain"
  /\ IF OffersTls THEN Fault ELSE UNCHANGED faults
  /\ UNCHANGED <<mode, given, attempt, choice, refused, began>>

PlainAnswers ==
  /\ pc = "plain" /\ OffersPlain /\ Choose("http")
  /\ UNCHANGED <<mode, given, attempt, faults, refused, began>>

PlainFailsAndStays ==
  /\ pc = "plain"
  /\ IF OffersPlain THEN Fault ELSE UNCHANGED faults
  /\ IF MayRetry THEN attempt' = attempt + 1 /\ UNCHANGED <<pc, choice>>
     ELSE Choose("http") /\ UNCHANGED attempt
  /\ UNCHANGED <<mode, given, refused, began>>

\* Neither answered: again, from TLS on, or plain when the attempts are used up.
PlainFails ==
  /\ pc = "plain"
  /\ IF OffersPlain THEN Fault ELSE UNCHANGED faults
  /\ IF MayRetry THEN pc' = "tls" /\ attempt' = attempt + 1 /\ UNCHANGED choice
     ELSE Choose("http") /\ UNCHANGED attempt
  /\ UNCHANGED <<mode, given, refused, began>>

Next ==
  \/ Switch
  \/ Given \/ Ask \/ TlsAnswers \/ TlsFails \/ PlainAnswers \/ PlainFails

Spec == Init /\ [][Next]_vars

-----------------------------------------------------------------------------
(* Properties *)

\* An engine whose certificate was refused is never fallen back from.
RefusalIsFinal == refused => choice = "https"

\* A run that goes on in plain with an engine that is TLS only met a failing
\* connection in each of its attempts: one attempt that is answered is enough.
\* (With an engine that offers both, one failure of TLS is enough.)
PlainOfTlsIsUnlucky ==
  choice = "http" /\ url = "none" /\ ca = "usable" /\ began = 3 => Faults - faults >= Attempts
=============================================================================
