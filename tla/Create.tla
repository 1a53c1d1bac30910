------------------------------- MODULE Create -------------------------------
(***************************************************************************)
(* One create through the apiserver client (kube.rs `post`). A POST that   *)
(* may have landed is an unsure failure: the object is then looked for by  *)
(* its name, and the create is done, sent again, or given up on. What was  *)
(* sent may still be on its way when that look is taken.                   *)
(***************************************************************************)
EXTENDS Naturals

CONSTANTS
  Attempts,  \* Policy::API.attempts
  Faults     \* bound: requests that get no answer

VARIABLES
  object,    \* none | ours | other: what has the name, by its labels
  onItsWay,  \* POSTs that may still be committed
  accepts,   \* the apiserver accepts the object
  faults,
  pc,        \* post | get | done
  tries,
  result     \* none | created | found | refused | unsure | error

vars == <<object, onItsWay, accepts, faults, pc, tries, result>>

TypeOK ==
  /\ object \in {"none", "ours", "other"}
  /\ onItsWay \in 0..Attempts /\ accepts \in BOOLEAN /\ faults \in 0..Faults
  /\ pc \in {"post", "get", "done"} /\ tries \in 0..Attempts
  /\ result \in {"none", "created", "found", "refused", "unsure", "error"}

Init ==
  /\ object \in {"none", "other"} /\ accepts \in BOOLEAN
  /\ onItsWay = 0 /\ faults = Faults
  /\ pc = "post" /\ tries = 0 /\ result = "none"

-----------------------------------------------------------------------------
(* The apiserver *)

Taken == object # "none"

\* A POST commits the object, or finds the name taken, or is turned down.
Commits ==
  object' = IF accepts /\ ~Taken THEN "ours" ELSE object

Land ==
  /\ onItsWay > 0 /\ onItsWay' = onItsWay - 1
  /\ Commits
  /\ UNCHANGED <<accepts, faults, pc, tries, result>>

\* A namesake is deleted, or the rule that turned the object down is lifted.
Settle ==
  /\ pc # "done"
  /\ \/ object = "other" /\ object' = "none" /\ UNCHANGED accepts
     \/ accepts' = ~accepts /\ UNCHANGED object
  /\ UNCHANGED <<onItsWay, faults, pc, tries, result>>

-----------------------------------------------------------------------------
(* The client *)

Fault == faults > 0 /\ faults' = faults - 1

Return(r) == pc' = "done" /\ result' = r

\* It is answered: created, 409, or refused. Each is returned as it is.
PostAnswered ==
  /\ pc = "post" /\ tries' = tries + 1
  /\ Commits
  /\ Return(IF accepts /\ ~Taken THEN "created" ELSE "refused")
  /\ UNCHANGED <<onItsWay, accepts, faults>>

\* It certainly did not land and the retries are used up.
PostNotSent ==
  /\ pc = "post" /\ tries' = tries + 1 /\ Fault /\ Return("error")
  /\ UNCHANGED <<object, onItsWay, accepts>>

\* It may have landed: committed, on its way, or lost.
PostUnsure ==
  /\ pc = "post" /\ tries' = tries + 1 /\ Fault
  /\ \/ Commits /\ UNCHANGED onItsWay
     \/ onItsWay' = onItsWay + 1 /\ UNCHANGED object
     \/ UNCHANGED <<object, onItsWay>>
  /\ IF tries + 1 < Attempts THEN pc' = "get" /\ UNCHANGED result ELSE Return("unsure")
  /\ UNCHANGED accepts

NameMatches == object # "none"

LabelsMatch == object = "ours"

\* It is there with the labels that were sent; or absent; or another's.
Look ==
  /\ pc = "get"
  /\ CASE LabelsMatch   -> Return("found")
       [] ~Taken        -> pc' = "post" /\ UNCHANGED result
       [] OTHER         -> Return("unsure")
  /\ UNCHANGED <<object, onItsWay, accepts, faults, tries>>

LookFails ==
  /\ pc = "get" /\ Fault /\ Return("error")
  /\ UNCHANGED <<object, onItsWay, accepts, tries>>

Next ==
  \/ Land \/ Settle
  \/ PostAnswered \/ PostNotSent \/ PostUnsure \/ Look \/ LookFails

Spec == Init /\ [][Next]_vars

-----------------------------------------------------------------------------
(* Properties *)

\* A create that is reported as done is: the object with that name is the
\* run's own, and not a namesake's, however many POSTs were sent for it.
CreatedIsOurs == result \in {"created", "found"} => object = "ours"

\* A create that is refused at once left nothing of ours, and nothing on its
\* way. (Refused after an unsure POST it may have: the first lands while the
\* second is sent, and the second then finds the name taken.)
RefusedAtOnceIsAbsent == result = "refused" /\ tries = 1 => object # "ours" /\ onItsWay = 0
=============================================================================
