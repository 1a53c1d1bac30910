------------------------------ MODULE PodWatch ------------------------------
(***************************************************************************)
(* The observer of a turbomode attempt (turbomode.rs `Observer`): a watch  *)
(* of the attempt's Pods, resumed from the last whole event after the      *)
(* client's timeout, relisted after an error. Where the attempt's timings, *)
(* its peak of running Pods and its wait for the Pods to finish come from. *)
(*                                                                         *)
(* The apiserver is external: a log of events, one per change of a Pod; a  *)
(* resourceVersion is a position in it.                                    *)
(***************************************************************************)
EXTENDS Integers, Sequences, FiniteSets, FiniteSetsExt

CONSTANTS
  Pods,      \* the attempt's Pods
  Capacity,  \* the node's Pod slots: how many run at once
  Faults,    \* bound: watch errors, failed relists, evictions, compactions
  Timeouts   \* bound: watches ended by the client's timeout or the server

VARIABLES
  log,       \* the apiserver's events: Seq([pod, phase])
  compacted, \* events up to here are forgotten: a watch from before gets 410
  open,      \* a watch is open
  received,  \* the last event received on it; those after rv wait in the buffer
  rv,        \* the resourceVersion to resume from: the last event handled
  listing,   \* Pods of a relist still to be observed: the events it stands for
  objects,   \* objects[p]: the phase of the last object seen
  records,   \* records[p]: the phases whose first time is recorded
  errors,    \* how many errors were recorded (latency is valid at 0)
  peak,
  faults, timeouts

server == <<log, compacted>>
stream == <<open, received>>
view   == <<objects, records, peak>>
vars   == <<server, stream, rv, listing, view, errors, faults, timeouts>>

Phases == {"pending", "running", "finished", "deleted"}
Event  == [pod : Pods, phase : Phases]

TypeOK ==
  /\ log \in Seq(Event) /\ compacted \in 0..Len(log)
  /\ open \in BOOLEAN /\ received \in 0..Len(log)
  /\ rv \in 0..Len(log)
  /\ listing \subseteq Event
  /\ objects \in [Pods -> {"none", "pending", "running", "finished"}]
  /\ records \in [Pods -> SUBSET {"running", "finished", "deleted"}]
  /\ errors \in Nat /\ peak \in 0..Cardinality(Pods)
  /\ faults \in 0..Faults /\ timeouts \in 0..Timeouts

-----------------------------------------------------------------------------
(* The apiserver's history *)

\* The events of p up to position n, and its phase there.
Positions(p, n) == { k \in 1..n : log[k].pod = p }
PhaseAt(p, n) == IF Positions(p, n) = {} THEN "none" ELSE log[Max(Positions(p, n))].phase
RunningAt(n) == { p \in Pods : PhaseAt(p, n) = "running" }
Now(p) == PhaseAt(p, Len(log))

Init ==
  /\ log = << >> /\ compacted = 0
  /\ open = FALSE /\ received = 0
  /\ rv = 0 /\ listing = {}
  /\ objects = [p \in Pods |-> "none"] /\ records = [p \in Pods |-> {}]
  /\ errors = 0 /\ peak = 0
  /\ faults = Faults /\ timeouts = Timeouts

Change(p, phase) ==
  /\ log' = Append(log, [pod |-> p, phase |-> phase])
  /\ UNCHANGED <<compacted, stream, rv, listing, view, errors, timeouts>>

\* A Pod is created, runs in a free slot, and finishes.
Progress ==
  \E p \in Pods :
    /\ \/ Now(p) = "none" /\ Change(p, "pending")
       \/ Now(p) = "pending" /\ Cardinality(RunningAt(Len(log))) < Capacity /\ Change(p, "running")
       \/ Now(p) = "running" /\ Change(p, "finished")
    /\ UNCHANGED faults

Fault == faults > 0 /\ faults' = faults - 1

\* Somebody else deletes a Pod (an eviction).
Evict ==
  /\ Fault
  /\ \E p \in Pods : Now(p) \in {"pending", "running", "finished"} /\ Change(p, "deleted")

\* The apiserver forgets old events.
Compact ==
  /\ Fault
  /\ compacted < Len(log)
  /\ compacted' = Len(log)
  /\ UNCHANGED <<log, stream, rv, listing, view, errors, timeouts>>

\* An event of the open watch arrives.
Send ==
  /\ open /\ received < Len(log)
  /\ received' = received + 1
  /\ UNCHANGED <<server, open, rv, listing, view, errors, faults, timeouts>>

-----------------------------------------------------------------------------
(* observe *)

RecordedAll(phase) == {phase}

\* Only the phases that have a time of their own are recorded.
Recorded(phase) == {phase} \cap {"running", "finished", "deleted"}

\* A deleted Pod's object stays, as its last phase; it no longer counts as
\* running, nor does any Pod once recorded as deleted.
Running(o, r) == { p \in Pods : o[p] = "running" /\ "deleted" \notin r[p] }

Observe(p, phase) ==
  /\ objects' = IF phase = "deleted" THEN objects ELSE [objects EXCEPT ![p] = phase]
  /\ records' = [records EXCEPT ![p] = @ \cup Recorded(phase)]
  /\ peak' = Max({peak, Cardinality(Running(objects', records'))})

-----------------------------------------------------------------------------
(* run: the watch loop *)

Idle == ~open /\ listing = {}

\* A watch is opened from rv; what the old connection held is dropped.
OpenWatch ==
  /\ Idle /\ rv >= compacted
  /\ open' = TRUE /\ received' = rv
  /\ UNCHANGED <<server, rv, listing, view, errors, faults, timeouts>>

\* A whole event: its resourceVersion is kept, then it is observed.
HandleEvent ==
  /\ open /\ rv < received
  /\ Observe(log[rv + 1].pod, log[rv + 1].phase)
  /\ rv' = rv + 1
  /\ UNCHANGED <<server, stream, listing, errors, faults, timeouts>>

\* The client's timeout, or the server's end of the watch, drops what is not
\* a whole event yet. The next watch resumes from rv: not an error.
WatchEndsAtReceived ==
  /\ open /\ timeouts > 0
  /\ timeouts' = timeouts - 1
  /\ open' = FALSE /\ received' = 0
  /\ rv' = received
  /\ UNCHANGED <<server, listing, view, errors, faults>>

WatchEnds ==
  /\ open /\ timeouts > 0
  /\ timeouts' = timeouts - 1
  /\ open' = FALSE /\ received' = 0
  /\ rv' = rv
  /\ UNCHANGED <<server, listing, view, errors, faults>>

\* What the apiserver lists now.
Listed == { e \in Event : e.phase = Now(e.pod) /\ e.phase # "deleted" }

RecordAndRelistForgettingRv(cost) ==
  \/ /\ faults >= cost /\ faults' = faults - cost
     /\ errors' = errors + 1
     /\ listing' = Listed
     /\ rv' = rv
  \/ /\ faults > cost /\ faults' = faults - cost - 1
     /\ errors' = errors + 2
     /\ UNCHANGED <<listing, rv>>

\* An error is recorded, at that cost in faults, and the Pods are listed again,
\* to be observed one by one. A list that fails is an error too: the next
\* watch starts from the old rv.
RecordAndRelist(cost) ==
  \/ /\ faults >= cost /\ faults' = faults - cost
     /\ errors' = errors + 1
     /\ listing' = Listed
     /\ rv' = Len(log)
  \/ /\ faults > cost /\ faults' = faults - cost - 1
     /\ errors' = errors + 2
     /\ UNCHANGED <<listing, rv>>

\* The watch breaks, or answers an ERROR or bytes that are not JSON; or it
\* cannot be opened. What was received and not handled is dropped.
WatchFails ==
  /\ open \/ Idle
  /\ RecordAndRelist(1)
  /\ open' = FALSE /\ received' = 0
  /\ UNCHANGED <<server, view, timeouts>>

\* 410: rv is older than what the apiserver remembers.
WatchExpired ==
  /\ Idle /\ rv < compacted
  /\ RecordAndRelist(0)
  /\ UNCHANGED <<server, stream, view, timeouts>>

\* One Pod of the relist, in whatever order the list has them. (The code takes
\* the list's resourceVersion after the last one; no watch is opened before.)
ObserveListed ==
  /\ \E e \in listing : Observe(e.pod, e.phase) /\ listing' = listing \ {e}
  /\ UNCHANGED <<server, stream, rv, errors, faults, timeouts>>

Server == Progress \/ Evict \/ Compact \/ Send
Client == OpenWatch \/ HandleEvent \/ WatchEnds \/ WatchFails \/ WatchExpired \/ ObserveListed

Next == Server \/ Client

\* Pods that can go on do; the open watch is sent its events; the observer's
\* task runs. (Errors and timeouts are not fair, and bounded.)
Fairness ==
  /\ WF_vars(Progress) /\ WF_vars(Send)
  /\ WF_vars(OpenWatch) /\ WF_vars(HandleEvent)
  /\ WF_vars(WatchExpired) /\ WF_vars(ObserveListed)

Spec == Init /\ [][Next]_vars /\ Fairness

-----------------------------------------------------------------------------
(* Properties *)

\* What happened to p up to position n, of what the timings record.
Happened(p, n) == UNION { Recorded(log[k].phase) : k \in Positions(p, n) }

\* Without an error (latency valid) nothing is lost, whatever the timeouts cut
\* off: up to rv, every phase of every Pod has its time, and no other has.
TimingsAreComplete ==
  errors = 0 => \A p \in Pods : records[p] = Happened(p, rv)

\* Without an error the peak is the true one, up to rv.
PeakIsExact ==
  errors = 0 => peak = Max({ Cardinality(RunningAt(n)) : n \in 0..rv })

\* "relists, which keeps the inventory right": between relists, the object of
\* every Pod that still exists at rv is the one it had there, so the wait that
\* counts finished Pods never counts one twice or too early.
InventoryIsRight ==
  listing = {} =>
    \A p \in Pods : PhaseAt(p, rv) # "deleted" => objects[p] = PhaseAt(p, rv)

\* A Pod that has finished is seen as finished, errors or not, unless it was
\* deleted: the wait does not hang on a gap of the watch.
FinishesAreSeen ==
  \A p \in Pods : <>("finished" \in records[p] \/ Now(p) = "deleted")
=============================================================================
