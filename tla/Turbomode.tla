------------------------------ MODULE Turbomode ------------------------------
(***************************************************************************)
(* The turbomode driver, and the observer of one of its attempts. They     *)
(* share no state (to the driver an attempt is one step): a behaviour is   *)
(* of one of them, chosen at the start, and the other stays where it       *)
(* began.                                                                  *)
(***************************************************************************)
EXTENDS TurboRun, FiniteSets

CONSTANTS
  Pods, Capacity, Faults, Timeouts   \* PodWatch's

ASSUME WatchAssumption == IsFiniteSet(Pods) /\ Faults \in Nat /\ Timeouts \in Nat

VARIABLES
  part,  \* driver | watch
  log, compacted, open, received, rv, listing, objects, records, errors, peak, faults, timeouts

watchVars == <<log, compacted, open, received, rv, listing, objects, records, errors, peak,
               faults, timeouts>>

W == INSTANCE PodWatch

TurbomodeInit == part \in {"driver", "watch"} /\ Init /\ W!Init

Of(p, action, others) == part = p /\ action /\ UNCHANGED <<part, others>>

TurbomodeNext == Of("driver", Next, watchVars) \/ Of("watch", W!Next, vars)

allVars == <<part, vars, watchVars>>

\* Of each, the fairness of its module.
TurbomodeSpec ==
  /\ TurbomodeInit /\ [][TurbomodeNext]_allVars
  /\ WF_allVars(Of("driver", Next, watchVars))
  /\ WF_allVars(Of("watch", W!Progress, vars)) /\ WF_allVars(Of("watch", W!Send, vars))
  /\ WF_allVars(Of("watch", W!OpenWatch, vars)) /\ WF_allVars(Of("watch", W!HandleEvent, vars))
  /\ WF_allVars(Of("watch", W!WatchExpired, vars)) /\ WF_allVars(Of("watch", W!ObserveListed, vars))

-----------------------------------------------------------------------------
(* The properties, each of the modules' name for it *)

\* The driver ends with an exit code.
DriverTerminates == part = "driver" => Terminates

\* The observer's variables are what their module says.
WatchTypeOK == W!TypeOK

\* Without an error every phase of every Pod has its time, and the peak is the
\* true one; between relists the observer's objects are the apiserver's.
ObserverIsRight == W!TimingsAreComplete /\ W!PeakIsExact /\ W!InventoryIsRight

\* A Pod that has finished is seen as finished, unless it was deleted.
FinishesAreSeen == part = "watch" => W!FinishesAreSeen
=============================================================================
