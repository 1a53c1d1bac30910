------------------------------- MODULE MCSoak -------------------------------
(* An instance of Soak for TLC: times in minutes, one metric. *)
EXTENDS Soak

BothKinds == <<"containers", "vms">>

SmallSizes == [containers |-> [min |-> 1, max |-> 3], vms |-> [min |-> 1, max |-> 2]]

NoSlack == [m \in Metrics |-> 0]

EveryMetric == [k \in WaveKinds |-> Metrics]

\* One of each: passed, passed and slower, slower still; failed and told;
\* given up on, so that a create may still land.
SomeHolds ==
  { [failed |-> FALSE, line |-> "pass", start |-> 2, flying |-> FALSE],
    [failed |-> FALSE, line |-> "pass", start |-> 3, flying |-> FALSE],
    [failed |-> FALSE, line |-> "infra", start |-> 4, flying |-> TRUE],
    [failed |-> FALSE, line |-> "pass", start |-> 4, flying |-> FALSE],
    [failed |-> TRUE, line |-> "fail", start |-> None, flying |-> FALSE] }

SomeDrains ==
  { [own |-> FALSE, unread |-> FALSE, flying |-> FALSE, left |-> FALSE],
    [own |-> TRUE,  unread |-> FALSE, flying |-> FALSE, left |-> TRUE],
    [own |-> FALSE, unread |-> TRUE,  flying |-> FALSE, left |-> TRUE],
    [own |-> FALSE, unread |-> FALSE, flying |-> TRUE,  left |-> TRUE] }
=============================================================================
