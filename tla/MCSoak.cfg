SPECIFICATION Spec
CONSTANTS
  None = None
  Kinds <- BothKinds
  Sizes <- SmallSizes
  Waves = 3
  Timeout = 9
  DrainTimeout = 2
  HoldFloor = 1
  FailedStartNeeds = 3
  SlowdownGrace = 0
  Metrics = {volumes}
  Slack <- NoSlack
  Needed <- EveryMetric
  Readings = {0, 1, 2}
  PreflightTimes = {0, 2, 7}
  FailedStartTimes = {2, 4}
  HoldTimes = {1}
  DrainTimes = {0, 2}
  CensusTimes = {0, 1}
  CleanupTimes = {1}
  Holds <- SomeHolds
  Drains <- SomeDrains
CHECK_DEADLOCK FALSE
INVARIANTS
  TypeOK
  GrowthIsReported
  PassedRunIsClean
  PassedRunDidNotSlow
  RunEndsInTime
