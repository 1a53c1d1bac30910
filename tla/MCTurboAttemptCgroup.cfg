SPECIFICATION AttemptsSpec
CONSTANTS
  i1 = i1
  i2 = i2
  Items <- TwoItems
  Profiles <- SqliteOnly
  Concurrency = 2
  Faults = 1
  LateCommits = FALSE
  LateConcurrency = 1
  LateFaults = 1
CHECK_DEADLOCK FALSE
INVARIANTS
  VerifiedLeavesNoCgroup
