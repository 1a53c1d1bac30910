SPECIFICATION TurbomodeSpec
CONSTANTS
  Profiles <- BothProfiles
  MaxAttempts = 2
  Window = 900
  FinishTimeout = 240
  CleanupTimeout = 120
  RetryDelay = 30
  PreflightDurations <- DayPreflight
  AttemptDurations <- DayAttempts
  Outcomes <- Representatives
  Pods = {"a", "b"}
  Capacity = 2
  Faults = 2
  Timeouts = 1
CHECK_DEADLOCK FALSE
INVARIANTS
  GaveUpIsNotFailed
