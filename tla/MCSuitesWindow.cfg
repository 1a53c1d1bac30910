SPECIFICATION SuitesSpec
CONSTANTS
  Parts = {"mobility"}
  Timeout = 30
  Margin = 1
  PodTimeout = 4
  MoveTimeout = 7
  VmTimeout = 10
  Gone = 2
  ClaimFaults = 1
  ClaimHarms = 2
  VmFaults = 1
  VmHarms = 2
  Rounds = 2
  PodFaults = 1
  PodHarms = 1
  Pods = {"p1"}
  Vms = {"v1"}
  NetFaults = 1
  NetHarms = 1
  Masters = 2
  Workers = 2
  TopoFaults = 1
  TopoHarms = 1
  CreateAttempts = 5
  CreateFaults = 4
  EngineAttempts = 3
  EngineFaults = 5
CHECK_DEADLOCK FALSE
INVARIANTS
  CleanupRunsInTime
