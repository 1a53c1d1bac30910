SPECIFICATION SuitesSpec
CONSTANTS
  Parts = {"mobility", "claim", "vm", "podapi", "asked", "harmed", "topology", "create", "engine"}
  Timeout = 16
  Margin = 1
  PodTimeout = 2
  MoveTimeout = 3
  VmTimeout = 4
  Gone = 1
  ClaimFaults = 1
  ClaimHarms = 2
  VmFaults = 1
  VmHarms = 2
  Rounds = 2
  PodFaults = 1
  PodHarms = 1
  Pods = {"p1"}
  Vms = {"v1"}
  NetFaults = 1
  NetHarms = 1
  Masters = 2
  Workers = 2
  TopoFaults = 1
  TopoHarms = 1
  CreateAttempts = 5
  CreateFaults = 4
  EngineAttempts = 3
  EngineFaults = 5
CHECK_DEADLOCK FALSE
INVARIANTS
  SuitesTypeOK
  ClaimsAreCleanedInTime
  EveryTestIsTold
  MovesAreProof
  PodApiIsProof
  VerdictsAreThePolicys
  NothingIsPassedOver
  TopologyIsProof
  CreateIsToldAsItIs
  TlsIsKept
PROPERTIES
  LooksAreTrue
