SPECIFICATION HoldsSpec
CONSTANTS
  None = None
  a1 = a1
  a2 = a2
  v1 = v1
  v2 = v2
  Parts = {"containers"}
  Apps <- TwoApps
  Faults = 0
  Harms = 1
  Few <- OneVm
  FewFaults = 1
  FewHarms = 2
  Many <- TwoVms
  ManyFaults = 0
  ManyHarms = 0
  CaseFaults = 1
  CaseHarms = 1
  Tries = 3
  Drained = {"a"}
  Wave = "w"
  DrainFaults = 1
SYMMETRY Symmetry
CHECK_DEADLOCK FALSE
INVARIANTS
  PassedClaimsKept
