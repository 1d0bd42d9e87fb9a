SPECIFICATION Spec
CONSTANTS
  a = a
  b = b
  c = c
  None = None
  Experiments <- MCExperiments
  Stored <- MCStored
  TopK = 2
SYMMETRY Symmetry
INVARIANTS
  TypeOK
  RolloutIsEarned
  ScopeKept
  UpstreamErrorBlocks
  HeadlineTellsApproval
  HighConfidenceIsClean
PROPERTIES
  ImplementsGovernance
