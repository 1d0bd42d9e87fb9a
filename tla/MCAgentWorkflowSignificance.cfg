SPECIFICATION Spec
CONSTANTS
  a = a
  b = b
  c = c
  None = None
  Experiments <- MCExperiments
  Stored <- MCStored
  TopK = 2
SYMMETRY Symmetry
INVARIANTS
  RolloutIsSignificant
