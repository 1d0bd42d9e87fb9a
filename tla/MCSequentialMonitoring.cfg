SPECIFICATION Spec
CONSTANTS
  u1 = u1
  u2 = u2
  x = x
  y = y
  b1 = b1
  b2 = b2
  NoTime = NoTime
  Naive = Naive
  NoCounts = NoCounts
  NumLooks = 3
  TotalAlpha = 5
  Shape <- MCShape
  Units <- MCUnits
  Values <- MCValues
  Bindings <- MCBindings
  MaxTime = 1
SYMMETRY Symmetry
INVARIANTS
  TypeOK
  CumulativeEvidence
  EfficacyIsEarned
  OnlyRoundingRaises
PROPERTIES
  HistoryIsFinal
  ImplementsAlphaSpending
