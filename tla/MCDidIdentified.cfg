SPECIFICATION TypedSpec
CONSTANTS
  None = None
  Text = Text
  Infinite = Infinite
  Injected <- MCInjected
  Examined <- MCExamined
  Policy <- MCPolicy
  SparseCell = 1
  Cases <- MCCases
  DidPolicy <- MCDidPolicy
  ScoreValues <- MCScoreValues
  SevereWidth = 5
INVARIANT DidIsIdentified
