SPECIFICATION Spec
CONSTANTS
  W_sound = W_sound
  W_warned = W_warned
  W_raising = W_raising
  W_unrepeatable = W_unrepeatable
  W_fabricated = W_fabricated
  W_misrouted = W_misrouted
  W_failing = W_failing
  W_drifting = W_drifting
  W_altered = W_altered
  W_estimated = W_estimated
  W_unguarded = W_unguarded
  W_unseeded = W_unseeded
  W_exporting = W_exporting
  None = None
  Broken = Broken
  Worlds <- MCWorlds
  Answers <- MCAnswers
  Revisions <- MCRevisions
  MaxRuns = 2
  Fixtures <- MCFixtures
  Contracts <- MCContracts
  WorkflowCases <- MCWorkflowCases
  InjectionSpecs <- MCInjectionSpecs
INVARIANTS
  TypeOK
  VerdictIsEarned
  FailureIsTold
PROPERTY
  EveryGateEnds
CHECK_DEADLOCK FALSE
