SPECIFICATION Spec
CONSTANTS
  a = a
  b = b
  c = c
  None = None
  Requests <- MCRequests
  Experiments <- MCExperiments
  Known <- MCKnown
  Lists <- MCLists
  TraceHash <- MCTraceHash
  Setups <- MCSetups
  Processes <- MCProcesses
  DirectAsks <- MCDirectAsks
  MaxMounts = 3
INVARIANTS
  TypeOK
  ShownIsAsked
  MetricsAreOwn
  OneTrace
  ErrorsAreKept
PROPERTY
  ImplementsView
CHECK_DEADLOCK FALSE
