SPECIFICATION Spec
CONSTANTS
  c1 = c1
  c2 = c2
  c3 = c3
  first = first
  Commands <- MCCommands
  Requests <- MCRequests
  InitialEnvelope <- MCInitialEnvelope
  MaxSnapshot = 1
  MaxStops = 2
SYMMETRY Symmetry
INVARIANT WriterIsAuthorized
INVARIANT RecordsValid
INVARIANT StoppedRunsGoOn
PROPERTY RepeatedRequestsAreFree
PROPERTY DecisionsAreCurrent
CHECK_DEADLOCK FALSE
