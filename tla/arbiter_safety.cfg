CONSTANTS
  c1 = c1
  c2 = c2
  c3 = c3
  p1 = p1
  p2 = p2
  p3 = p3
  Calls = {c1, c2, c3}
  Inspectors = {}
  Procs = {p1, p2, p3}
  ProcOf <- ApartOf
  HostOf <- TwoHosts
  NumSlots = 2
  Kind = "eda"
  MaxCancels = 0
  EventFaults = TRUE
  SlotFaults = TRUE
  DockerFaults = FALSE
  NoCall = NoCall
  NoProc = NoProc
SYMMETRY Interchange
SPECIFICATION Spec
CHECK_DEADLOCK FALSE
INVARIANTS
  TypeOK
  SlotExclusion
  OrphanStaysVisible
  LeaseKeepsLock
PROPERTY
  ImplementsPool
