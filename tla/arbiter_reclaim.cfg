CONSTANTS
  c1 = c1
  c2 = c2
  c3 = c3
  p1 = p1
  p2 = p2
  p3 = p3
  Calls = {c1, c2, c3}
  Inspectors = {c3}
  Procs = {p1, p2, p3}
  ProcOf <- ApartOf
  HostOf <- OneHost
  NumSlots = 1
  Kind = "eda"
  MaxCancels = 1
  EventFaults = TRUE
  SlotFaults = FALSE
  DockerFaults = FALSE
  NoCall = NoCall
  NoProc = NoProc
SPECIFICATION FairSpec
CHECK_DEADLOCK FALSE
INVARIANT
  NoSlotLost
PROPERTY
  RequestsServed
