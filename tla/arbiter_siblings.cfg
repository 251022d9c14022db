CONSTANTS
  c1 = c1
  c2 = c2
  c3 = c3
  p1 = p1
  p2 = p2
  p3 = p3
  Calls = {c1, c2, c3}
  Inspectors = {}
  Procs = {p1, p2}
  ProcOf <- SiblingsOf
  HostOf <- OneHost
  NumSlots = 1
  Kind = "http"
  MaxCancels = 0
  EventFaults = FALSE
  SlotFaults = FALSE
  DockerFaults = FALSE
  NoCall = NoCall
  NoProc = NoProc
SPECIFICATION Spec
CHECK_DEADLOCK FALSE
INVARIANT
  SlotExclusion
