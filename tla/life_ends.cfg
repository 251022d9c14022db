SPECIFICATION FairSpec
CONSTANTS
  v1 = v1
  v2 = v2
  Violations <- MCViolations
  UnsupportedRule = {}
  MaxIterations = 2
  MaxWindows = 1
  MaxNoProgress = 2
  SandboxJobs = 5
  Costs = {0, 3}
  MaxStops = 1
PROPERTY RunEnds
CHECK_DEADLOCK FALSE
