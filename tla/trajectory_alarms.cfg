SPECIFICATION Spec
CONSTANTS
  v1 = v1
  v2 = v2
  a = a
  b = b
  c = c
  Violations <- MCViolations
  RegionOrder <- MCOrder
  Dofs <- MCDofs
  SceneOf <- MCSceneOf
  Worlds <- MCWorlds
  Plans <- MCPlans
  MaxOps = 2
  MaxDepth = 2
  MaxCandidates = 1
  LiveBudget = 1
INVARIANT FailuresReachRuntime
CHECK_DEADLOCK FALSE
