SPECIFICATION MCSpec
CONSTANTS
  Scopes <- MCScopes
  Regions <- MCRegions
  Violations <- MCViolations
  Graphs <- MCGraphs
  Engineering <- MCEngineering
  MaxParallel = 2
  MaxActiveRegions = 3
  TopK = 2
  MaxNonNoop = 2
  MaxWindows = 2
  Candidates <- MCCandidates
  Objects <- MCObjects
  Budgets <- MCBudgets
  Uncompilable <- MCUncompilable
  Isolated <- MCIsolated
  BundleLists <- MCBundleLists
  MaxActions = 3
  MaxObjects = 3
  MaxBundle = 3
  MaxReplays = 3
  Reported <- MCReported
  LayoutObjects <- MCLayout
  Designs <- MCDesigns
  Access <- MCAccess
  MaxGap = 3
  HaloMin = 1
  HaloMax = 3
  SeedWindow = 6
  Micron = 3
  Nearby = 1
  MaxMarkers = 2
  MaxRegionObjects = 3
  MaxSpan = 12
  MaxTokens = 700
  Rule <- MCRule
  Witness <- MCWitness
  MinWindow = 2
  Grid = 2
  Cases <- MCCases
  MaxDistance = 6
INVARIANTS
  RegionsAreSound
  NeighboursAreTold
  ContextIsSound
  WindowIsSound
  CoordinationIsExact
  BatchesAndBlame
  CandidatesAreSound
CHECK_DEADLOCK FALSE
