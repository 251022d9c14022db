SPECIFICATION FairSpec
CONSTANTS
  p1 = p1
  p2 = p2
  r1 = r1
  r2 = r2
  r3 = r3
  r4 = r4
  Subgraphs <- MCSubgraphs
  Regions <- MCRegions
  SubgraphOf <- MCSubgraphOf
  Context <- MCContext
  Helpers <- MCHelpers
  Assisted <- MCAssisted
  Violations <- MCViolations
  ViolationsOf <- MCViolationsOf
  Claimed <- MCClaimed
  UnsupportedBy <- MCUnsupported
  MaxConcurrent = 2
  EdaSlots = 1
  TopM = 1
  SandboxJobs = 1
INVARIANTS
  WorkIsContained
  AttemptedIsOwnWork
  ChargeCoversTrials
PROPERTY PlanningEnds
CHECK_DEADLOCK FALSE
