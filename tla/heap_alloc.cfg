CONSTANTS
  c1 = c1
  c2 = c2
  NULL = NULL
  Cores <- MCCores
  Pools <- MCPools
  Geometry <- MCGeometry
SPECIFICATION Spec
CHECK_DEADLOCK FALSE
CONSTANTS
  NumSub = 4
  SPL = 2
  SlotsPerSub = 1
  NumFrames = 5
  MaxAllocs = 3
INVARIANT TypeOK
INVARIANT FramesConserved
INVARIANT RegionLockDiscipline
PROPERTY AllocReturns
