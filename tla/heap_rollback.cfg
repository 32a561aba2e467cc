CONSTANTS
  c1 = c1
  c2 = c2
  NULL = NULL
  Cores <- MCCores
  Pools <- MCPools8k
  Geometry <- MCGeometry8k
SPECIFICATION Spec
SYMMETRY CoreSymmetry
CHECK_DEADLOCK FALSE
CONSTANTS
  NumSub = 2
  SPL = 1
  SlotsPerSub = 1
  NumFrames = 3
  MaxAllocs = 3
INVARIANT ReturnedObjectsMapped
