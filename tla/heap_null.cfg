CONSTANTS
  c1 = c1
  c2 = c2
  NULL = NULL
  Cores <- MCCores
  Pools <- MCPools
  Geometry <- MCGeometry
SPECIFICATION Spec
SYMMETRY CoreSymmetry
CHECK_DEADLOCK FALSE
CONSTANTS
  NumSub = 2
  SPL = 1
  SlotsPerSub = 2
  NumFrames = 6
  MaxAllocs = 6
PROPERTY NoSpuriousNull
