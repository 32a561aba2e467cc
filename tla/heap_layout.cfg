CONSTANTS
  NULL = NULL
  PoolSpan <- MCPoolSpan
  Inputs <- MCLayoutInputs
SPECIFICATION Spec
INVARIANT AllocSizeClass
INVARIANT AllocScansUnderOwnLock
