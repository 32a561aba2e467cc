CONSTANTS
  NULL = NULL
  PoolSpan <- MCPoolSpan
  Inputs <- MCSmallInputs
SPECIFICATION Spec
INVARIANT AllocSizeClass
