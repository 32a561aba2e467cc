CONSTANTS
  NULL = NULL
  PoolSpan <- MCPoolSpan
  Inputs <- MCCpuInputs
SPECIFICATION Spec
INVARIANT LockIndexInBounds
