CONSTANTS
  NULL = NULL
  PoolSpan <- MCPoolSpan
  Inputs <- MCFindInputs
SPECIFICATION Spec
INVARIANT FindContainsPointer
