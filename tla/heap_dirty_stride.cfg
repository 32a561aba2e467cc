CONSTANTS
  NULL = NULL
  PoolSpan <- MCPoolSpan
  Inputs <- MCPageInputs
SPECIFICATION Spec
INVARIANT DirtyPageVisitsAllSlots
