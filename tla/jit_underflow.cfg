\* pop, ret, conv and the argument loops of call and newobj on a short
\* stack, and an empty method body.
CONSTANTS
  Methods <- MCMethods
  PtrIsValueType = TRUE
SPECIFICATION Spec
INVARIANT ReadsWithinBounds
CHECK_DEADLOCK FALSE
