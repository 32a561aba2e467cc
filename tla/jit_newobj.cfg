\* newobj holds the new object only in a temp register across its
\* constructor call.
CONSTANTS
  Methods <- MCMethods
  PtrIsValueType = TRUE
SPECIFICATION Spec
INVARIANT RefsRootedAtSafepoints
CHECK_DEADLOCK FALSE
