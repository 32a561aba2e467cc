\* The shadow frame of every method of up to 3 instructions, with
\* pointers as value types (ldarg of a pointer parameter then CHECK_FAILs).
CONSTANTS
  Methods <- MCMethods
  PtrIsValueType = TRUE
SPECIFICATION Spec
INVARIANT FrameCoversUse
CHECK_DEADLOCK FALSE
