\* Pointers as reference types: jit_push puts a pointer in a register,
\* jit_pop gives back a frame slot.
CONSTANTS
  Methods <- MCMethods
  PtrIsValueType = FALSE
SPECIFICATION Spec
INVARIANT OperandsMatchStack
CHECK_DEADLOCK FALSE
