\* Are references stored by JIT-compiled code during the snoop window rooted?
CONSTANTS
  o1 = o1
  o2 = o2
  corelib = corelib
  NULL = NULL
  BLUE = BLUE
  NumMutators = 1
  Obj <- MCObj
  Corelib = corelib
  MaxCycles = 2
  StorePaths = {"stfld"}
SPECIFICATION Spec
INVARIANT SnoopedStoresRooted
CHECK_DEADLOCK FALSE
