\* Native stores through gc_update during the snoop window of two cycles, two mutators.
CONSTANTS
  o1 = o1
  o2 = o2
  corelib = corelib
  NULL = NULL
  BLUE = BLUE
  NumMutators = 2
  Obj <- MCObj
  Corelib = corelib
  MaxCycles = 2
  StorePaths = {"gc_update"}
SPECIFICATION Spec
INVARIANT SnoopedStoresRooted
CHECK_DEADLOCK FALSE
