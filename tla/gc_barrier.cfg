\* Does the write barrier log a white object written while tracing?
CONSTANTS
  o1 = o1
  o2 = o2
  corelib = corelib
  NULL = NULL
  BLUE = BLUE
  NumMutators = 1
  Obj <- MCObj
  Corelib = corelib
  MaxCycles = 1
  StorePaths = {"stfld", "gc_update"}
SPECIFICATION Spec
PROPERTY BarrierLogsWhite
CHECK_DEADLOCK FALSE
