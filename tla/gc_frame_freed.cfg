\* Is an object held in a shadow frame ever swept?
CONSTANTS
  o1 = o1
  o2 = o2
  corelib = corelib
  NULL = NULL
  BLUE = BLUE
  NumMutators = 1
  Obj <- MCObj
  Corelib = corelib
  MaxCycles = 1
  StorePaths = {"stfld", "gc_update"}
SPECIFICATION Spec
INVARIANT FrameObjectsLive
CHECK_DEADLOCK FALSE
