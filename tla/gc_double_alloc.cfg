\* Two mutators in gc_new at once: can they be handed the same slot?
CONSTANTS
  o1 = o1
  o2 = o2
  corelib = corelib
  NULL = NULL
  BLUE = BLUE
  NumMutators = 2
  Obj <- MCObj
  Corelib = corelib
  MaxCycles = 1
  StorePaths = {"stfld", "gc_update"}
SPECIFICATION Spec
INVARIANT DistinctAllocations
CHECK_DEADLOCK FALSE
