\* One mutator racing gc_new against two full collection cycles: the list
\* matches the heap, implements AllObjects, and every cycle completes.
CONSTANTS
  o1 = o1
  o2 = o2
  corelib = corelib
  NULL = NULL
  BLUE = BLUE
  NumMutators = 1
  Obj <- MCObj
  Corelib = corelib
  MaxCycles = 2
  StorePaths = {"stfld", "gc_update"}
SPECIFICATION Spec
INVARIANT TypeOK
INVARIANT ListMatchesHeap
PROPERTY AllObjectsRefinement
PROPERTY CycleCompletes
CHECK_DEADLOCK FALSE
