\* Does an acquire on a semaphore with no permit fail?
CONSTANTS
  t1 = t1
  t2 = t2
  t3 = t3
  NULL = NULL
  Threads <- MCThreads
  InitValue = 1
  MaxOps = 6
  UINT32 = 256
SYMMETRY ThreadSymmetry
SPECIFICATION Spec
INVARIANT NoThreadFaults
CHECK_DEADLOCK FALSE
