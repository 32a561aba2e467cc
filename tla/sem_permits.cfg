\* Three threads racing acquires and releases on a one-permit semaphore.
CONSTANTS
  t1 = t1
  t2 = t2
  t3 = t3
  NULL = NULL
  Threads <- MCThreads
  InitValue = 1
  MaxOps = 6
  UINT32 = 256
SYMMETRY ThreadSymmetry
SPECIFICATION Spec
INVARIANT TypeOK
INVARIANT NoAcquireWithoutPermit
CHECK_DEADLOCK FALSE
