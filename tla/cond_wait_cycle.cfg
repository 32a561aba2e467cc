\* Does gc_wait return only after a collection cycle that ran after the call?
CONSTANTS
  m1 = m1
  m2 = m2
  gc = gc
  boot = boot
  NULL = NULL
  Mutators = {m1, m2}
  GC = gc
  Boot = boot
  Calls = {"gc_wait"}
  MaxCalls = 2
SPECIFICATION Spec
PROPERTY GcWaitReturnsAfterCycle
CHECK_DEADLOCK FALSE
