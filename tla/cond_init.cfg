\* Does init_gc return whichever of the boot and GC threads takes the mutex first?
CONSTANTS
  m1 = m1
  m2 = m2
  gc = gc
  boot = boot
  NULL = NULL
  Mutators = {}
  GC = gc
  Boot = boot
  Calls = {"gc_wait"}
  MaxCalls = 0
SPECIFICATION Spec
PROPERTY InitReturns
CHECK_DEADLOCK FALSE
