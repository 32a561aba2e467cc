\* gc_wait callers racing unlocked gc_wake callers: does gc_wait still return only after the conductor ran again?
CONSTANTS
  m1 = m1
  m2 = m2
  gc = gc
  boot = boot
  NULL = NULL
  Mutators = {m1, m2}
  GC = gc
  Boot = boot
  Calls = {"gc_wake", "gc_wait"}
  MaxCalls = 2
SPECIFICATION Spec
PROPERTY GcWaitReturnsAfterNext
CHECK_DEADLOCK FALSE
