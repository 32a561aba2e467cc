\* Is a request made through gc_wake always served?
CONSTANTS
  m1 = m1
  m2 = m2
  gc = gc
  boot = boot
  NULL = NULL
  Mutators = {m1}
  GC = gc
  Boot = boot
  Calls = {"gc_wake"}
  MaxCalls = 2
SPECIFICATION Spec
PROPERTY GcWakeServed
CHECK_DEADLOCK FALSE
