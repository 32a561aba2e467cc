-------------------------------- MODULE MC_GC --------------------------------
(* Model-checking instance of GC: the slots and the boot object as model    *)
(* values.                                                                  *)
EXTENDS GC

CONSTANTS o1, o2, corelib

MCObj == {o1, o2}
=============================================================================
