---------------------------- MODULE MC_Conductor ----------------------------
EXTENDS Conductor

CONSTANTS m1, m2, gc, boot
=============================================================================
