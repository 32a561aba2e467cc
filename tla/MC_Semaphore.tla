---------------------------- MODULE MC_Semaphore ----------------------------
EXTENDS Semaphore, TLC

CONSTANTS t1, t2, t3

MCThreads == {t1, t2, t3}

\* threads are interchangeable: no property names one
ThreadSymmetry == Permutations(MCThreads)
=============================================================================
