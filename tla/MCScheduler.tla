----------------------------- MODULE MCScheduler -----------------------------
EXTENDS Scheduler, TLC
Symmetric == Permutations(Thread \ {InitThread, FirstProcess})
==============================================================================
