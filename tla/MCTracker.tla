----------------------------- MODULE MCTracker -----------------------------
EXTENDS TaskTracker, TLC
Symmetry == Permutations(Calls)
=============================================================================
