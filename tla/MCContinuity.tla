--------------------------- MODULE MCContinuity -----------------------------
EXTENDS Continuity, TLC

Symmetry == Permutations(Process) \cup Permutations(Id)
=============================================================================
