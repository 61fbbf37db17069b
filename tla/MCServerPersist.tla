-------------------------- MODULE MCServerPersist --------------------------
EXTENDS ServerPersist, TLC
Symmetry == Permutations(Calls)
=============================================================================
