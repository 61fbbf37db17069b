--------------------------- MODULE MCRaftRestart ---------------------------
EXTENDS RaftRestart, TLC
Symmetry == Permutations(Peers)
=============================================================================
