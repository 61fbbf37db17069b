--------------------------- MODULE MCRaftElection ---------------------------
EXTENDS RaftElection, TLC
Symmetry == Permutations(Peers)
=============================================================================
