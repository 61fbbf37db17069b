------------------------------ MODULE MCRfSrv ------------------------------
EXTENDS RfSrv, TLC

Symmetry == Permutations(Servers) \cup Permutations(Cmds)
=============================================================================
