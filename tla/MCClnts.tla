------------------------------ MODULE MCClnts ------------------------------
EXTENDS Clnts, TLC

Symmetry == Permutations(Clerks) \cup Permutations(Servers)
=============================================================================
