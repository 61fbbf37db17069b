--------------------------- MODULE MCAnnotation ---------------------------
EXTENDS Annotation, TLC

Symmetry == Permutations(Servers)
=============================================================================
