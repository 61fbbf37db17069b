SPECIFICATION Spec
CONSTANTS
  Clerks = {c1, c2}
  Servers = {s1, s2}
SYMMETRY Symmetry
INVARIANT CutOff
INVARIANT Reopened
INVARIANT DeletedOnce
INVARIANT NoGhosts
\* A test ends.
CHECK_DEADLOCK FALSE
