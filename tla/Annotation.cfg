SPECIFICATION Spec
CONSTANTS
  Servers = {s1, s2}
  MaxTime = 7
SYMMETRY Symmetry
INVARIANT TimelineFaithful
PROPERTY HistoryKept
\* The clock ends at MaxTime.
CHECK_DEADLOCK FALSE
