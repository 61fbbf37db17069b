SPECIFICATION SpecR
CONSTANTS
  Peers = {p1, p2, p3}
  None = None
  MaxElections = 2
  Lossy = TRUE
  MaxRestarts = 2
SYMMETRY Symmetry
INVARIANT SplitByForgotten
\* A panicked process stops.
CHECK_DEADLOCK FALSE
