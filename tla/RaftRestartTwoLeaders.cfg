SPECIFICATION SpecR
CONSTANTS
  Peers = {p1, p2, p3}
  None = None
  MaxElections = 2
  Lossy = FALSE
  MaxRestarts = 1
SYMMETRY Symmetry
INVARIANT ElectionSafety
\* A panicked process stops.
CHECK_DEADLOCK FALSE
