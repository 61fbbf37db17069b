SPECIFICATION Spec
CONSTANTS
  Peers = {p1, p2, p3}
  None = None
  MaxElections = 1
  Lossy = FALSE
INVARIANT NoPanic
\* A panicked process stops.
CHECK_DEADLOCK FALSE
