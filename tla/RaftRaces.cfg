SPECIFICATION LiveSpec
CONSTANTS
  Peers = {p1, p2, p3}
  None = None
  MaxElections = 2
  Lossy = FALSE
INVARIANT TypeOK
INVARIANT OneVotePerTerm
INVARIANT ElectionSafety
INVARIANT VotesBacked
INVARIANT HeartbeatsFromElected
PROPERTY DeposedByNewerTerm
PROPERTY PromisesKept
PROPERTY QuorumElects
\* A panicked process stops.
CHECK_DEADLOCK FALSE
