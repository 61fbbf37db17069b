SPECIFICATION Spec
CONSTANTS
  Servers = {s1, s2}
  Cmds = {a, b}
  None = None
  SnapShotInterval = 1
  MaxIndex = 2
  MaxStarts = 3
SYMMETRY Symmetry
INVARIANT DisagreementReported
INVARIANT GapsReported
INVARIANT LiveNeverBlamed
INVARIANT SnapshotsComplete
\* The test's process exits with the first error, and the bounds are reached.
CHECK_DEADLOCK FALSE
