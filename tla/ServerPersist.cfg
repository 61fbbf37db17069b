SPECIFICATION SpecP
CONSTANTS
  Calls = {c1}
  Ends = {e1}
  Names = {s1}
  Nil = Nil
  MaxServers = 3
INVARIANT AcknowledgedSurvives
PROPERTY FrozenWhileDown
