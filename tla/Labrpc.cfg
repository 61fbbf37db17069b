SPECIFICATION LiveSpec
CONSTANTS
  Calls = {c1}
  Ends = {e1}
  Names = {s1, s2}
  Nil = Nil
  MaxServers = 2
INVARIANT TypeOK
PROPERTY ImplementsAtMostOnce
PROPERTY CallReturns
