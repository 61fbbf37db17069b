SPECIFICATION Spec
CONSTANTS
  Clients = {c1, c2}
  Tester = Tester
  None = None
  MaxIter = 3
  MaxRounds = 2
  MaxMaybe = 1
INVARIANT NoFalseAlarm
INVARIANT LostPutsReported
PROPERTY WaitReturns
\* A test ends; a client that has failed leaves the tester waiting.
CHECK_DEADLOCK FALSE
