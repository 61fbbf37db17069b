SPECIFICATION LiveSpec
CONSTANTS
  NShards = 6
  Gids = {1, 2, 3, 4}
  MaxNum = 4
INVARIANT TypeOK
INVARIANT ConfigChecked
INVARIANT FewestMoves
PROPERTY RebalanceEnds
\* Configurations end at MaxNum.
CHECK_DEADLOCK FALSE
