SPECIFICATION FairSpec
CONSTANTS
  Graphs = {g1, g2}
  Slots = {1, 2}
  MaxMoves = 3
  MaxRestarts = 1
  MaxNodes = 3
  MaxQueue = 2
  MaxHistory = 1
  Nothing = Nothing
CHECK_DEADLOCK FALSE
INVARIANTS
  TypeOK
  OneRunPerGraph
  
PROPERTY EveryRunSettles
