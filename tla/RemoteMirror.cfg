SPECIFICATION FairSpec
CONSTANTS
  Sockets = {k1, k2}
  Cap = 2
  SendBuffer = 2
  MaxSeq = 3
  MaxRuns = 2
  MaxTrouble = 1
  Nil = Nil
CHECK_DEADLOCK FALSE
INVARIANTS
  TypeOK
  
PROPERTIES
  RevokedGoesQuiet
  CatchesUp
