SPECIFICATION Spec
CONSTANTS
  MaxBoots = 2
  RconReady = FALSE
  ReadersLag = FALSE
INVARIANTS
  TypeOK
  HealthyServerNeverKilled
  NoResurrection
PROPERTIES
  CrashWins
  ExpectedIsDeliberate
  StopReturnsAfterStopped
  KeepsContract
