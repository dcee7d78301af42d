SPECIFICATION Spec
CONSTANTS
  MaxBoots = 2
  RconReady = FALSE
  ReadersLag = TRUE
INVARIANTS
  HealthyServerNeverKilled
