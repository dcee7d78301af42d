SPECIFICATION FairSpec
CONSTANTS
  MaxBoots = 1
  RconReady = TRUE
  ReadersLag = FALSE
PROPERTIES
  StopsReturn
  StartingResolves
  CrashedProcessEnds
  KeepsFairContract
