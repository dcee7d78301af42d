SPECIFICATION RestoreSpec
CONSTANTS
  Dims = {overworld, nether, the_end}
  BestEffortFails = TRUE
  ServerStarts = TRUE
  NoDim = NoDim
CHECK_DEADLOCK FALSE
INVARIANTS
  RestoreTypeOK
  OldWorldNeverLost
  AllOrNothing
