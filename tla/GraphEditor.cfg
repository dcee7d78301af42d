SPECIFICATION Spec
CONSTANTS
  MaxIds = 2
  SavedIds = 1
  MaxEdits = 1
  MaxCalls = 1
  MaxUpset = 1
  Nil = Nil
INVARIANTS
  TypeOK
  NothingLostUnasked
  CleanIsSaved
