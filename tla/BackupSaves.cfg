SPECIFICATION Spec
CONSTANTS
  Backups = {b1, b2}
  Duplicates = {d1}
  Restores = {r1}
  Nil = Nil
  MaxBoots = 3
INVARIANTS
  TypeOK
  QuiescedBootStaysQuiet
  AutosaveComesBack
