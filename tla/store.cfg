SPECIFICATION Spec
CONSTANTS
  c1 = c1
  c2 = c2
  Configs = {c1, c2}
  Nothing = Nothing
  Garbage = Garbage
  GenModulus = 8
  ReadFailures <- ReadsMayFail
  UnmarkMayFail = TRUE
  MaxDamage = 2
INVARIANTS
  TypeOK
  GenerationsAdjacent
  TwoCopies
  OkMeansWritten
PROPERTIES
  StoreIsRegister
