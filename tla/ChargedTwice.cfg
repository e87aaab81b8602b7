SPECIFICATION Spec
CONSTANTS
  A = A
  B = B
  Unknown = Unknown
  ProductIds = {A}
  ValidIds = {A}
  Catalog = {A}
  InitialStock <- TwoUnits
  Price <- FreeB
  Quantities = {1}
  MaxInt4 = 2
  Txns = {t1}
  Pays = {r1, r2}
  MinPolls = 1
  MaxPolls = 1
  PspUniqueReference = FALSE
  None = None
INVARIANTS
  ChargedOnce
CHECK_DEADLOCK FALSE
