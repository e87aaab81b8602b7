SPECIFICATION SerialSpec
CONSTANTS
  A = A
  B = B
  Unknown = Unknown
  ProductIds = {A}
  ValidIds = {A}
  Catalog = {A}
  InitialStock <- OneUnit
  Price <- FreeB
  Quantities = {1}
  MaxInt4 = 2
  Txns = {t1, t2}
  Pays = {r1, r2}
  MinPolls = 1
  MaxPolls = 2
  PspUniqueReference = FALSE
  None = None
INVARIANTS
  ApprovedChargeIsDelivered
CHECK_DEADLOCK FALSE
