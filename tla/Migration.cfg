SPECIFICATION FairMigrationSpec
CONSTANTS
  ProductIds = {L, F, B, Unknown}
  ValidIds = {F, B, Unknown}
  Catalog = {L, B}
  InitialStock <- ThreeUnits
  Price <- FreeB
  Quantities = {1, 2, 3}
  MaxInt4 = 2
  Txns = {t1, t2}
  Pays = {r1}
  MinPolls = 1
  MaxPolls = 2
  PspUniqueReference = FALSE
  None = None
  LegacyId = L
  FixedId = F
  L = L
  F = F
  B = B
  Unknown = Unknown
INVARIANTS
  ForeignKeysHold
  DeliveryMatchesOrder
  OrdersArePriced
PROPERTIES
  PaysAreAnswered
CHECK_DEADLOCK FALSE
