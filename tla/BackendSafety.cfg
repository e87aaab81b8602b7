SPECIFICATION Spec
CONSTANTS
  A = A
  B = B
  Unknown = Unknown
  ProductIds = {A}
  ValidIds = {A}
  Catalog = {A}
  InitialStock <- TwoUnits
  Price <- FreeB
  Quantities = {1, 2}
  MaxInt4 = 2
  Txns = {t1, t2}
  Pays = {r1, r2}
  MinPolls = 1
  MaxPolls = 2
  PspUniqueReference = FALSE
  None = None
SYMMETRY Symmetry
INVARIANTS
  TypeOK
  StockConserved
  OneDeliveryPerTransaction
  DeliveryIsPaid
  ApprovedIsDelivered
  RepliesAreHonest
  AlreadyProcessedIsSettled
PROPERTIES
  GoodsAlwaysMoveTogether
  NeverReopened
  ImplementsLedger
CHECK_DEADLOCK FALSE
