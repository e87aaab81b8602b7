SPECIFICATION SystemSpec
CONSTANTS
  ProductIds = {p}
  ValidIds = {p}
  Catalog = {p}
  InitialStock <- Units2
  Price <- OneCent
  Quantities = {1}
  MaxInt4 = 2
  Txns = {v1, v2}
  Pays = {v1, v2}
  MinPolls = 1
  MaxPolls = 1
  PspUniqueReference = FALSE
  Launches = {l1}
  NavigatePops = TRUE
  MaxStack = 2
  MaxFetches = 1
  None = None
SYMMETRY Symmetry
CONSTRAINT KilledWithOnePayment

  
  
  
PROPERTIES
  BackendServesApp
  
CHECK_DEADLOCK FALSE
