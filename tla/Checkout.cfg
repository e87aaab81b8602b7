SPECIFICATION FairSpec
CONSTANTS
  Products = {p, q}
  Quantities = {1}
  Views = {v1, v2, v3}
  Launches = {}
  NavigatePops = TRUE
  MaxStack = 2
  MaxFetches = 2
  None = None
INVARIANTS
  ReceiptNamesOrder
  
  
  
  

  
CHECK_DEADLOCK FALSE
