SPECIFICATION Spec
CONSTANTS
  Products = {p}
  Quantities = {1}
  Views = {v1, v2, v3}
  Launches = {l1}
  NavigatePops = FALSE
  MaxStack = 5
  MaxFetches = 1
  None = None
SYMMETRY Symmetry
INVARIANTS
  AppInv
  DiskIsPast
  ResultShowsTransaction
  CardBehindPayment
CHECK_DEADLOCK FALSE
