SPECIFICATION Spec
CONSTANTS
  Products = {p}
  Quantities = {1}
  Views = {v1, v2, v3}
  Launches = {}
  NavigatePops = FALSE
  MaxStack = 6
  MaxFetches = 1
  None = None
SYMMETRY Symmetry
INVARIANTS
  OnePaymentPerPress
CHECK_DEADLOCK FALSE
