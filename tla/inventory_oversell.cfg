SPECIFICATION Spec
CONSTANTS
  Products = {p1}
  Orders = {o1, o2}
  Workers = {w1, w2}
  Admins = {}
  MaxAdjustment = 0
  MaxStock = 2
  MaxQuantity = 1
  MaxItems = 1
  MaxCancels = 2
  MaxAdjustments = 0
INVARIANTS
  NeverOversold
CHECK_DEADLOCK FALSE
