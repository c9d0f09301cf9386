SPECIFICATION Spec
CONSTANTS
  Products = {p1, p2}
  Orders = {o1, o2}
  Workers = {w1, w2}
  Admins = {a1}
  MaxAdjustment = 1
  MaxStock = 1
  MaxQuantity = 1
  MaxItems = 2
  MaxCancels = 2
  MaxAdjustments = 1
SYMMETRY Symmetry
INVARIANTS
  TypeOK
  NonNegative
  Conservation
  Backed
  OnlyRefusalsStrand
CHECK_DEADLOCK FALSE
