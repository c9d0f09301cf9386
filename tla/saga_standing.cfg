SPECIFICATION Spec
CONSTANTS
  Orders = {o1}
  Clients = {c1}
  MaxCancels = 1
  Faults = {}
INVARIANTS
  CancelReverses
CHECK_DEADLOCK FALSE
