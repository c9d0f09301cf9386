SPECIFICATION Spec
CONSTANTS
  Orders = {o1}
  Clients = {c1}
  MaxCancels = 1
  Faults = {"rollback", "deadletter"}
INVARIANTS
  TypeOK
  NothingUnpaidShips
  UndoHasCause
  NoLimbo
PROPERTIES
  SettledIsFinal
CHECK_DEADLOCK FALSE
