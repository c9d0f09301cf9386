SPECIFICATION FairSpec
CONSTANTS
  Orders = {o1}
  Clients = {c1}
  MaxCancels = 0
  Faults = {"rollback", "republish"}
INVARIANTS
  StepsOnce
  ModulesAgree
PROPERTIES
  FollowsLifecycle
  OrdersResolve
  CancellationCompletes
CHECK_DEADLOCK FALSE
