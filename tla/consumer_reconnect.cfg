SPECIFICATION Spec
CONSTANTS
  Messages = {m1, m2}
  Ignored = {}
  Procs = {p1}
  ImmediateRetries = 0
  DelayedRetries = 0
  Prefetch = 1
  MaxCopies = 1
  Faults = {"drop", "crash"}
  MaxFaults = 2
INVARIANTS
  ZeroLoss
CHECK_DEADLOCK FALSE
