SPECIFICATION FairSpec
CONSTANTS
  Messages = {m1, m2}
  Ignored = {m2}
  Procs = {p1}
  ImmediateRetries = 1
  DelayedRetries = 1
  Prefetch = 2
  MaxCopies = 1
  Faults = {"drop", "crash", "lostcommit"}
  MaxFaults = 1
INVARIANTS
  TypeOK
  ExactlyOnce
  NothingLost
  AttemptsBounded
PROPERTIES
  Drains
  ServesMailbox
CHECK_DEADLOCK FALSE
