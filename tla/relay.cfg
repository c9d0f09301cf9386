SPECIFICATION FairSpec
CONSTANTS
  NRows = 2
  Relays = {p1, p2}
  Limit = 2
  Faults = {"drop", "full", "dberror", "crash"}
  MaxFaults = 2
INVARIANTS
  TypeOK
  CopiesHaveCause
PROPERTIES
  KeepsPromise
  EventuallyPublished
CHECK_DEADLOCK FALSE
