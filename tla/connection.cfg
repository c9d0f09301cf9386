SPECIFICATION FairSpec
CONSTANTS
  MaxTries = 3
  MaxCalls = 3
  MaxFails = 5
  MaxDrops = 4
INVARIANTS
  TypeOK
  NoMoreThanCalls
  GivesUpLate
  StaysDown
PROPERTIES
  Recovers
CHECK_DEADLOCK FALSE
