SPECIFICATION FairSpec
CONSTANTS
  MaxTries = 3
  MaxCalls = 1
  MaxFails = 0
  MaxDrops = 1
PROPERTIES
  CallsReturn
CHECK_DEADLOCK FALSE
