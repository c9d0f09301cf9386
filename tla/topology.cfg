SPECIFICATION FairSpec
CONSTANTS
  Consumers = {"inventory", "payment"}
  Published = {"OrderPlaced", "InventoryReserved"}
  MaxDelayed = 2
  MaxCrashes = 1
INVARIANTS
  TypeOK
  OfflineIsSafe
  OneCopy
  RetriesStayHome
  RefusedAtFirstOnly
PROPERTIES
  OwedIsServed
CHECK_DEADLOCK FALSE
