CONSTANTS
  b1 = b1
  b2 = b2
  Sessions = {b1, b2}
  Disk = 4
  Reserve = 1
  MaxUpload = 2
  Growth = {0, 1}
  MaxOthers = 1
  MaxFiles = 2
  MaxShares = 2
  MaxDeaths = 1
  MaxOutputs = 1
  MaxShown = 1
  MaxRenders = 2
  MaxLinks = 2
  MaxBoth = 3
  MaxKills = 1
SPECIFICATION FilesSpec
INVARIANTS
  ListedIsStored
  OrphansHaveACause
  ServedAsListed
  LinkEndsForGood
PROPERTIES
  ReserveKept
CHECK_DEADLOCK FALSE
