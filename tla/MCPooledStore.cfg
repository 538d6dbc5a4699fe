SPECIFICATION PooledFairSpec
CONSTANTS
  total = 3
  div = 1
  Zones <- NumberedZones
  Tables = {t1, t2, t3, t4}
  TablesPerZone = 2
  OpenZones = 1
  MinEmpty = 2
  SparseTables = 1
  NoTable = NoTable
  NoZone = NoZone
  NoAddr = NoAddr
INVARIANTS
  PoolMatches
  RelocationHasRoom
PROPERTIES
  WriteReturns
