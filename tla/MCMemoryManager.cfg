SPECIFICATION Spec
SYMMETRY Symmetry
CONSTANTS
  Zones = {z1, z2, z3, z4}
  Tables = {t1, t2, t3, t4}
  TablesPerZone = 3
  OpenZones = 2
  MinEmpty = 2
  SparseTables = 1
  NoTable = NoTable
  NoZone = NoZone
  NoAddr = NoAddr
INVARIANTS
  TypeOK
  ZonesAccounted
  ResetQueueIsFull
  MapsInverse
  NoZnsError
  ReadsHitWrittenSlots
  DeleteAssertion
  NoZoneRace
  EvictHasVictim
  RelocationAccounted
  RelocationCredits
PROPERTIES
  ImplementsTableSpace
