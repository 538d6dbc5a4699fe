SPECIFICATION CacheSpec
SYMMETRY Symmetry
CONSTANTS
  Zones <- TwoZones
  Tables = {t1, t2}
  TablesPerZone = 2
  NoAddr = NoAddr
  cap = 2
  SlotPages = 3
  HeaderPages = 1
  NoTable = NoTable
  None = None
INVARIANTS
  DeletedUncached
