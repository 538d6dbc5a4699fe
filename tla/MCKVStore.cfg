SPECIFICATION Spec
CONSTANTS
  v1 = v1
  v2 = v2
  Keys = {2, 5, 6}
  SignedMax = 3
  Values = {v1, v2}
  Size <- MixedSize
  DEL = DEL
  Empty = Empty
  Level0 = 1
  Upper1 = 1
  Fanout = 3
  TableSize = 4
  InitialSize = 1
  ClearedSize = 0
  PairSize = 0
  Word = 16
  MaxFlushes = 4
INVARIANTS
  ReadYourWrites
  DisjointLevels
  RangeCovers
  TimestampOrder
  LevelBounds
  NoMarkAtBottom
  FilesMatch
PROPERTIES
  ImplementsMap
