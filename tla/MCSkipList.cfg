SPECIFICATION Spec
CONSTANTS
  v2 = v2
  v3 = v3
  v4 = v4
  DEL = DEL
  Empty = Empty
  Keys = {1, 2, 3, 6, 7}
  HeadKey = 7
  Strings = {v2, v3, v4}
  Size <- Lengths
  SignedMax = 4
  TableSize = 10
  InitialSize = 2
  ClearedSize = 0
  PairSize = 2
  EntrySize = 1
  PageSize = 2
  Bits <- Hash
  Word = 32
  MaxLevels = 3
  MaxFlushes = 3
INVARIANTS
  Towers
  InsideSlot
  PairsReadable
PROPERTIES
  ImplementsMemtable
