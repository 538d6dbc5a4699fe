SPECIFICATION Spec
CONSTANTS
  v1 = v1
  v2 = v2
  Keys = {0, 2, 5, 6}
  SignedMax = 3
  Values = {v1}
  Size <- UnitSize
  DEL = DEL
  Empty = Empty
  Level0 = 0
  Upper1 = 1
  Fanout = 3
  TableSize = 2
  InitialSize = 1
  ClearedSize = 0
  PairSize = 0
  Word = 16
  MaxFlushes = 5
INVARIANTS
  GetReturnsLastPut
