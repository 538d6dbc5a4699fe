SPECIFICATION Spec
CONSTANTS
  v1 = v1
  v2 = v2
  v3 = v3
  Keys = {1, 2, 3}
  DEL = DEL
  Size <- MixedSize
  TableSize = 4
  InitialSize = 0
  PairSize = 1
  Inputs <- AllInputs
INVARIANTS
  HeadsTracked
  MergeIsRight
PROPERTIES
  MergeEnds
