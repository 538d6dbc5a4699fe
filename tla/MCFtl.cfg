SPECIFICATION Spec
CONSTANTS
  num_fcg = 2
  nchs = 4
  luns_per_ch = 2
  blks_per_pl = 4
  pgs_per_blk = 2
  zone_blks = 4
  WriteSizes = {1, 3}
  WrittenZones = {2, 3, 4, 6}
  Erased = Erased
INVARIANTS
  FullWhenWritten
  FlashHoldsZones
  ReadsFindPages
