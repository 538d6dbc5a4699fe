----------------------------- MODULE TableSizes -----------------------------
(***************************************************************************)
(* The bytes of an SSTable, which the memtable, the compactions and the    *)
(* tables themselves all count (include/utils.h, LSM-Tree/SkipList.h).     *)
(***************************************************************************)
CONSTANTS
  Size,           \* Size[s] is s.size()
  TableSize,      \* DEFAULT_SSTABLE_SIZE
  InitialSize,    \* bytes of a table with no pairs: meta data and Bloom filter
  PairSize        \* bytes of a pair besides its value (4 + 8 + 1)
=============================================================================
