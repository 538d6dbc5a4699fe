---------------------------- MODULE TableLayout ----------------------------
(***************************************************************************)
(* Where the pairs of an SSTable lie in its slot of a zone (the two        *)
(* constructors, search, getValue and traverse of LSM-Tree/Table.cpp, with *)
(* readTable of include/utils.cpp).  Places are bytes from the start of    *)
(* the slot, which is a multiple of TableSize.                             *)
(***************************************************************************)
EXTENDS TableSizes, Packing, Integers, Sequences, SequencesExt

CONSTANTS
  EntrySize,      \* bytes of an index entry: a key and an offset (12)
  PageSize,       \* DEFAULT_PAGE_SIZE
  Bits            \* Bits[key]: the bits of the Bloom filter that MurmurHash3 maps key to

ASSUME LayoutAssumption ==
  /\ {InitialSize, EntrySize} \subseteq Nat /\ {TableSize, PageSize} \subseteq Nat \ {0}
  /\ PairSize = EntrySize + 1
  /\ TableSize % PageSize = 0

DataArea(pairNum) == InitialSize + pairNum * EntrySize

(* The bytes in front of each pair, when pair i is taken to need           *)
(* counted[i] and a "\0"; the last element is what they all need.          *)
curlength(counted) ==
  LET at[i \in 1 .. Len(counted) + 1] == IF i = 1 THEN 0 ELSE at[i - 1] + counted[i - 1] + 1
  IN at

Layout(keys, pairNum, counted, lo, hi) ==
  LET before == curlength(counted)
  IN [lo |-> lo, hi |-> hi,
      filter     |-> UNION {Bits[keys[i]] : i \in DOMAIN keys},
      key        |-> keys,
      offset     |-> [i \in DOMAIN keys |-> DataArea(pairNum) + before[i]],
      pairNum    |-> pairNum,
      dataLength |-> before[Len(keys) + 1]]

KeysInOrder(kv) == LET row == InOrder(kv, DOMAIN kv) IN [i \in DOMAIN row |-> row[i][1]]

(* Mutation: the size is taken before the value is moved.                  *)
KeptSize(s) == Size[s]
(* val.size() once the value has been moved out of the node.               *)
SizeAfterMove(s) == 0

(* Table(pool, memTable, order): the pairs of the list, size of them, with *)
(* the bounds it has kept.                                                 *)
FromMemtable(kv, size, lo, hi) ==
  LET keys == KeysInOrder(kv)
  IN Layout(keys, size, [i \in DOMAIN keys |-> SizeAfterMove(kv[keys[i]])], lo, hi)

(* Table(pool, level, order, timeStamp, numPair, newTable)                 *)
FromPairs(kv) ==
  LET keys == KeysInOrder(kv)
  IN Layout(keys, Len(keys), [i \in DOMAIN keys |-> Size[kv[keys[i]]]], keys[1], Last(keys))

(* search: the index of target, 0 when there is none.                      *)
(* Mutation: it stops when one entry is left.                              *)
SearchShort(table, target) ==
  LET last == Len(table.key)
      at[window \in (1 .. last + 1) \X (0 .. last)] ==
        LET low == window[1]
            high == window[2]
            mid == (high - low) \div 2 + low
        IN IF low >= high THEN 0
           ELSE IF table.key[mid] = target THEN mid
           ELSE IF table.key[mid] > target THEN at[<<low, mid - 1>>]
           ELSE at[<<mid + 1, high>>]
  IN at[<<1, last>>]
Search(table, target) ==
  LET last == Len(table.key)
      at[window \in (1 .. last + 1) \X (0 .. last)] ==
        LET low == window[1]
            high == window[2]
            mid == (high - low) \div 2 + low
        IN IF low > high THEN 0
           ELSE IF table.key[mid] = target THEN mid
           ELSE IF table.key[mid] > target THEN at[<<low, mid - 1>>]
           ELSE at[<<mid + 1, high>>]
  IN at[<<1, last>>]

(* getValue: the bounds, the filter, the index.                            *)
Probe(table, key) ==
  IF key < table.lo \/ key > table.hi \/ ~(Bits[key] \subseteq table.filter) THEN 0
  ELSE Search(table, key)

(* The bytes getValue asks the MemoryManager for.                          *)
ValueStart(table, i) == table.offset[i]
ValueEnd(table, i) ==
  IF i = Len(table.key) THEN DataArea(table.pairNum) + table.dataLength ELSE table.offset[i + 1]

(* Mutation: an end on the boundary of the slot is not told apart.         *)
RoundUpAlways(at) == (at \div PageSize + 1) * PageSize
RoundUp(at) == IF at % TableSize = 0 THEN at ELSE (at \div PageSize + 1) * PageSize
RoundDown(at) == (at \div PageSize) * PageSize

(* The bytes traverse has readTable read.                                  *)
ReadStart(table) == RoundDown(DataArea(table.pairNum))
ReadEnd(table) == RoundUp(DataArea(table.pairNum) + table.dataLength)
=============================================================================
