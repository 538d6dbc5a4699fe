------------------------------ MODULE Memtable ------------------------------
(***************************************************************************)
(* What the memtable is to KVStore (LSM-Tree/kvstore.cc): a map from keys  *)
(* to strings with the least and the greatest key put since it was         *)
(* cleared, the size memory that put keeps up to date, the timestamp of    *)
(* the next table, and the pair put has at hand while a full memtable is   *)
(* flushed.  SkipList implements it.                                       *)
(***************************************************************************)
EXTENDS TableSizes, Integers, FiniteSets, FiniteSetsExt, TLC

CONSTANTS
  SignedMax,      \* INT64_MAX, what minKey starts from; INT64_MIN converts to SignedMax + 1
  Empty,          \* the empty string, which stands for "not found"
  ClearedSize,    \* what SkipList::clear leaves in memory (10272)
  Word            \* 2^64, where a size_t wraps around

VARIABLES mem, memory, minKey, maxKey, timeStamp, pending

skiplist == <<mem, memory, minKey, maxKey, timeStamp, pending>>

NoPairs == [k \in {} |-> Empty]

MemInit ==
  /\ mem = NoPairs
  /\ memory = InitialSize
  /\ minKey = SignedMax /\ maxKey = 0
  /\ timeStamp = 0
  /\ pending = <<>>

-----------------------------------------------------------------------------
(* put, up to the flush of a full memtable.                                *)
Growth(key, s) ==
  IF key \in DOMAIN mem /\ mem[key] # Empty
  THEN Size[s] - Size[mem[key]]
  ELSE PairSize + Size[s]

(* memTable->memory += ..., on a size_t.                                   *)
Grown(size, key, s) == (size + Growth(key, s)) % Word

Overflows(key, s) == Grown(memory, key, s) > TableSize

Inserted(key, s) == [k \in DOMAIN mem \cup {key} |-> IF k = key THEN s ELSE mem[k]]

(* Mutation: the upper bound is looked at only when the lower one stays.   *)
InsertElse(key, s) ==
  /\ mem' = Inserted(key, s)
  /\ \/ key < minKey /\ minKey' = key /\ UNCHANGED maxKey
     \/ key >= minKey /\ maxKey' = Max({maxKey, key}) /\ UNCHANGED minKey

(* SkipList::put *)
Insert(key, s) ==
  /\ mem' = Inserted(key, s)
  /\ minKey' = Min({minKey, key})
  /\ maxKey' = Max({maxKey, key})

(* SkipList::clear, but for memory *)
ClearMemTable ==
  /\ mem' = NoPairs
  /\ minKey' = SignedMax
  /\ maxKey' = SignedMax + 1

Keep(key, s) ==
  /\ pending = <<>>
  /\ ~Overflows(key, s)
  /\ memory' = Grown(memory, key, s)
  /\ Insert(key, s)
  /\ UNCHANGED <<timeStamp, pending>>

(* The table takes its timestamp, the list is cleared, and the size of the *)
(* pair that did not fit is counted; the pair itself comes in afterwards.  *)
Flush(key, s) ==
  /\ pending = <<>>
  /\ Overflows(key, s)
  /\ timeStamp' = timeStamp + 1
  /\ ClearMemTable
  /\ memory' = Grown(ClearedSize, key, s)
  /\ pending' = <<key, s>>

InsertLate ==
  /\ pending # <<>>
  /\ Insert(pending[1], pending[2])
  /\ pending' = <<>>
  /\ UNCHANGED <<memory, timeStamp>>

MemNext(keys, strings) ==
  \/ \E key \in keys, s \in strings : Keep(key, s) \/ Flush(key, s)
  \/ InsertLate
=============================================================================
