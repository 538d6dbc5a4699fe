------------------------------ MODULE SkipList ------------------------------
(***************************************************************************)
(* The memtable of LSM-Tree/SkipList.cpp, with what KVStore::put does to   *)
(* it.  levels are the linked lists, top first: a node is a key of a       *)
(* level, its value is levels[i][key], right is the next greater key and   *)
(* down the same key one level below.  A head node has the key -1, that is *)
(* UINT64_MAX; the position of a search that is still at a head is AtHead. *)
(***************************************************************************)
EXTENDS Compaction, TableLayout

CONSTANTS
  Keys,           \* the uint64_t keys in use
  HeadKey,        \* UINT64_MAX
  Strings,        \* the strings that are put
  Empty,          \* the empty string, which stands for "not found"
  SignedMax,      \* INT64_MAX
  ClearedSize,    \* what clear leaves in memory (10272)
  Word,           \* 2^64
  MaxLevels,      \* bound of the model: the levels a list may have
  MaxFlushes      \* bound of the model: the memtables that may be flushed

(* The last conjunct: 64 MiB have room for the index of as many pairs as   *)
(* memory admits, which may miss the bytes of one pair.                    *)
ASSUME SkipListAssumption ==
  /\ HeadKey \in Nat /\ Keys \subseteq 0 .. HeadKey /\ Empty \notin Strings
  /\ {SignedMax, ClearedSize, MaxFlushes} \subseteq Nat /\ MaxLevels \in Nat \ {0}
  /\ Word \in Nat /\ InitialSize < Word
  /\ Size \in [Strings \cup {Empty} -> Nat]
  /\ \A s \in Strings :
       /\ Size[s] > 0 /\ TableSize + PairSize + Size[s] < Word
       /\ {InitialSize + PairSize + Size[s], ClearedSize + PairSize + Size[s]} \subseteq 0 .. TableSize
       /\ \A o \in Strings :
            LET most == (TableSize + PairSize + Size[o]) \div (PairSize + Size[s])
            IN DataArea(most) + most <= TableSize

VARIABLES
  levels,
  count,                                   \* Size of the code
  memory, minKey, maxKey, timeStamp,
  pending                                  \* the pair put holds while it flushes

vars == <<levels, count, memory, minKey, maxKey, timeStamp, pending>>

-----------------------------------------------------------------------------
AtHead == -1
KeyOf(node) == IF node = AtHead THEN HeadKey ELSE node

Init ==
  /\ levels = <<>> /\ count = 0
  /\ memory = InitialSize
  /\ minKey = SignedMax /\ maxKey = 0
  /\ timeStamp = 0
  /\ pending = <<>>

(* The list of the lowest level: GetFirstNode()->right and what follows it. *)
Bottom == IF levels = <<>> THEN [k \in {} |-> Empty] ELSE Last(levels)

(* get: the value at the first level, from the top, that has the key.      *)
Get(key) ==
  LET with == {i \in DOMAIN levels : key \in DOMAIN levels[i]}
  IN IF count = 0 \/ with = {} THEN Empty ELSE levels[Min(with)][key]

(* pathList: where the search for key goes down from each level.           *)
Path(key) ==
  LET Right(node, list) == Max({node} \cup {k \in DOMAIN list : node <= k /\ k <= key})
      at[i \in 0 .. Len(levels)] == IF i = 0 THEN AtHead ELSE Right(at[i - 1], levels[i])
  IN [i \in DOMAIN levels |-> at[i]]

(* Mutation: only the node of the lowest level gets the new value.         *)
TowerBottom(key) == {i \in DOMAIN levels : i = Len(levels) /\ KeyOf(Path(key)[i]) = key}
(* The levels, from the lowest up, whose path ends at a node with the key. *)
Tower(key) ==
  LET path == Path(key)
  IN {i \in DOMAIN levels : \A j \in i .. Len(levels) : KeyOf(path[j]) = key}

CountAfter(key) == IF Tower(key) = {} THEN count + 1 ELSE count

Replace(key, s) ==
  /\ Tower(key) # {}
  /\ levels' = [i \in DOMAIN levels |->
                  IF i \in Tower(key) /\ Path(key)[i] # AtHead THEN [levels[i] EXCEPT ![key] = s]
                  ELSE levels[i]]

Linked(list, key, s) == [k \in DOMAIN list \cup {key} |-> IF k = key THEN s ELSE list[k]]

(* A new node at the lowest level, and at a level more with every toss won; *)
(* the last toss adds a level.                                             *)
Add(key, s) ==
  /\ Tower(key) = {}
  /\ \E height \in 1 .. Min({Len(levels) + 1, MaxLevels}) :
       LET lists == IF height > Len(levels) THEN <<[k \in {} |-> Empty]>> \o levels ELSE levels
       IN levels' = [i \in DOMAIN lists |->
                       IF i > Len(lists) - height THEN Linked(lists[i], key, s) ELSE lists[i]]

put(key, s) ==
  /\ Replace(key, s) \/ Add(key, s)
  /\ count' = CountAfter(key)
  /\ minKey' = Min({minKey, key})
  /\ maxKey' = Max({maxKey, key})

(* Mutation: clear keeps the head.                                         *)
clearKeepsHead ==
  /\ UNCHANGED levels
  /\ count' = 0
  /\ minKey' = SignedMax /\ maxKey' = SignedMax + 1
(* clear, but for memory                                                   *)
clear ==
  /\ levels' = <<>>
  /\ count' = 0
  /\ minKey' = SignedMax /\ maxKey' = SignedMax + 1

-----------------------------------------------------------------------------
(* KVStore::put                                                            *)
Growth(key, s) ==
  IF Get(key) # Empty THEN Size[s] - Size[Get(key)] ELSE PairSize + Size[s]
Grown(size, key, s) == (size + Growth(key, s)) % Word
Overflows(key, s) == Grown(memory, key, s) > TableSize

Keep(key, s) ==
  /\ pending = <<>>
  /\ ~Overflows(key, s)
  /\ memory' = Grown(memory, key, s)
  /\ put(key, s)
  /\ UNCHANGED <<timeStamp, pending>>

(* The table's constructor takes the pairs and the timestamp and clears    *)
(* the list.                                                               *)
Flush(key, s) ==
  /\ pending = <<>> /\ timeStamp < MaxFlushes
  /\ Overflows(key, s)
  /\ timeStamp' = timeStamp + 1
  /\ clear
  /\ memory' = Grown(ClearedSize, key, s)
  /\ pending' = <<key, s>>

InsertLate ==
  /\ pending # <<>>
  /\ put(pending[1], pending[2])
  /\ pending' = <<>>
  /\ UNCHANGED <<memory, timeStamp>>

Next ==
  \/ \E key \in Keys, s \in Strings : Keep(key, s) \/ Flush(key, s)
  \/ InsertLate

Spec == Init /\ [][Next]_vars

-----------------------------------------------------------------------------
(***************************************************************************)
(* Properties.                                                             *)
(***************************************************************************)
TypeOK ==
  /\ levels \in Seq(UNION {[S -> Strings] : S \in SUBSET Keys}) /\ Len(levels) <= MaxLevels
  /\ count \in Nat /\ memory \in 0 .. (Word - 1) /\ {minKey, maxKey} \subseteq Nat
  /\ timeStamp \in 0 .. MaxFlushes
  /\ pending = <<>> \/ pending \in Keys \X Strings

(* Every level below the top holds the nodes of the one above with the     *)
(* same values, and none is empty: what get finds at the highest level is  *)
(* what the flushed table gets from the lowest, and no search for          *)
(* UINT64_MAX takes a head for the node of that key (SkipList::put).  And  *)
(* Size counts the nodes of the lowest list: the table's constructor takes *)
(* as many pairs as getSize() says.                                        *)
Towers ==
  /\ TypeOK
  /\ count = Cardinality(DOMAIN Bottom)
  /\ \A i \in DOMAIN levels : DOMAIN levels[i] # {}
  /\ \A i \in 1 .. Len(levels) - 1 : \A k \in DOMAIN levels[i] :
       k \in DOMAIN levels[i + 1] /\ levels[i + 1][k] = levels[i][k]

Overflowing == pending = <<>> /\ \E key \in Keys, s \in Strings : Overflows(key, s)

(* The reads of a table made from a memtable stay in its slot: the moved   *)
(* values count one byte each, and a slot has room for the index of all    *)
(* the pairs even of a memtable whose memory starts below the size of an   *)
(* empty table, is not reset by the pair put late, and wraps around        *)
(* (Table's first constructor, getValue, traverse).  Nor is a memtable     *)
(* flushed that has no pair, whatever memory wrapped around to:            *)
(* GetFirstNode() never gives the constructor a null pointer.              *)
InsideSlot ==
  Overflowing =>
    LET t == FromMemtable(Bottom, count, minKey, maxKey)
    IN /\ levels # <<>>
       /\ \A i \in DOMAIN t.key : InitialSize <= ValueStart(t, i) /\ ValueEnd(t, i) <= TableSize
       /\ ReadEnd(t) <= TableSize

Cut == {FromPairs([k \in part |-> Bottom[k]]) : part \in Range(Split(Bottom))}

(* getValue finds each pair of a table, and takes no other key for one,    *)
(* in the table the memtable becomes and in those a compaction cuts the    *)
(* same pairs into: the bounds the list kept since it was cleared, the     *)
(* filter and the index leave none out.                                    *)
PairsFound ==
  levels # <<>> =>
    \A t \in Cut \cup {FromMemtable(Bottom, count, minKey, maxKey)} : \A k \in Keys :
      LET i == Probe(t, k) IN IF k \in Range(t.key) THEN i # 0 /\ t.key[i] = k ELSE i = 0

(* Every pair is found, and of a table that a compaction writes getValue   *)
(* reads the bytes of the one pair, and traverse all of the pairs and      *)
(* nothing behind the slot, also when the last pair ends where the slot    *)
(* does.                                                                   *)
PairsReadable ==
  pending = <<>> =>
    /\ PairsFound
    /\ \A t \in Cut :
         /\ \A i \in DOMAIN t.key :
              /\ ValueEnd(t, i) - ValueStart(t, i) = Size[Bottom[t.key[i]]] + 1
              /\ ReadStart(t) <= ValueStart(t, i) /\ ValueEnd(t, i) <= ReadEnd(t)
         /\ ReadEnd(t) <= TableSize

(* The list implements the memtable of KVStore: whatever the heights of    *)
(* its towers, get gives the string last put, and nothing after clear.     *)
Map == INSTANCE Memtable WITH mem <- [k \in DOMAIN Bottom |-> Get(k)]
ImplementsMemtable == Map!MemInit /\ [][Map!MemNext(Keys, Strings)]_(Map!skiplist)
=============================================================================
