------------------------------- MODULE KVStore -------------------------------
(***************************************************************************)
(* The log-structured merge tree of LSM-Tree/kvstore.cc: class KVStore     *)
(* keeps the latest pairs in a skip list (SkipList.h, the memtable), turns *)
(* a full memtable into an SSTable of level 0 (Table.cpp), and merges      *)
(* tables into deeper levels when a level has too many of them.            *)
(*                                                                         *)
(* One thread calls the store.  A put that fills the memtable runs the     *)
(* compaction of one level after another before it returns; pc, level and  *)
(* pending (of Memtable) are that thread's program counter and locals, and *)
(* each level's compaction is one step.                                    *)
(***************************************************************************)
EXTENDS Compaction, Memtable

CONSTANTS
  Keys,           \* the uint64_t keys in use
  Values,         \* the strings a caller puts
  Level0,         \* tables level 0 may hold (3)
  Upper1, Fanout, \* UpperNum(1) (9), and how many times larger each next level is (3)
  MaxFlushes      \* bound of the model: the memtables that may be flushed

ASSUME StoreAssumption ==
  /\ IsFiniteSet(Keys) /\ Keys \subseteq Nat
  /\ SignedMax \in Nat
  /\ DEL \notin Values /\ DEL # Empty
  /\ Empty \notin Values     \* get cannot tell an empty string from no value
  /\ Size \in [Values \cup {DEL, Empty} -> Nat]
  /\ {Level0, Upper1, Fanout, TableSize, InitialSize, ClearedSize, PairSize, MaxFlushes} \subseteq Nat
  /\ Word \in Nat /\ TableSize < Word
  /\ \A v \in Values \cup {DEL} :
       {InitialSize + PairSize + Size[v], ClearedSize + PairSize + Size[v]} \subseteq 0 .. TableSize

VARIABLES
  SSTable,                                 \* per level, its set of tables
  Level,                                   \* per level, the number of the last table made there
  files,                                   \* the <<level, number>> the MemoryManager has a table for
  pc, level,
  db,                                      \* history: what was last put
  tied                                     \* history: has a compaction merged equally old tables of two levels

tree     == <<SSTable, Level, files>>
vars     == <<skiplist, tree, pc, level, db, tied>>

-----------------------------------------------------------------------------
Levels  == DOMAIN SSTable

Init ==
  /\ MemInit
  /\ SSTable = [i \in {0} |-> {}] /\ Level = [i \in {0} |-> 0] /\ files = {}
  /\ pc = "idle" /\ level = 0
  /\ db = [k \in Keys |-> Empty]
  /\ tied = FALSE

(* pow(3, i + 1): how many tables a level may keep.                        *)
UpperNum[i \in Nat \ {0}] == IF i = 1 THEN Upper1 ELSE Fanout * UpperNum[i - 1]

(* A level is a set<Table>: it has at most one of two tables that are      *)
(* equally old and start at the same key, and emplace keeps the one it has. *)
Emplace(tables, new) == tables \cup {n \in new : \A t \in tables : ~SameAge(n, t)}

(* What memTable and the tables, level by level and newest first, hold for *)
(* key; an empty string counts as nothing found.                           *)
Hits(i, key) ==
  {t \in SSTable[i] : t.lo <= key /\ key <= t.hi /\ key \in DOMAIN t.kv /\ t.kv[key] # Empty}

Lookup(key) ==
  LET found == {i \in Levels : Hits(i, key) # {}}
  IN IF key \in DOMAIN mem /\ mem[key] # Empty THEN mem[key]
     ELSE IF found = {} THEN Empty
     ELSE LET hits == Hits(Min(found), key)
          IN (CHOOSE t \in hits : \A u \in hits : ~Older(t, u)).kv[key]

Visible(s) == IF s = DEL THEN Empty ELSE s
Get(key) == Visible(Lookup(key))

-----------------------------------------------------------------------------
PutInMemory(key, s) ==
  /\ pc = "idle"
  /\ Keep(key, s)
  /\ db' = [db EXCEPT ![key] = s]
  /\ UNCHANGED <<tree, pc, level, tied>>

(* Table::Table(pool, memTable, order), which ends in SkipList::clear.     *)
MemTable == [ts |-> timeStamp, order |-> Level[0] + 1, lo |-> minKey, hi |-> maxKey, kv |-> mem]

PutFlush(key, s) ==
  /\ pc = "idle"
  /\ timeStamp < MaxFlushes
  /\ Flush(key, s)
  /\ SSTable' = [SSTable EXCEPT ![0] = Emplace(@, {MemTable})]
  /\ Level' = [Level EXCEPT ![0] = @ + 1]
  /\ files' = files \cup {<<0, Level[0] + 1>>}
  /\ pc' = IF Level[0] + 1 > Level0 THEN "compact" ELSE "insert"
  /\ level' = 1
  /\ db' = [db EXCEPT ![key] = s]
  /\ UNCHANGED tied

FinishPut ==
  /\ pc = "insert"
  /\ InsertLate
  /\ pc' = "idle"
  /\ level' = 0
  /\ UNCHANGED <<tree, db, tied>>

Put(key, s) == PutInMemory(key, s) \/ PutFlush(key, s)
Del(key) == pc = "idle" /\ Get(key) # Empty /\ Put(key, DEL)

(* get, and del of a key that has no value, change nothing in the tree.    *)
Look == pc = "idle" /\ UNCHANGED vars

-----------------------------------------------------------------------------
(* compactionForLevel(level): the oldest tables of level - 1, with the     *)
(* tables of level whose key range meets theirs, become new tables of      *)
(* level.                                                                  *)
(* Mutation: a level may hold one table more than its bound.               *)
TooManyLate(i) == ~(i # 1 /\ Cardinality(SSTable[i - 1]) <= UpperNum[i - 1] + 1)
TooMany(i) == ~(i # 1 /\ Cardinality(SSTable[i - 1]) <= UpperNum[i - 1])
CompactNum(i) == IF i = 1 THEN Level0 + 1 ELSE Cardinality(SSTable[i - 1]) - UpperNum[i - 1]

(* Mutation: the tables are taken from the other end of the set.           *)
Newest(tables, n) == {t \in tables : Cardinality({u \in tables : Older(t, u)}) < n}
Oldest(tables, n) == {t \in tables : Cardinality({u \in tables : Older(u, t)}) < n}

(* Mutation: ranges that only touch do not count as overlapping.           *)
OverlappingStrictly(tables, moved) ==
  LET tempMin == Min({SignedMax} \cup {t.lo : t \in moved})
      tempMax == Max({0} \cup {t.hi : t \in moved})
  IN {t \in tables : t.hi > tempMin /\ t.lo < tempMax}

Overlapping(tables, moved) ==
  LET tempMin == Min({SignedMax} \cup {t.lo : t \in moved})
      tempMax == Max({0} \cup {t.hi : t \in moved})
  IN {t \in tables : t.hi >= tempMin /\ t.lo <= tempMax}

(* A level that does not exist yet is appended, empty, before its first compaction. *)
TablesOf(i) == IF i \in Levels THEN SSTable[i] ELSE {}
(* Mutation: the numbering of a level starts over at the tables it has.    *)
LastOrderReused(i) == Cardinality(TablesOf(i))
LastOrder(i) == IF i \in Levels THEN Level[i] ELSE 0
(* Mutations: marks are dropped a level early; or only at a level that is new. *)
AtBottomEarly(i) == i >= Max(Levels) - 1
AtBottomLate(i)  == i > Max(Levels)
AtBottom(i) == i >= Max(Levels)

(* The tables written for the pairs of moved and old.                      *)
NewTables(moved, old, late) ==
  LET merged == Merge(moved \cup old, old, late)
      kept   == IF AtBottom(level) THEN DropDeleted(merged) ELSE merged
      parts  == Split(kept)
  IN {[ts |-> Max({t.ts : t \in moved}), order |-> LastOrder(level) + i,
       lo |-> Min(parts[i]), hi |-> Max(parts[i]),
       kv |-> [k \in parts[i] |-> kept[k]]] : i \in DOMAIN parts}

Compact ==
  LET target == TablesOf(level)
      moved  == Oldest(SSTable[level - 1], CompactNum(level))
      old    == Overlapping(target, moved)
  IN /\ pc = "compact"
     /\ TooMany(level)
     /\ \E late \in SUBSET {t \in old : \E m \in moved : SameAge(t, m)} :
          LET new == NewTables(moved, old, late)
          IN /\ SSTable' = [i \in Levels \cup {level} |->
                              IF i = level - 1 THEN SSTable[i] \ moved
                              ELSE IF i = level THEN Emplace(target, new) \ old ELSE SSTable[i]]
             /\ Level' = [i \in Levels \cup {level} |->
                            IF i = level THEN LastOrder(level) + Cardinality(new) ELSE Level[i]]
             /\ files' = (files \cup {<<level, n.order>> : n \in new})
                         \ ({<<level - 1, t.order>> : t \in moved} \cup {<<level, t.order>> : t \in old})
     /\ tied' = (tied \/ \E a \in moved, b \in old : a.ts = b.ts)
     /\ level' = level + 1
     /\ UNCHANGED <<skiplist, pc, db>>

(* The recursion stops; put resets the numbering of level 0.               *)
CompactEnd ==
  /\ pc = "compact"
  /\ ~TooMany(level)
  /\ Level' = [Level EXCEPT ![0] = 0]
  /\ pc' = "insert"
  /\ UNCHANGED <<skiplist, SSTable, files, level, db, tied>>

Next ==
  \/ \E k \in Keys : Del(k) \/ \E v \in Values : Put(k, v)
  \/ Look
  \/ FinishPut
  \/ Compact
  \/ CompactEnd

Spec == Init /\ [][Next]_vars
-----------------------------------------------------------------------------
(***************************************************************************)
(* Properties.                                                             *)
(***************************************************************************)
Strings == Values \cup {DEL, Empty}
Tables == [ts : Nat, order : Nat, lo : Nat, hi : Nat, kv : UNION {[S -> Strings] : S \in SUBSET Keys}]

TypeOK ==
  /\ DOMAIN mem \subseteq Keys /\ \A k \in DOMAIN mem : mem[k] \in Strings
  /\ memory \in 0 .. (Word - 1) /\ minKey \in Nat /\ maxKey \in Nat /\ timeStamp \in 0 .. MaxFlushes
  /\ Levels = 0 .. Max(Levels) /\ DOMAIN Level = Levels
  /\ \A i \in Levels : SSTable[i] \in SUBSET Tables /\ Level[i] \in Nat
  /\ files \in SUBSET (Nat \X Nat)
  /\ pc \in {"idle", "compact", "insert"} /\ level \in Nat
  /\ pending = <<>> \/ pending \in Keys \X Strings
  /\ db \in [Keys -> Strings] /\ tied \in BOOLEAN

(* As long as no compaction has merged equally old tables of two levels, a *)
(* get returns what was last put, through flushes, compactions, deletions  *)
(* and the dropping of deletion marks at the last level.                   *)
ReadYourWrites ==
  pc = "idle" /\ ~tied => \A k \in Keys : Get(k) = Visible(db[k])

(* The promise itself: get returns what was last put.                      *)
GetReturnsLastPut ==
  pc = "idle" => \A k \in Keys : Get(k) = Visible(db[k])

(* From level 1 on the key ranges of a level's tables are disjoint, so     *)
(* that at most one table of the level can hold a key.                     *)
DisjointLevels ==
  \A i \in Levels \ {0} : \A a, b \in SSTable[i] : a # b => a.hi < b.lo \/ b.hi < a.lo

(* A table's range covers its keys, also that of a memtable flushed with   *)
(* the bounds SkipList::clear left behind: the range check at the head of  *)
(* getValue and the search for overlaps miss no key.                       *)
RangeCovers ==
  /\ TypeOK
  /\ \A i \in Levels : \A t \in SSTable[i] : \A k \in DOMAIN t.kv : t.lo <= k /\ k <= t.hi

(* The deeper the level, the older its tables; against level 0 strictly.   *)
TimestampOrder ==
  \A i, j \in Levels : i < j =>
    \A a \in SSTable[i], b \in SSTable[j] : IF i = 0 THEN a.ts > b.ts ELSE a.ts >= b.ts

(* Between puts every level is within its bound, and the counter of level  *)
(* 0 counts its tables (the first compaction takes exactly Level0 + 1).    *)
LevelBounds ==
  /\ pc = "idle" => \A i \in Levels \ {0} : Cardinality(SSTable[i]) <= UpperNum[i]
  /\ (pc = "idle" \/ level = 1) => Cardinality(SSTable[0]) = Level[0]

(* The deepest level holds no deletion mark.                               *)
NoMarkAtBottom ==
  Max(Levels) > 0 => \A t \in SSTable[Max(Levels)] : \A k \in DOMAIN t.kv : t.kv[k] # DEL

(* The tables of the tree are the tables the MemoryManager stores, one     *)
(* each, as long as no compaction has merged equally old tables.           *)
FilesMatch ==
  ~tied =>
    /\ files = UNION {{<<i, t.order>> : t \in SSTable[i]} : i \in Levels}
    /\ \A i \in Levels : \A a, b \in SSTable[i] : a.order = b.order => a = b

(* The store implements a map from keys to strings, as long as no          *)
(* compaction merges equally old tables of two levels: a put or a del sets *)
(* its key in one step, and no other step of the flush and compactions it  *)
(* runs changes what the lists hold.                                       *)
Contents == [k \in Keys |-> Get(k)]
Map == INSTANCE KeyValueMap WITH NoValue <- Empty, contents <- Contents
ImplementsMap == Map!Init /\ [][tied' \/ UNCHANGED Contents \/ Map!Next]_<<mem, SSTable>>
=============================================================================
