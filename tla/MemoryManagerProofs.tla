------------------------- MODULE MemoryManagerProofs -------------------------
(***************************************************************************)
(* The table store, proved for every number of zones, tables and slots.    *)
(* Its books: the zones are partitioned, the two maps are inverse, and the *)
(* counters and lists of a zone agree with the maps.  Then what the device *)
(* sees of the threads and that the store implements TableSpace, the room  *)
(* relocation has, and the pool the zones are taken from.                  *)
(***************************************************************************)
EXTENDS PooledStore, Induction, TLAPS, FiniteSetTheorems, SequenceTheorems

(* The inductive invariant. *)
IInv ==
  /\ TypeOK
  /\ ZonesAccounted
  /\ ResetQueueIsFull
  /\ MapsInverse
  /\ RelocationAccounted
  /\ MainThread

-----------------------------------------------------------------------------
(* The facts about the parameters (zone_num, zone_cap, MAXIMUM_NUM_OF_OPEN_ZONE) that the proofs use. *)
LEMMA Constants ==
  /\ IsFiniteSet(Zones)
  /\ TablesPerZone \in Nat /\ TablesPerZone > 0
  /\ OpenZones \in Nat /\ OpenZones > 0
  /\ NoTable \notin Tables
  /\ NoZone \notin Zones
  /\ NoAddr \notin Addrs
  /\ 0 \in Streams
  /\ 0 \in Slots
BY ConstantsAssumption DEF Slots, Addrs, Streams

(* A zone has zone_cap / DEFAULT_SSTABLE_SIZE slots. *)
LEMMA SlotsFinite ==
  /\ IsFiniteSet(Slots)
  /\ Cardinality(Slots) = TablesPerZone
<1>1. 0 \in Int /\ TablesPerZone - 1 \in Int
  BY Constants
<1> QED
  BY <1>1, FS_Interval, Constants DEF Slots

(* What a zone's occupied slots number. *)
LEMMA OccupiedCount ==
  ASSUME NEW z \in Zones
  PROVE  /\ IsFiniteSet(Occupied(z))
         /\ Cardinality(Occupied(z)) \in 0 .. TablesPerZone
<1>1. Occupied(z) \subseteq Slots
  BY DEF Occupied
<1>2. /\ IsFiniteSet(Occupied(z))
      /\ Cardinality(Occupied(z)) <= Cardinality(Slots)
  BY <1>1, SlotsFinite, FS_Subset
<1>3. Cardinality(Occupied(z)) \in Nat
  BY <1>2, FS_CardinalityType
<1> QED
  BY <1>2, <1>3, SlotsFinite, Constants

(* The MemoryManager constructor establishes the inductive invariant.      *)
LEMMA InitIInv == Init => IInv
<1> SUFFICES ASSUME Init PROVE IInv
  OBVIOUS
<1> USE Constants DEF Init
<1>1. TypeOK
  <2>1. tasks \in [Workers -> Seq(Tasks)]
    <3>1. <<>> \in Seq(Tasks)
      OBVIOUS
    <3> QED
      BY <3>1
  <2>2. zns_err \in BOOLEAN
    OBVIOUS
  <2> QED
    BY <2>1, <2>2 DEF TypeOK
<1>2. ZonesAccounted
  BY DEF ZonesAccounted, Opened, Full
<1>3. ResetQueueIsFull
  BY DEF ResetQueueIsFull
<1>4. MapsInverse
  BY DEF MapsInverse, Stored
<1>5. \A z \in Zones : Occupied(z) = {}
  BY DEF Occupied, Addrs
<1>6. RelocationAccounted
  <2>1. \A z \in Zones : Used(z) = 0 /\ {i \in Slots : i < Used(z)} = {}
    BY DEF Used, Slots
  <2>2. Cardinality({}) = 0
    BY FS_EmptySet
  <2>3. \A z \in Zones :
          /\ Occupied(z) = {i \in Slots : i < Used(z)} \ deleted_table[z]
          /\ valid_table_num[z] + (Used(z) - write_ptr[z]) = Cardinality(Occupied(z))
    <3> SUFFICES ASSUME NEW z \in Zones
                 PROVE  /\ Occupied(z) = {i \in Slots : i < Used(z)} \ deleted_table[z]
                        /\ valid_table_num[z] + (Used(z) - write_ptr[z]) = Cardinality(Occupied(z))
      OBVIOUS
    <3>1. Occupied(z) = {i \in Slots : i < Used(z)} \ deleted_table[z]
      BY <1>5, <2>1
    <3>2. Cardinality(Occupied(z)) = 0
      BY <1>5, <2>2
    <3>3. valid_table_num[z] + (Used(z) - write_ptr[z]) = 0
      BY <2>1
    <3> QED
      BY <3>1, <3>2, <3>3
  <2> QED
    BY <2>3 DEF RelocationAccounted
<1>7. MainThread
  BY DEF MainThread, RelocationCredits, Stored
<1> QED
  BY <1>1, <1>2, <1>3, <1>4, <1>6, <1>7 DEF IInv

-----------------------------------------------------------------------------
(* What the steps that move no table and no zone leave alone. *)
Books == <<metas, maps, open_zone, empty_zone, full_zone, victim, rewrite, to_zone, to_slot>>

(* A step that leaves the maps, the counters and the pools alone keeps what *)
(* relates them.                                                            *)
LEMMA BooksFrame ==
  ASSUME ZonesAccounted, MapsInverse, RelocationAccounted, UNCHANGED Books
  PROVE  ZonesAccounted' /\ MapsInverse' /\ RelocationAccounted'
<1> USE DEF Books, metas, maps
<1>1. ZonesAccounted'
  BY DEF ZonesAccounted, Opened, Full
<1>2. MapsInverse'
  BY DEF MapsInverse, Stored
<1>3. RelocationAccounted'
  BY DEF RelocationAccounted, Occupied, Used
<1> QED
  BY <1>1, <1>2, <1>3

(* Where a zone is tells how full it is. *)
LEMMA ZoneFacts ==
  ASSUME TypeOK, ZonesAccounted
  PROVE  /\ \A z \in Zones : z \in full_zone <=> write_ptr[z] = TablesPerZone
         /\ \A z \in Zones : Full(z) <=> write_ptr[z] = TablesPerZone
         /\ \A z \in Opened \cup empty_zone : z \in Zones /\ z \notin full_zone
<1>1. Opened \subseteq Zones
  BY DEF TypeOK, Opened
<1>2. \A z \in Zones : write_ptr[z] \in 0 .. TablesPerZone
  BY DEF TypeOK
<1>3. \A z \in Zones : Full(z) <=> write_ptr[z] = TablesPerZone
  BY <1>2, Constants DEF Full
<1>4. full_zone = {z \in Zones : Full(z)} /\ (Opened \cup empty_zone) \cap full_zone = {}
  BY DEF ZonesAccounted
<1>5. empty_zone \subseteq Zones
  BY DEF TypeOK
<1> QED
  BY <1>1, <1>3, <1>4, <1>5

(* A write advances the device's pointer of one zone (zns_write).          *)
LEMMA ZnsWriteType ==
  ASSUME TypeOK, NEW a, ZnsWrite(a)
  PROVE  zone_wp' \in [Zones -> Nat] /\ zns_err' \in BOOLEAN
<1>1. zone_wp' \in [Zones -> Nat]
  <2>1. PICK x : x = a[1]
    OBVIOUS
  <2>2. zone_wp' = [zone_wp EXCEPT ![x] = @ + 1]
    BY <2>1, Zenon DEF ZnsWrite
  <2>3. zone_wp \in [Zones -> Nat]
    BY DEF TypeOK
  <2>4. CASE x \in Zones
    BY <2>2, <2>3, <2>4
  <2>5. CASE x \notin Zones
    BY <2>2, <2>3, <2>5
  <2> QED
    BY <2>4, <2>5
<1>2. zns_err' \in BOOLEAN
  BY Zenon DEF ZnsWrite
<1> QED
  BY <1>1, <1>2

(* A step that changes nothing keeps the inductive invariant.              *)
LEMMA StutterIInv ==
  ASSUME IInv, UNCHANGED vars
  PROVE  IInv'
<1> USE DEF IInv, vars, metas, maps, pools, threads, device, locals, compaction
<1>1. ZonesAccounted' /\ MapsInverse' /\ RelocationAccounted'
  BY BooksFrame DEF Books
<1>2. TypeOK'
  BY DEF TypeOK
<1>3. ResetQueueIsFull' /\ MainThread'
  BY DEF ResetQueueIsFull, MainThread, RelocationCredits, Stored
<1> QED
  BY <1>1, <1>2, <1>3

(* So does the call of writeTable, which only names the table it writes.   *)
LEMMA WriteTableIInv ==
  ASSUME IInv, NEW t \in Tables, WriteTable(t)
  PROVE  IInv'
<1> USE DEF IInv, WriteTable, metas, maps, pools, threads, device, compaction
<1>1. ZonesAccounted' /\ MapsInverse' /\ RelocationAccounted'
  BY BooksFrame DEF Books
<1>2. TypeOK'
  BY DEF TypeOK
<1>3. ResetQueueIsFull' /\ MainThread'
  BY Constants DEF ResetQueueIsFull, MainThread, RelocationCredits, Stored
<1> QED
  BY <1>1, <1>2, <1>3

(* So do readTable and getValue, which only wait for a future.             *)
LEMMA ReadIInv ==
  ASSUME IInv, NEW t \in Tables, ReadTable(t) \/ GetValue(t)
  PROVE  IInv'
<1> USE DEF IInv, ReadTable, GetValue, Await, metas, maps, pools, threads, device, locals, compaction
<1>1. ZonesAccounted' /\ MapsInverse' /\ RelocationAccounted'
  BY BooksFrame DEF Books
<1>2. TypeOK'
  BY DEF TypeOK
<1>3. ResetQueueIsFull' /\ MainThread'
  BY DEF ResetQueueIsFull, MainThread, RelocationCredits, Stored
<1> QED
  BY <1>1, <1>2, <1>3

(* So does a compaction that takes up its tables.                          *)
LEMMA CompactIInv ==
  ASSUME IInv, NEW S \in SUBSET Tables, Compact(S)
  PROVE  IInv'
<1> USE DEF IInv, Compact, metas, maps, pools, threads, device, locals
<1>1. ZonesAccounted' /\ MapsInverse' /\ RelocationAccounted'
  BY BooksFrame DEF Books
<1>2. TypeOK'
  BY DEF TypeOK
<1>3. ResetQueueIsFull' /\ MainThread'
  BY DEF ResetQueueIsFull, MainThread, RelocationCredits, Stored
<1> QED
  BY <1>1, <1>2, <1>3

(* So does the start of tryReset, from the store or from evictZone.        *)
LEMMA BeginTryIInv ==
  ASSUME IInv, pc \in {"idle", "write"}, BeginTry
  PROVE  IInv'
<1> USE DEF IInv, BeginTry, metas, maps, pools, threads, device, compaction
<1>1. ZonesAccounted' /\ MapsInverse' /\ RelocationAccounted'
  BY BooksFrame DEF Books
<1>2. TypeOK'
  BY DEF TypeOK
<1>3. ResetQueueIsFull' /\ MainThread'
  BY DEF ResetQueueIsFull, MainThread, RelocationCredits, Stored
<1> QED
  BY <1>1, <1>2, <1>3

(* So does its end, which empties the reset queue.                         *)
LEMMA TryEndIInv ==
  ASSUME IInv, TryEnd
  PROVE  IInv'
<1> USE DEF IInv, TryEnd, metas, maps, threads, device, compaction
<1>1. ZonesAccounted' /\ MapsInverse' /\ RelocationAccounted'
  BY BooksFrame DEF Books
<1>2. TypeOK'
  BY DEF TypeOK
<1>3. ResetQueueIsFull' /\ MainThread'
  BY Constants DEF ResetQueueIsFull, MainThread, RelocationCredits, Stored
<1> QED
  BY <1>1, <1>2, <1>3

(* So does a resetZone that returns early.                                 *)
LEMMA ResetSkipIInv ==
  ASSUME IInv, NEW z \in Zones, pc = "try", ResetSkip(z)
  PROVE  IInv'
<1> USE DEF IInv, ResetSkip, metas, maps, pools, threads, device, compaction
<1>1. ZonesAccounted' /\ MapsInverse' /\ RelocationAccounted'
  BY BooksFrame DEF Books
<1>2. TypeOK'
  BY DEF TypeOK
<1>3. ResetQueueIsFull' /\ MainThread'
  BY DEF ResetQueueIsFull, MainThread, RelocationCredits, Stored
<1> QED
  BY <1>1, <1>2, <1>3

(* So do the two exits of resetZone (device full).                         *)
LEMMA ExitIInv ==
  ASSUME IInv,
         RelocateExit \/ (pc = "write" /\ \E z \in Zones : ResetExit(z))
  PROVE  IInv'
<1> USE DEF IInv, RelocateExit, ResetExit, metas, maps, pools, threads, device, compaction
<1>1. ZonesAccounted' /\ MapsInverse' /\ RelocationAccounted'
  BY BooksFrame DEF Books
<1>2. TypeOK'
  BY DEF TypeOK
<1>3. ResetQueueIsFull' /\ MainThread'
  BY DEF ResetQueueIsFull, MainThread, RelocationCredits, Stored
<1> QED
  BY <1>1, <1>2, <1>3

(* So does a worker that enters femu_write ...                             *)
LEMMA BeginWriteIInv ==
  ASSUME IInv, NEW w \in Workers, BeginWrite(w)
  PROVE  IInv'
<1> USE DEF IInv, BeginWrite, metas, maps, pools, device, locals, compaction
<1>1. ZonesAccounted' /\ MapsInverse' /\ RelocationAccounted'
  BY BooksFrame DEF Books
<1>2. TypeOK'
  BY DEF TypeOK
<1>3. ResetQueueIsFull' /\ MainThread'
  BY DEF ResetQueueIsFull, MainThread, RelocationCredits, Stored
<1> QED
  BY <1>1, <1>2, <1>3

(* ... and one that leaves it.                                             *)
LEMMA EndWriteIInv ==
  ASSUME IInv, NEW w \in Workers, EndWrite(w)
  PROVE  IInv'
<1> USE DEF IInv, EndWrite, metas, maps, pools, locals, compaction
<1>1. ZonesAccounted' /\ MapsInverse' /\ RelocationAccounted'
  BY BooksFrame DEF Books
<1>2. TypeOK'
  <2>1. tasks[w] \in Seq(Tasks) /\ tasks[w] # <<>>
    BY DEF TypeOK, MainThread, RelocationCredits
  <2>2. Tail(tasks[w]) \in Seq(Tasks)
    BY <2>1
  <2>3. tasks' \in [Workers -> Seq(Tasks)]
    BY <2>2 DEF TypeOK
  <2>4. zone_wp' \in [Zones -> Nat] /\ zns_err' \in BOOLEAN
    BY ZnsWriteType
  <2> QED
    BY <2>3, <2>4 DEF TypeOK
<1>3. ResetQueueIsFull'
  BY DEF ResetQueueIsFull
<1>4. MainThread'
  BY DEF MainThread, RelocationCredits, Stored, TypeOK
<1> QED
  BY <1>1, <1>2, <1>3, <1>4

-----------------------------------------------------------------------------
(* The relocation loop takes a zone out of the pool of empty ones.         *)
LEMMA RelocateOpenIInv ==
  ASSUME IInv, RelocateOpen
  PROVE  IInv'
<1> USE DEF IInv, RelocateOpen, metas, maps, threads, device, compaction
<1> PICK z \in empty_zone : /\ empty_zone' = empty_zone \ {z}
                            /\ to_zone' = z
                            /\ to_slot' = write_ptr[z]
  OBVIOUS
<1>1. TypeOK'
  BY DEF TypeOK
<1>2. ZonesAccounted'
  <2>1. z \in Zones /\ z # NoZone /\ z \notin Opened /\ z \notin full_zone
    BY ZoneFacts, Constants DEF ZonesAccounted, TypeOK
  <2>2. Opened' = Opened /\ \A y : Full(y)' = Full(y)
    BY DEF Opened, Full
  <2> QED
    BY <2>1, <2>2 DEF ZonesAccounted
<1>3. ResetQueueIsFull' /\ MapsInverse'
  BY DEF ResetQueueIsFull, MapsInverse, Stored
<1>4. RelocationAccounted'
  <2>1. \A y \in Zones : Used(y)' = Used(y)
    BY Constants DEF Used, TypeOK
  <2>2. \A y \in Zones : Occupied(y)' = Occupied(y)
    BY DEF Occupied
  <2> QED
    BY <2>1, <2>2 DEF RelocationAccounted, TypeOK
<1>5. MainThread'
  <2>1. to_slot' = write_ptr'[to_zone'] + (moved' - prev')
    <3>1. moved = prev /\ moved \in Int /\ write_ptr[z] \in Int
      BY Constants DEF MainThread, RelocationCredits, TypeOK
    <3> QED
      BY <3>1
  <2> QED
    BY <2>1 DEF MainThread, RelocationCredits, Stored
<1> QED
  BY <1>1, <1>2, <1>3, <1>4, <1>5

(* resetZone takes up a full zone: the slots it is going to move are those *)
(* the map says are occupied.                                              *)
LEMMA ResetBeginIInv ==
  ASSUME IInv, NEW z \in full_zone, NEW force \in BOOLEAN, ResetBegin(z, force),
         \/ pc = "try" /\ z \in todo
         \/ pc = "write" /\ reset_zone = {}
  PROVE  IInv'
<1> USE DEF IInv, ResetBegin, metas, maps, pools, threads, device, compaction
<1>0. z \in Zones /\ victim = NoZone /\ to_zone = NoZone /\ rewrite = {}
  BY DEF TypeOK, MainThread, RelocationCredits
<1>1. LiveSlots(z) = Occupied(z)
  <2>1. /\ Occupied(z) = {i \in Slots : i < Used(z)} \ deleted_table[z]
        /\ valid_table_num[z] + (Used(z) - write_ptr[z]) = Cardinality(Occupied(z))
    BY <1>0, Constants DEF RelocationAccounted
  <2>2. Used(z) = write_ptr[z] /\ write_ptr[z] = TablesPerZone
    BY <1>0, ZoneFacts, Constants DEF Used
  <2>3. {i \in Slots : i < Used(z)} = Slots
    BY <2>2, Constants DEF Slots
  <2>4. valid_table_num[z] = Cardinality(Occupied(z))
    BY <2>1, <2>2, <1>0 DEF TypeOK
  <2>5. CASE valid_table_num[z] = 0
    BY <2>4, <2>5, <1>0, OccupiedCount, FS_EmptySet DEF LiveSlots
  <2>6. CASE valid_table_num[z] # 0
    BY <2>1, <2>3, <2>6 DEF LiveSlots
  <2> QED
    BY <2>5, <2>6
<1>2. TypeOK'
  <2>1. completeTable' \in SUBSET Tables
    BY DEF TypeOK, Await
  <2>2. LiveSlots(z) \in SUBSET Slots
    BY DEF LiveSlots
  <2> QED
    BY <1>0, <2>1, <2>2 DEF TypeOK
<1>3. ZonesAccounted' /\ MapsInverse'
  BY DEF ZonesAccounted, Opened, Full, MapsInverse, Stored
<1>4. ResetQueueIsFull'
  BY DEF ResetQueueIsFull, MainThread, RelocationCredits
<1>5. RelocationAccounted'
  BY <1>0, <1>1, Constants DEF RelocationAccounted, Occupied, Used
<1>6. MainThread'
  BY <1>0, Constants DEF MainThread, RelocationCredits, Stored
<1> QED
  BY <1>2, <1>3, <1>4, <1>5, <1>6

(* resetZone erases the zone, which the relocation loop has emptied.       *)
LEMMA ResetEndIInv ==
  ASSUME IInv, ResetEnd
  PROVE  IInv'
<1> USE DEF IInv, ResetEnd, maps, threads, compaction
<1>0. /\ victim \in Zones /\ victim \in full_zone
      /\ victim \notin Opened /\ victim \notin empty_zone
  BY Constants DEF TypeOK, MainThread, RelocationCredits, RelocationAccounted, ZonesAccounted
<1>1. TypeOK'
  <2>1. /\ zone_wp' \in [Zones -> Nat]
        /\ write_ptr' \in [Zones -> 0 .. TablesPerZone]
        /\ valid_table_num' \in [Zones -> 0 .. TablesPerZone]
        /\ deleted_table' \in [Zones -> SUBSET Slots]
    <3>1. 0 \in 0 .. TablesPerZone
      BY Constants
    <3>2. zone_wp' \in [Zones -> Nat]
      BY DEF TypeOK
    <3>3. /\ write_ptr' \in [Zones -> 0 .. TablesPerZone]
          /\ valid_table_num' \in [Zones -> 0 .. TablesPerZone]
      BY <3>1 DEF TypeOK
    <3>4. deleted_table' \in [Zones -> SUBSET Slots]
      BY DEF TypeOK
    <3> QED
      BY <3>2, <3>3, <3>4
  <2> QED
    BY <2>1, <1>0 DEF TypeOK
<1>2. ZonesAccounted'
  <2>1. Opened' = Opened /\ to_zone' = to_zone /\ to_zone = NoZone
    BY DEF Opened
  <2>2. \A y \in Zones : Full(y)' <=> (Full(y) /\ y # victim)
    BY <1>0, Constants DEF Full, TypeOK
  <2>3. full_zone' = {y \in Zones : Full(y)'}
    BY <2>2 DEF ZonesAccounted
  <2>4. Zones = Opened' \cup empty_zone' \cup full_zone' \cup ({to_zone'} \ {NoZone})
    BY <1>0, <2>1 DEF ZonesAccounted
  <2>5. /\ Opened' \cap empty_zone' = {}
        /\ (Opened' \cup empty_zone') \cap full_zone' = {}
        /\ to_zone' \notin Opened' \cup empty_zone' \cup full_zone'
    BY <1>0, <2>1, Constants DEF ZonesAccounted
  <2> QED
    BY <2>3, <2>4, <2>5 DEF ZonesAccounted
<1>3. ResetQueueIsFull'
  BY DEF ResetQueueIsFull, MainThread, RelocationCredits
<1>4. MapsInverse'
  BY DEF MapsInverse, Stored
<1>5. RelocationAccounted'
  <2>1. \A y \in Zones : Occupied(y)' = Occupied(y)
    BY DEF Occupied
  <2>2. \A y \in Zones \ {victim} : Used(y)' = Used(y)
    BY Constants DEF Used, TypeOK
  <2>3. \A y \in Zones : y = victim => Used(y)' = 0 /\ write_ptr'[y] = 0 /\ valid_table_num'[y] = 0
    <3>1. write_ptr'[victim] = 0 /\ valid_table_num'[victim] = 0
      BY <1>0 DEF TypeOK
    <3> QED
      BY <3>1, <1>0, Constants DEF Used
  <2>4. Occupied(victim) = {} /\ Cardinality({}) = 0
    BY <1>0, Constants, FS_EmptySet DEF RelocationAccounted
  <2>5. {i \in Slots : i < 0} = {}
    BY Constants DEF Slots
  <2>6. deleted_table'[victim] = {}
    BY <1>0 DEF TypeOK
  <2>7. \A y \in Zones \ {victim} : /\ write_ptr'[y] = write_ptr[y]
                                    /\ valid_table_num'[y] = valid_table_num[y]
                                    /\ deleted_table'[y] = deleted_table[y]
    BY DEF TypeOK
  <2>8. \A y \in Zones : /\ Occupied(y)' = {i \in Slots : i < Used(y)'} \ deleted_table'[y]
                         /\ valid_table_num'[y] + (Used(y)' - write_ptr'[y]) = Cardinality(Occupied(y)')
    <3> SUFFICES ASSUME NEW y \in Zones
                 PROVE  /\ Occupied(y)' = {i \in Slots : i < Used(y)'} \ deleted_table'[y]
                        /\ valid_table_num'[y] + (Used(y)' - write_ptr'[y]) = Cardinality(Occupied(y)')
      OBVIOUS
    <3>1. CASE y = victim
      <4>1. Occupied(y)' = {} /\ Cardinality(Occupied(y)') = 0
        BY <2>1, <2>4, <3>1
      <4>2. {i \in Slots : i < Used(y)'} \ deleted_table'[y] = {}
        BY <2>3, <2>5, <3>1
      <4> QED
        BY <2>3, <3>1, <4>1, <4>2
    <3>2. CASE y # victim
      BY <2>1, <2>2, <2>7, <3>2 DEF RelocationAccounted
    <3> QED
      BY <3>1, <3>2
  <2>9. \A y \in Zones : \A i \in deleted_table'[y] : i < write_ptr'[y]
    BY <2>6, <2>7 DEF RelocationAccounted
  <2> QED
    BY <2>8, <2>9 DEF RelocationAccounted
<1>6. MainThread'
  BY DEF MainThread, RelocationCredits, Stored
<1> QED
  BY <1>1, <1>2, <1>3, <1>4, <1>5, <1>6

(* Rebind takes table t from where it is to a free address, or to none.    *)
LEMMA RebindMaps ==
  ASSUME TypeOK, MapsInverse, NEW t \in Tables, NEW old, NEW new \in Addrs \cup {NoAddr},
         old = mappingTable[t],
         new # NoAddr => remappingTable[new] = NoTable,
         Rebind(t, old, new)
  PROVE  /\ mappingTable' \in [Tables -> Addrs \cup {NoAddr}]
         /\ remappingTable' \in [Addrs -> Tables \cup {NoTable}]
         /\ MapsInverse'
         /\ \A z \in Zones : \A i \in Slots :
              i \in Occupied(z)' <=> <<z, i>> = new \/ (i \in Occupied(z) /\ <<z, i>> # old)
         /\ mappingTable'[t] = new
         /\ \A u \in Tables \ {t} : mappingTable'[u] = mappingTable[u]
<1>1. /\ mappingTable \in [Tables -> Addrs \cup {NoAddr}]
      /\ remappingTable \in [Addrs -> Tables \cup {NoTable}]
  BY DEF TypeOK
<1>2. /\ mappingTable' = [mappingTable EXCEPT ![t] = new]
      /\ remappingTable' = [a \in Addrs |-> IF a = new THEN t
                                            ELSE IF a = old THEN NoTable
                                            ELSE remappingTable[a]]
  BY DEF Rebind
<1>3. /\ mappingTable' \in [Tables -> Addrs \cup {NoAddr}]
      /\ mappingTable'[t] = new
      /\ \A u \in Tables \ {t} : mappingTable'[u] = mappingTable[u]
  BY <1>1, <1>2
<1>4. remappingTable' \in [Addrs -> Tables \cup {NoTable}]
  BY <1>1, <1>2
<1>5. \A a \in Addrs : remappingTable'[a] = IF a = new THEN t
                                           ELSE IF a = old THEN NoTable
                                           ELSE remappingTable[a]
  BY <1>2
<1>6. /\ \A u \in Tables : mappingTable[u] # NoAddr => remappingTable[mappingTable[u]] = u
      /\ \A a \in Addrs : remappingTable[a] # NoTable => mappingTable[remappingTable[a]] = a
  BY DEF MapsInverse, Stored
<1>7. MapsInverse'
  <2>1. ASSUME NEW u \in Tables, mappingTable'[u] # NoAddr
        PROVE  remappingTable'[mappingTable'[u]] = u
    <3>1. CASE u = t
      BY <1>3, <1>5, <2>1, <3>1
    <3>2. CASE u # t
      <4>1. mappingTable'[u] = mappingTable[u] /\ mappingTable[u] \in Addrs
        BY <1>1, <1>3, <2>1, <3>2
      <4>2. remappingTable[mappingTable[u]] = u
        BY <1>6, <2>1, <4>1
      <4>3. mappingTable[u] # new
        BY <4>1, <4>2, Constants
      <4>4. mappingTable[u] # old
        BY <1>6, <3>2, <4>1, <4>2, Constants
      <4> QED
        BY <1>5, <4>1, <4>2, <4>3, <4>4
    <3> QED
      BY <3>1, <3>2
  <2>2. ASSUME NEW a \in Addrs, remappingTable'[a] # NoTable
        PROVE  mappingTable'[remappingTable'[a]] = a
    <3>1. CASE a = new
      BY <1>3, <1>5, <3>1
    <3>2. CASE a # new
      <4>1. a # old /\ remappingTable'[a] = remappingTable[a]
        BY <1>5, <2>2, <3>2
      <4>2. mappingTable[remappingTable[a]] = a /\ remappingTable[a] \in Tables
        BY <1>1, <1>6, <2>2, <4>1
      <4> QED
        BY <1>3, <4>1, <4>2
    <3> QED
      BY <3>1, <3>2
  <2> QED
    BY <2>1, <2>2 DEF MapsInverse, Stored
<1>8. ASSUME NEW z \in Zones, NEW i \in Slots
      PROVE  i \in Occupied(z)' <=> <<z, i>> = new \/ (i \in Occupied(z) /\ <<z, i>> # old)
  <2>1. <<z, i>> \in Addrs
    BY DEF Addrs
  <2> QED
    BY <1>5, <2>1, Constants DEF Occupied
<1> QED
  BY <1>3, <1>4, <1>7, <1>8

(* One more slot of a zone in use adds one to valid_table_num.             *)
LEMMA CountAdd ==
  ASSUME NEW S, IsFiniteSet(S), NEW x, x \notin S
  PROVE  Cardinality(S \cup {x}) = Cardinality(S) + 1
BY FS_AddElement

(* One slot less in use takes one from valid_table_num.                    *)
LEMMA CountRemove ==
  ASSUME NEW S, IsFiniteSet(S), NEW x \in S
  PROVE  Cardinality(S \ {x}) = Cardinality(S) - 1
BY FS_RemoveElement

(* deleteTable unmaps one table and books its slot as deleted.             *)
LEMMA DeleteTableIInv ==
  ASSUME IInv, NEW t \in Tables, DeleteTable(t)
  PROVE  IInv'
<1> USE DEF IInv, threads, device, locals
<1>a. mappingTable[t] \in Addrs
  BY DEF DeleteTable, Stored, TypeOK
<1> PICK z \in Zones, i \in Slots : mappingTable[t] = <<z, i>>
  BY <1>a DEF Addrs
<1>1. /\ remappingTable[<<z, i>>] = t
      /\ victim = NoZone /\ to_zone = NoZone /\ pc = "idle"
  <2>1. remappingTable[mappingTable[t]] = t
    BY DEF DeleteTable, MapsInverse
  <2> QED
    BY <2>1 DEF DeleteTable, MainThread, RelocationCredits
<1>3. /\ mappingTable' \in [Tables -> Addrs \cup {NoAddr}]
      /\ remappingTable' \in [Addrs -> Tables \cup {NoTable}]
      /\ MapsInverse'
      /\ \A y \in Zones : \A j \in Slots :
           j \in Occupied(y)' <=> j \in Occupied(y) /\ <<y, j>> # <<z, i>>
      /\ mappingTable'[t] = NoAddr
      /\ \A u \in Tables \ {t} : mappingTable'[u] = mappingTable[u]
  <2>1. \A y \in Zones : \A j \in Slots : <<y, j>> # NoAddr
    BY Constants DEF Addrs
  <2>2. Rebind(t, <<z, i>>, NoAddr)
    BY DEF DeleteTable
  <2>3. NoAddr \in Addrs \cup {NoAddr} /\ (NoAddr # NoAddr => remappingTable[NoAddr] = NoTable)
    OBVIOUS
  <2>4. /\ mappingTable' \in [Tables -> Addrs \cup {NoAddr}]
        /\ remappingTable' \in [Addrs -> Tables \cup {NoTable}]
        /\ MapsInverse'
        /\ \A y \in Zones : \A j \in Slots :
             j \in Occupied(y)' <=> <<y, j>> = NoAddr \/ (j \in Occupied(y) /\ <<y, j>> # <<z, i>>)
        /\ mappingTable'[t] = NoAddr
        /\ \A u \in Tables \ {t} : mappingTable'[u] = mappingTable[u]
    <3>1. TypeOK /\ MapsInverse /\ <<z, i>> = mappingTable[t]
      OBVIOUS
    <3> HIDE DEF IInv
    <3> QED
      BY <2>2, <2>3, <3>1, RebindMaps
  <2> QED
    BY <2>1, <2>4
<1>4. /\ Occupied(z) = {j \in Slots : j < write_ptr[z]} \ deleted_table[z]
      /\ valid_table_num[z] = Cardinality(Occupied(z))
      /\ i \in Occupied(z)
  <2>1. Used(z) = write_ptr[z]
    BY <1>1, Constants DEF Used
  <2>2. /\ Occupied(z) = {j \in Slots : j < Used(z)} \ deleted_table[z]
        /\ valid_table_num[z] + (Used(z) - write_ptr[z]) = Cardinality(Occupied(z))
    BY <1>1, Constants DEF RelocationAccounted
  <2>3. valid_table_num[z] \in Int /\ write_ptr[z] \in Int
    BY Constants DEF TypeOK
  <2>4. valid_table_num[z] = Cardinality(Occupied(z))
    BY <2>1, <2>2, <2>3
  <2>5. i \in Occupied(z)
    BY <1>1, Constants DEF Occupied
  <2> QED
    BY <2>1, <2>2, <2>4, <2>5
<1>5. /\ Occupied(z)' = Occupied(z) \ {i}
      /\ \A y \in Zones \ {z} : Occupied(y)' = Occupied(y)
  <2>1. \A y \in Zones : Occupied(y) \subseteq Slots /\ Occupied(y)' \subseteq Slots
    BY DEF Occupied
  <2>2. \A y \in Zones : \A j \in Slots :
           j \in Occupied(y)' <=> j \in Occupied(y) /\ ~(y = z /\ j = i)
    BY <1>3
  <2> QED
    BY <2>1, <2>2
<1>6. valid_table_num[z] - 1 = Cardinality(Occupied(z) \ {i}) /\ valid_table_num[z] - 1 \in 0 .. TablesPerZone
  <2>0. IsFiniteSet(Occupied(z)) /\ Cardinality(Occupied(z)) \in 0 .. TablesPerZone
    BY OccupiedCount
  <2>1. Cardinality(Occupied(z) \ {i}) = Cardinality(Occupied(z)) - 1 /\ IsFiniteSet(Occupied(z) \ {i})
    BY <1>4, <2>0, CountRemove, FS_RemoveElement
  <2>2. Cardinality(Occupied(z) \ {i}) \in Nat
    BY <2>1, FS_CardinalityType
  <2> QED
    BY <1>4, <2>0, <2>1, <2>2, Constants
<1>7. /\ valid_table_num' = [valid_table_num EXCEPT ![z] = @ - 1]
      /\ deleted_table' = [deleted_table EXCEPT ![z] = @ \cup {i}]
      /\ reset_zone' = IF Full(z) THEN reset_zone \cup {z} ELSE reset_zone
      /\ FileToRemove' = FileToRemove \ {t} /\ phase' \in {"serve", "clear"}
      /\ UNCHANGED <<write_ptr, completeTable, open_zone, which_zone, empty_zone, full_zone>>
      /\ UNCHANGED <<tasks, running, zone_wp, zns_err, sortTable>>
      /\ UNCHANGED <<pc, writing, todo, victim, rewrite, to_zone, to_slot, moved, prev>>
  BY DEF DeleteTable
<1>8. TypeOK'
  <2>1. valid_table_num' \in [Zones -> 0 .. TablesPerZone]
    BY <1>6, <1>7 DEF TypeOK
  <2>2. deleted_table' \in [Zones -> SUBSET Slots]
    BY <1>7 DEF TypeOK
  <2> QED
    BY <1>3, <1>7, <2>1, <2>2 DEF TypeOK
<1>9. ZonesAccounted'
  BY <1>7 DEF ZonesAccounted, Opened, Full
<1>10. ResetQueueIsFull'
  BY <1>1, <1>7, ZoneFacts DEF ResetQueueIsFull
<1>11. RelocationAccounted'
  <2>1. \A y \in Zones : Used(y)' = write_ptr[y] /\ Used(y) = write_ptr[y]
    BY <1>1, <1>7, Constants DEF Used
  <2>2. i < write_ptr[z]
    BY <1>4
  <2>3. \A y \in Zones : \A j \in deleted_table'[y] : j < write_ptr'[y]
    BY <1>7, <2>2 DEF RelocationAccounted, TypeOK
  <2>4. ASSUME NEW y \in Zones
        PROVE  /\ Occupied(y)' = {j \in Slots : j < Used(y)'} \ deleted_table'[y]
               /\ valid_table_num'[y] + (Used(y)' - write_ptr'[y]) = Cardinality(Occupied(y)')
    <3>0. /\ write_ptr[y] \in Int /\ valid_table_num[y] \in Int
          /\ Used(y)' - write_ptr'[y] = 0 /\ Used(y) - write_ptr[y] = 0
      BY <2>1, <1>7, Constants DEF TypeOK
    <3>1. CASE y = z
      <4>1. deleted_table'[y] = deleted_table[y] \cup {i} /\ valid_table_num'[y] = valid_table_num[y] - 1
        BY <1>7, <3>1 DEF TypeOK
      <4>2. Occupied(y)' = Occupied(y) \ {i}
        BY <1>5, <3>1
      <4>3. Occupied(y)' = {j \in Slots : j < Used(y)'} \ deleted_table'[y]
        BY <1>4, <2>1, <3>1, <4>1, <4>2
      <4>4. valid_table_num'[y] = Cardinality(Occupied(y)')
        BY <1>6, <3>1, <4>1, <4>2
      <4> QED
        BY <3>0, <4>3, <4>4, <4>1
    <3>2. CASE y # z
      <4>1. deleted_table'[y] = deleted_table[y] /\ valid_table_num'[y] = valid_table_num[y]
        BY <1>7, <3>2 DEF TypeOK
      <4>2. Occupied(y)' = Occupied(y)
        BY <1>5, <3>2
      <4>3. /\ Occupied(y) = {j \in Slots : j < Used(y)} \ deleted_table[y]
            /\ valid_table_num[y] + (Used(y) - write_ptr[y]) = Cardinality(Occupied(y))
        BY <1>1, Constants DEF RelocationAccounted
      <4> QED
        BY <2>1, <3>0, <4>1, <4>2, <4>3
    <3> QED
      BY <3>1, <3>2
  <2> QED
    BY <1>1, <1>7, <2>3, <2>4, Constants DEF RelocationAccounted
<1>12. MainThread'
  BY <1>1, <1>3, <1>7, Constants DEF MainThread, RelocationCredits, Stored, TypeOK
<1> QED
  BY <1>3, <1>8, <1>9, <1>10, <1>11, <1>12

(* What the append of a table does to the pools and to the zone it goes to. *)
LEMMA AdvanceZones ==
  ASSUME TypeOK, ZonesAccounted, to_zone = NoZone, NEW z, z = open_zone[which_zone],
         AdvanceOpenZone(z),
         write_ptr' = [write_ptr EXCEPT ![z] = @ + 1],
         to_zone' = to_zone
  PROVE  /\ ZonesAccounted'
         /\ open_zone' \in [Streams -> Zones]
         /\ empty_zone' \in SUBSET Zones /\ full_zone' \in SUBSET Zones
         /\ write_ptr' \in [Zones -> 0 .. TablesPerZone]
         /\ full_zone \subseteq full_zone'
<1>1. z \in Zones /\ z \in Opened /\ z \notin full_zone /\ z \notin empty_zone /\ which_zone \in Streams
  <2>1. which_zone \in Streams
    BY DEF TypeOK
  <2>2. z \in Opened
    BY <2>1 DEF Opened
  <2> QED
    BY <2>1, <2>2, ZoneFacts DEF ZonesAccounted
<1>2. write_ptr[z] \in 0 .. TablesPerZone /\ write_ptr[z] < TablesPerZone
  BY <1>1, ZoneFacts, Constants DEF TypeOK
<1>3. write_ptr' \in [Zones -> 0 .. TablesPerZone]
  BY <1>1, <1>2, Constants DEF TypeOK
<1>4. /\ write_ptr'[z] = write_ptr[z] + 1
      /\ \A y \in Zones \ {z} : write_ptr'[y] = write_ptr[y]
  BY <1>1 DEF TypeOK
<1>5. CASE write_ptr[z] + 1 < TablesPerZone
  <2>1. UNCHANGED <<full_zone, empty_zone, open_zone>>
    BY <1>2, <1>5, Constants DEF AdvanceOpenZone
  <2>2. \A y \in Zones : Full(y)' <=> Full(y)
    BY <1>1, <1>2, <1>4, <1>5, Constants DEF Full, TypeOK
  <2>3. ZonesAccounted'
    BY <2>1, <2>2 DEF ZonesAccounted, Opened
  <2> QED
    BY <1>3, <2>1, <2>3 DEF TypeOK
<1>6. CASE write_ptr[z] + 1 >= TablesPerZone
  <2>1. full_zone' = full_zone \cup {z}
    BY <1>2, <1>6, Constants DEF AdvanceOpenZone
  <2>2. PICK n \in empty_zone : /\ empty_zone' = empty_zone \ {n}
                               /\ open_zone' = [open_zone EXCEPT ![which_zone] = n]
    BY <1>2, <1>6, Constants DEF AdvanceOpenZone
  <2>3. n \in Zones /\ n \notin Opened /\ n \notin full_zone /\ n # NoZone
    BY ZoneFacts, Constants DEF ZonesAccounted, TypeOK
  <2>4. /\ open_zone' \in [Streams -> Zones]
        /\ open_zone'[which_zone] = n
        /\ \A i \in Streams \ {which_zone} : open_zone'[i] = open_zone[i] /\ open_zone[i] # z
    <3>1. \A i \in Streams \ {which_zone} : open_zone[i] # z
      BY <1>1 DEF ZonesAccounted
    <3> QED
      BY <1>1, <2>2, <2>3, <3>1 DEF TypeOK
  <2>5. \A i \in Streams : open_zone[i] # n
    BY <2>3 DEF Opened
  <2>6. \A i, j \in Streams : open_zone'[i] = open_zone'[j] => i = j
    BY <1>1, <2>4, <2>5 DEF ZonesAccounted
  <2>7. Opened' = (Opened \ {z}) \cup {n}
    <3>1. \A x : x \in Opened' <=> \E i \in Streams : x = open_zone'[i]
      BY DEF Opened
    <3>2. \A x : x \in Opened <=> \E i \in Streams : x = open_zone[i]
      BY DEF Opened
    <3> QED
      BY <1>1, <2>4, <3>1, <3>2
  <2>8. \A y \in Zones : Full(y)' <=> (Full(y) \/ y = z)
    BY <1>1, <1>2, <1>4, <1>6, Constants DEF Full, TypeOK
  <2>9. full_zone' = {y \in Zones : Full(y)'}
    BY <1>1, <2>1, <2>8 DEF ZonesAccounted
  <2>10. ZonesAccounted'
    <3>1. /\ Opened' \cap empty_zone' = {}
          /\ (Opened' \cup empty_zone') \cap full_zone' = {}
      BY <1>1, <2>1, <2>2, <2>3, <2>7 DEF ZonesAccounted
    <3>2. to_zone' \notin Opened' \cup empty_zone' \cup full_zone'
      BY <1>1, <2>1, <2>2, <2>3, <2>7, Constants DEF ZonesAccounted
    <3>3. Zones = Opened' \cup empty_zone' \cup full_zone' \cup ({to_zone'} \ {NoZone})
      BY <1>1, <2>1, <2>2, <2>3, <2>7 DEF ZonesAccounted
    <3> QED
      BY <2>6, <2>9, <3>1, <3>2, <3>3 DEF ZonesAccounted
  <2> QED
    BY <1>1, <1>3, <2>1, <2>2, <2>4, <2>10 DEF TypeOK
<1> QED
  BY <1>2, <1>5, <1>6, Constants

(* The round robin of which_zone stays within the open zones and workers.  *)
LEMMA StreamType ==
  ASSUME TypeOK
  PROVE  NextStream \in Streams /\ NextWorker \in Workers
<1>1. which_zone + 1 \in Int /\ OpenZones \in Nat /\ OpenZones > 0
  BY Constants DEF TypeOK, Streams
<1>2. NextStream \in 0 .. (OpenZones - 1)
  BY <1>1 DEF NextStream
<1> QED
  BY <1>1, <1>2 DEF Streams, Workers, NextWorker

(* writeTable maps the new table to the next slot of the current open zone.*)
LEMMA AppendTableIInv ==
  ASSUME IInv, AppendTable
  PROVE  IInv'
<1> USE DEF IInv, device
<1> PICK z : z = open_zone[which_zone]
  OBVIOUS
<1> PICK p : p = write_ptr[z]
  OBVIOUS
<1> PICK t : t = writing
  OBVIOUS
<1>1. /\ t \in Tables /\ mappingTable[t] = NoAddr
      /\ victim = NoZone /\ to_zone = NoZone /\ rewrite = {} /\ todo = {} /\ pc = "write"
  BY DEF AppendTable, MainThread, RelocationCredits, Stored, TypeOK
<1>2. /\ z \in Zones /\ p \in Slots /\ p < TablesPerZone /\ z \in Opened
  <2>1. z \in Opened
    BY DEF TypeOK, Opened
  <2>2. z \in Zones /\ write_ptr[z] # TablesPerZone
    BY <2>1, ZoneFacts
  <2> QED
    BY <2>1, <2>2, Constants DEF TypeOK, Slots
<1>3. /\ pc' = "idle" /\ writing' = NoTable
      /\ which_zone' = NextStream
      /\ write_ptr' = [write_ptr EXCEPT ![z] = @ + 1]
      /\ valid_table_num' = [valid_table_num EXCEPT ![z] = @ + 1]
      /\ completeTable' = completeTable \cup {t}
      /\ tasks' = [tasks EXCEPT ![NextWorker] = Append(@, [table |-> t, addr |-> <<z, p>>])]
      /\ UNCHANGED <<deleted_table, reset_zone, running, zone_wp, zns_err>>
      /\ UNCHANGED <<todo, victim, rewrite, to_zone, to_slot, moved, prev>>
      /\ UNCHANGED <<phase, sortTable, FileToRemove>>
      /\ AdvanceOpenZone(z)
      /\ Rebind(t, NoAddr, <<z, p>>)
  BY DEF AppendTable, compaction
<1>4. /\ ZonesAccounted'
      /\ open_zone' \in [Streams -> Zones]
      /\ empty_zone' \in SUBSET Zones /\ full_zone' \in SUBSET Zones
      /\ write_ptr' \in [Zones -> 0 .. TablesPerZone]
      /\ full_zone \subseteq full_zone'
  BY <1>1, <1>3, AdvanceZones
<1>5. /\ Occupied(z) = {j \in Slots : j < p} \ deleted_table[z]
      /\ valid_table_num[z] = Cardinality(Occupied(z))
      /\ p \notin Occupied(z) /\ p \notin deleted_table[z]
  <2>1. Used(z) = p
    BY <1>1, <1>2, Constants DEF Used
  <2>2. /\ Occupied(z) = {j \in Slots : j < Used(z)} \ deleted_table[z]
        /\ valid_table_num[z] + (Used(z) - write_ptr[z]) = Cardinality(Occupied(z))
        /\ \A j \in deleted_table[z] : j < write_ptr[z]
    BY <1>1, <1>2, Constants DEF RelocationAccounted
  <2>3. valid_table_num[z] \in Int /\ p \in Int
    BY <1>2, Constants DEF TypeOK
  <2>4. valid_table_num[z] = Cardinality(Occupied(z))
    BY <2>1, <2>2, <2>3
  <2> QED
    BY <2>1, <2>2, <2>3, <2>4
<1>6. /\ mappingTable' \in [Tables -> Addrs \cup {NoAddr}]
      /\ remappingTable' \in [Addrs -> Tables \cup {NoTable}]
      /\ MapsInverse'
      /\ \A y \in Zones : \A j \in Slots :
           j \in Occupied(y)' <=> (y = z /\ j = p) \/ j \in Occupied(y)
  <2>1. TypeOK /\ MapsInverse /\ NoAddr = mappingTable[t]
    BY <1>1
  <2>2. <<z, p>> \in Addrs \cup {NoAddr} /\ remappingTable[<<z, p>>] = NoTable
    BY <1>2, <1>5 DEF Occupied, Addrs
  <2>3. /\ mappingTable' \in [Tables -> Addrs \cup {NoAddr}]
        /\ remappingTable' \in [Addrs -> Tables \cup {NoTable}]
        /\ MapsInverse'
        /\ \A y \in Zones : \A j \in Slots :
             j \in Occupied(y)' <=> <<y, j>> = <<z, p>> \/ (j \in Occupied(y) /\ <<y, j>> # NoAddr)
    <3> HIDE DEF IInv
    <3> QED
      BY <1>1, <1>3, <2>1, <2>2, RebindMaps
  <2>4. \A y \in Zones : \A j \in Slots : <<y, j>> # NoAddr
    BY Constants DEF Addrs
  <2> QED
    BY <2>3, <2>4
<1>7. /\ Occupied(z)' = Occupied(z) \cup {p}
      /\ \A y \in Zones \ {z} : Occupied(y)' = Occupied(y)
  <2>1. \A y \in Zones : Occupied(y) \subseteq Slots /\ Occupied(y)' \subseteq Slots
    BY DEF Occupied
  <2> QED
    BY <1>2, <1>6, <2>1
<1>8. /\ valid_table_num[z] + 1 = Cardinality(Occupied(z) \cup {p})
      /\ valid_table_num[z] + 1 \in 0 .. TablesPerZone
  <2>1. IsFiniteSet(Occupied(z))
    BY <1>2, OccupiedCount
  <2>2. Cardinality(Occupied(z) \cup {p}) = Cardinality(Occupied(z)) + 1
    BY <1>5, <2>1, CountAdd
  <2>3. Occupied(z) \cup {p} \subseteq Slots
    BY <1>2 DEF Occupied
  <2>4. Cardinality(Occupied(z) \cup {p}) <= TablesPerZone
    BY <2>3, SlotsFinite, FS_Subset
  <2>5. valid_table_num[z] \in 0 .. TablesPerZone
    BY <1>2 DEF TypeOK
  <2> QED
    BY <1>5, <2>2, <2>4, <2>5, Constants
<1>9. TypeOK'
  <2>1. valid_table_num' \in [Zones -> 0 .. TablesPerZone]
    BY <1>2, <1>3, <1>8 DEF TypeOK
  <2>2. tasks' \in [Workers -> Seq(Tasks)]
    <3>1. [table |-> t, addr |-> <<z, p>>] \in Tasks
      BY <1>1, <1>2 DEF Tasks, Addrs
    <3>2. tasks[NextWorker] \in Seq(Tasks)
      BY StreamType DEF TypeOK
    <3>3. Append(tasks[NextWorker], [table |-> t, addr |-> <<z, p>>]) \in Seq(Tasks)
      BY <3>1, <3>2
    <3> QED
      BY <1>3, <3>3 DEF TypeOK
  <2>3. which_zone' \in Streams
    BY <1>3, StreamType
  <2> QED
    BY <1>1, <1>3, <1>4, <1>6, <2>1, <2>2, <2>3 DEF TypeOK
<1>10. ResetQueueIsFull'
  BY <1>1, <1>3, <1>4 DEF ResetQueueIsFull
<1>11. RelocationAccounted'
  <2>1. \A y \in Zones : Used(y)' = write_ptr'[y] /\ Used(y) = write_ptr[y]
    BY <1>1, <1>3, Constants DEF Used
  <2>2. /\ write_ptr'[z] = p + 1 /\ valid_table_num'[z] = valid_table_num[z] + 1
        /\ \A y \in Zones \ {z} : write_ptr'[y] = write_ptr[y] /\ valid_table_num'[y] = valid_table_num[y]
    BY <1>2, <1>3 DEF TypeOK
  <2>3. \A y \in Zones : \A j \in deleted_table'[y] : j < write_ptr'[y]
    <3> SUFFICES ASSUME NEW y \in Zones, NEW j \in deleted_table[y] PROVE j < write_ptr'[y]
      BY <1>3
    <3>1. j \in Int /\ write_ptr[y] \in Int /\ j < write_ptr[y]
      BY Constants DEF RelocationAccounted, TypeOK, Slots
    <3> QED
      BY <2>2, <3>1
  <2>4. ASSUME NEW y \in Zones
        PROVE  /\ Occupied(y)' = {j \in Slots : j < Used(y)'} \ deleted_table'[y]
               /\ valid_table_num'[y] + (Used(y)' - write_ptr'[y]) = Cardinality(Occupied(y)')
    <3>0. /\ write_ptr'[y] \in Int /\ write_ptr[y] \in Int /\ valid_table_num[y] \in Int
          /\ Used(y)' - write_ptr'[y] = 0 /\ Used(y) - write_ptr[y] = 0
      <4>1. write_ptr'[y] \in 0 .. TablesPerZone
        BY <1>4
      <4>2. write_ptr[y] \in 0 .. TablesPerZone /\ valid_table_num[y] \in 0 .. TablesPerZone
        BY DEF TypeOK
      <4>3. write_ptr'[y] \in Int /\ write_ptr[y] \in Int /\ valid_table_num[y] \in Int
        BY <4>1, <4>2, Constants
      <4>4. Used(y)' = write_ptr'[y] /\ Used(y) = write_ptr[y]
        BY <2>1
      <4> QED
        BY <4>3, <4>4
    <3>1. CASE y = z
      <4>1. {j \in Slots : j < p + 1} = {j \in Slots : j < p} \cup {p}
        BY <1>2 DEF Slots
      <4>2. Occupied(y)' = Occupied(y) \cup {p}
        BY <1>7, <3>1
      <4>3. Occupied(y)' = {j \in Slots : j < Used(y)'} \ deleted_table'[y]
        BY <1>3, <1>5, <2>1, <2>2, <3>1, <4>1, <4>2
      <4>4. valid_table_num'[y] = Cardinality(Occupied(y)')
        BY <1>8, <2>2, <3>1, <4>2
      <4>5. valid_table_num'[y] \in Int
        BY <2>2, <3>0, <3>1
      <4> QED
        BY <3>0, <4>3, <4>4, <4>5
    <3>2. CASE y # z
      <4>1. /\ Occupied(y) = {j \in Slots : j < Used(y)} \ deleted_table[y]
            /\ valid_table_num[y] + (Used(y) - write_ptr[y]) = Cardinality(Occupied(y))
        BY <1>1, Constants DEF RelocationAccounted
      <4>2. Occupied(y)' = Occupied(y)
        BY <1>7, <3>2
      <4> QED
        BY <1>3, <2>1, <2>2, <3>0, <3>2, <4>1, <4>2
    <3> QED
      BY <3>1, <3>2
  <2> QED
    BY <1>1, <1>3, <2>3, <2>4, Constants DEF RelocationAccounted
<1>12. MainThread'
  <2>1. \A w \in running : tasks'[w] # <<>>
    <3> SUFFICES ASSUME NEW w \in running PROVE tasks'[w] # <<>>
      OBVIOUS
    <3>1. w \in Workers /\ tasks[w] # <<>> /\ tasks[w] \in Seq(Tasks)
      BY DEF MainThread, RelocationCredits, TypeOK
    <3>2. CASE w = NextWorker
      <4>1. tasks'[w] = Append(tasks[w], [table |-> t, addr |-> <<z, p>>])
        BY <1>3, <3>1, <3>2 DEF TypeOK
      <4>2. Len(tasks'[w]) = Len(tasks[w]) + 1 /\ Len(tasks[w]) \in Nat
        BY <3>1, <4>1
      <4>3. Len(<<>>) = 0
        OBVIOUS
      <4> QED
        BY <4>2, <4>3
    <3>3. CASE w # NextWorker
      BY <1>3, <3>1, <3>3 DEF TypeOK
    <3> QED
      BY <3>2, <3>3
  <2> QED
    BY <1>1, <1>3, <2>1 DEF MainThread, RelocationCredits
<1> QED
  BY <1>4, <1>6, <1>9, <1>10, <1>11, <1>12

(* One turn of the relocation loop takes the victim's lowest live table to *)
(* the next slot of the target zone.                                       *)
LEMMA RelocateMoveIInv ==
  ASSUME IInv, RelocateMove
  PROVE  IInv'
<1> USE DEF IInv
<1> PICK i \in rewrite :
      /\ Rebind(remappingTable[<<victim, i>>], <<victim, i>>, <<to_zone, to_slot>>)
      /\ ZnsWrite(<<to_zone, to_slot>>)
      /\ rewrite' = rewrite \ {i}
      /\ to_slot' = to_slot + 1
  BY DEF RelocateMove
<1> PICK z, v, p, t : z = to_zone /\ v = victim /\ p = to_slot /\ t = remappingTable[<<victim, i>>]
  OBVIOUS
<1>1. /\ UNCHANGED <<write_ptr, valid_table_num, deleted_table, completeTable>>
      /\ UNCHANGED <<open_zone, which_zone, empty_zone, full_zone, reset_zone, tasks, running>>
      /\ UNCHANGED <<pc, writing, todo, victim, to_zone, prev>>
      /\ UNCHANGED <<phase, sortTable, FileToRemove>>
      /\ moved' = moved + 1
      /\ pc = "reset" /\ z # NoZone /\ p < TablesPerZone
      /\ to_zone' = z /\ victim' = v
      /\ Rebind(t, <<v, i>>, <<z, p>>)
      /\ rewrite' = rewrite \ {i}
      /\ to_slot' = p + 1
  BY DEF RelocateMove, metas, pools, threads, compaction
<1>2. /\ z \in Zones /\ p \in Slots /\ v \in full_zone /\ v \in Zones /\ v # z
      /\ Occupied(v) = rewrite /\ i \in Slots
      /\ p + 1 \in 0 .. TablesPerZone
  <2>1. z \in Zones /\ p \in 0 .. TablesPerZone /\ rewrite \subseteq Slots /\ full_zone \subseteq Zones
    BY <1>1 DEF TypeOK
  <2>2. v \in full_zone /\ Occupied(v) = rewrite
    BY <1>1 DEF MainThread, RelocationCredits, RelocationAccounted
  <2>3. z \notin full_zone
    BY DEF ZonesAccounted
  <2>4. p \in Slots /\ p + 1 \in 0 .. TablesPerZone
    BY <1>1, <2>1, Constants DEF Slots
  <2> QED
    BY <2>1, <2>2, <2>3, <2>4
<1>3. t \in Tables /\ mappingTable[t] = <<v, i>>
  <2>1. <<v, i>> \in Addrs
    BY <1>2 DEF Addrs
  <2>2. remappingTable[<<v, i>>] # NoTable
    BY <1>2 DEF Occupied
  <2> QED
    BY <2>1, <2>2 DEF MapsInverse, TypeOK
<1>4. /\ Occupied(z) = {j \in Slots : j < p} \ deleted_table[z]
      /\ valid_table_num[z] + (p - write_ptr[z]) = Cardinality(Occupied(z))
      /\ p \notin Occupied(z) /\ p \notin deleted_table[z]
      /\ write_ptr[z] \in Int /\ valid_table_num[z] \in Int /\ p \in Int /\ write_ptr[z] <= p
  <2>1. Used(z) = p
    BY DEF Used
  <2>2. /\ Occupied(z) = {j \in Slots : j < Used(z)} \ deleted_table[z]
        /\ valid_table_num[z] + (Used(z) - write_ptr[z]) = Cardinality(Occupied(z))
        /\ \A j \in deleted_table[z] : j < write_ptr[z]
        /\ write_ptr[z] <= p
    BY <1>1, <1>2 DEF RelocationAccounted
  <2>3. valid_table_num[z] \in Int /\ p \in Int /\ write_ptr[z] \in Int
    BY <1>2, Constants DEF TypeOK
  <2> QED
    BY <2>1, <2>2, <2>3
<1>5. /\ mappingTable' \in [Tables -> Addrs \cup {NoAddr}]
      /\ remappingTable' \in [Addrs -> Tables \cup {NoTable}]
      /\ MapsInverse'
      /\ \A y \in Zones : \A j \in Slots :
           j \in Occupied(y)' <=> (y = z /\ j = p) \/ (j \in Occupied(y) /\ ~(y = v /\ j = i))
      /\ \A u \in Tables \ {t} : mappingTable'[u] = mappingTable[u]
  <2>1. TypeOK /\ MapsInverse /\ <<v, i>> = mappingTable[t]
    BY <1>3
  <2>2. <<z, p>> \in Addrs \cup {NoAddr} /\ remappingTable[<<z, p>>] = NoTable
    BY <1>2, <1>4 DEF Occupied, Addrs
  <2>3. /\ mappingTable' \in [Tables -> Addrs \cup {NoAddr}]
        /\ remappingTable' \in [Addrs -> Tables \cup {NoTable}]
        /\ MapsInverse'
        /\ \A y \in Zones : \A j \in Slots :
             j \in Occupied(y)' <=> <<y, j>> = <<z, p>> \/ (j \in Occupied(y) /\ <<y, j>> # <<v, i>>)
        /\ \A u \in Tables \ {t} : mappingTable'[u] = mappingTable[u]
    <3> HIDE DEF IInv
    <3> QED
      BY <1>1, <1>3, <2>1, <2>2, RebindMaps
  <2> QED
    BY <2>3
<1>6. /\ Occupied(z)' = Occupied(z) \cup {p}
      /\ Occupied(v)' = Occupied(v) \ {i}
      /\ \A y \in Zones \ {z, v} : Occupied(y)' = Occupied(y)
  <2>1. \A y \in Zones : Occupied(y) \subseteq Slots /\ Occupied(y)' \subseteq Slots
    BY DEF Occupied
  <2> QED
    BY <1>2, <1>5, <2>1
<1>7. TypeOK'
  <2>1. zone_wp' \in [Zones -> Nat] /\ zns_err' \in BOOLEAN
    BY ZnsWriteType
  <2>2. moved' \in Nat /\ prev' \in Nat
    BY <1>1 DEF TypeOK
  <2> QED
    BY <1>1, <1>2, <1>5, <2>1, <2>2 DEF TypeOK
<1>8. ZonesAccounted'
  BY <1>1 DEF ZonesAccounted, Opened, Full
<1>9. ResetQueueIsFull'
  BY <1>1 DEF ResetQueueIsFull
<1>10. RelocationAccounted'
  <2>1. \A y \in Zones : Used(y)' = IF y = z THEN p + 1 ELSE Used(y)
    BY <1>1 DEF Used
  <2>2. {j \in Slots : j < p + 1} = {j \in Slots : j < p} \cup {p}
    BY <1>2, Constants DEF Slots
  <2>3. Cardinality(Occupied(z) \cup {p}) = Cardinality(Occupied(z)) + 1
    BY <1>2, <1>4, OccupiedCount, CountAdd
  <2>4. ASSUME NEW y \in Zones \ {v}
        PROVE  /\ Occupied(y)' = {j \in Slots : j < Used(y)'} \ deleted_table'[y]
               /\ valid_table_num'[y] + (Used(y)' - write_ptr'[y]) = Cardinality(Occupied(y)')
    <3>1. CASE y = z
      <4>1. Occupied(y)' = Occupied(z) \cup {p} /\ Used(y)' = p + 1
        BY <1>6, <2>1, <3>1
      <4>2. Occupied(y)' = {j \in Slots : j < Used(y)'} \ deleted_table'[y]
        BY <1>1, <1>4, <2>2, <3>1, <4>1
      <4>3. valid_table_num'[y] + (Used(y)' - write_ptr'[y]) = Cardinality(Occupied(y)')
        <5>1. valid_table_num'[y] = valid_table_num[z] /\ write_ptr'[y] = write_ptr[z]
          BY <1>1, <3>1
        <5>2. Cardinality(Occupied(y)') = Cardinality(Occupied(z)) + 1
          BY <2>3, <4>1
        <5> QED
          BY <1>4, <4>1, <5>1, <5>2
      <4> QED
        BY <4>2, <4>3
    <3>2. CASE y # z
      <4>1. Occupied(y)' = Occupied(y) /\ Used(y)' = Used(y)
        BY <1>6, <2>1, <3>2
      <4> QED
        BY <1>1, <4>1 DEF RelocationAccounted
    <3> QED
      BY <3>1, <3>2
  <2>5. \A y \in Zones : \A j \in deleted_table'[y] : j < write_ptr'[y]
    BY <1>1 DEF RelocationAccounted
  <2>6. write_ptr'[z] <= p + 1
    BY <1>1, <1>4
  <2>7. Occupied(v)' = rewrite'
    BY <1>1, <1>2, <1>6
  <2>8. \A y \in Zones : y = v => Occupied(y)' = rewrite'
    BY <2>7
  <2> QED
    BY <1>1, <1>2, <2>4, <2>5, <2>6, <2>8 DEF RelocationAccounted, Occupied
<1>11. MainThread'
  <2>1. writing # NoTable => writing # t
    BY <1>3, <1>2, Constants DEF MainThread, RelocationCredits, Stored, Addrs
  <2>2. writing # NoTable => writing' # NoTable /\ ~Stored(writing)'
    BY <1>1, <1>5, <2>1 DEF MainThread, RelocationCredits, Stored, TypeOK
  <2>3. to_slot' = write_ptr'[to_zone'] + (moved' - prev')
    <3>1. p = write_ptr[z] + (moved - prev) /\ moved \in Nat /\ prev \in Nat
      BY <1>1 DEF MainThread, RelocationCredits, TypeOK
    <3> QED
      BY <1>1, <1>4, <3>1
  <2> QED
    BY <1>1, <2>2, <2>3 DEF MainThread, RelocationCredits
<1> QED
  BY <1>5, <1>7, <1>8, <1>9, <1>10, <1>11

(* The tables moved since the loop opened the target, i - prev, number the *)
(* slots it has written there: the write pointer it computes is the slot   *)
(* it has reached.                                                         *)
LEMMA CloseEnd ==
  ASSUME IInv, RelocateClose
  PROVE  /\ pc = "reset" /\ to_zone # NoZone
         /\ rewrite = {} \/ to_slot = TablesPerZone
         /\ write_ptr' = [write_ptr EXCEPT ![to_zone] = to_slot]
         /\ valid_table_num' = [valid_table_num EXCEPT ![to_zone] = @ + (to_slot - write_ptr[to_zone])]
         /\ \/ /\ to_slot = TablesPerZone
               /\ full_zone' = full_zone \cup {to_zone}
               /\ prev' = moved
               /\ UNCHANGED empty_zone
            \/ /\ to_slot < TablesPerZone
               /\ empty_zone' = empty_zone \cup {to_zone}
               /\ UNCHANGED <<full_zone, prev>>
         /\ to_zone' = NoZone /\ to_slot' = 0
         /\ UNCHANGED <<deleted_table, maps, completeTable, open_zone, which_zone, reset_zone,
                        threads, device, pc, writing, todo, victim, rewrite, moved, compaction>>
<1>1. /\ pc = "reset" /\ to_zone \in Zones
      /\ to_slot \in 0 .. TablesPerZone /\ write_ptr[to_zone] \in Int
      /\ moved \in Int /\ prev \in Int
      /\ to_slot = write_ptr[to_zone] + (moved - prev)
  BY Constants DEF RelocateClose, IInv, TypeOK, MainThread, RelocationCredits
<1>2. PICK n : n = moved - prev
  OBVIOUS
<1>3. write_ptr[to_zone] + n = to_slot /\ n = to_slot - write_ptr[to_zone]
  BY <1>1, <1>2
<1>4. to_slot >= TablesPerZone <=> to_slot = TablesPerZone
  BY <1>1, Constants
<1>5. /\ write_ptr' = [write_ptr EXCEPT ![to_zone] = write_ptr[to_zone] + n]
      /\ valid_table_num' = [valid_table_num EXCEPT ![to_zone] = @ + n]
      /\ \/ /\ write_ptr[to_zone] + n >= TablesPerZone
            /\ full_zone' = full_zone \cup {to_zone}
            /\ prev' = moved
            /\ UNCHANGED empty_zone
         \/ /\ write_ptr[to_zone] + n < TablesPerZone
            /\ empty_zone' = empty_zone \cup {to_zone}
            /\ UNCHANGED <<full_zone, prev>>
  BY <1>2 DEF RelocateClose, NextPrev
<1>6. /\ pc = "reset" /\ to_zone # NoZone
      /\ rewrite = {} \/ to_slot = TablesPerZone
      /\ to_zone' = NoZone /\ to_slot' = 0
      /\ UNCHANGED <<deleted_table, maps, completeTable, open_zone, which_zone, reset_zone,
                     threads, device, pc, writing, todo, victim, rewrite, moved, compaction>>
  BY DEF RelocateClose
<1> QED
  BY <1>3, <1>4, <1>5, <1>6

(* The relocation loop writes the target's counters back and returns it.   *)
LEMMA RelocateCloseIInv ==
  ASSUME IInv, RelocateClose
  PROVE  IInv'
<1> /\ pc = "reset" /\ to_zone # NoZone
    /\ rewrite = {} \/ to_slot = TablesPerZone
    /\ write_ptr' = [write_ptr EXCEPT ![to_zone] = to_slot]
    /\ valid_table_num' = [valid_table_num EXCEPT ![to_zone] = @ + (to_slot - write_ptr[to_zone])]
    /\ \/ /\ to_slot = TablesPerZone
          /\ full_zone' = full_zone \cup {to_zone}
          /\ prev' = moved
          /\ UNCHANGED empty_zone
       \/ /\ to_slot < TablesPerZone
          /\ empty_zone' = empty_zone \cup {to_zone}
          /\ UNCHANGED <<full_zone, prev>>
    /\ to_zone' = NoZone /\ to_slot' = 0
    /\ UNCHANGED <<deleted_table, maps, completeTable, open_zone, which_zone, reset_zone,
                   threads, device, pc, writing, todo, victim, rewrite, moved, compaction>>
  BY CloseEnd
<1> USE DEF IInv, maps, threads, device, compaction
<1> PICK z, p : z = to_zone /\ p = to_slot
  OBVIOUS
<1>1. /\ z \in Zones /\ z # NoZone /\ p \in 0 .. TablesPerZone /\ pc = "reset"
      /\ z \notin Opened /\ z \notin empty_zone /\ z \notin full_zone
      /\ victim \in full_zone /\ victim # z /\ victim # NoZone
  BY Constants DEF TypeOK, ZonesAccounted, RelocationAccounted, MainThread, RelocationCredits
<1>2. /\ valid_table_num[z] + (p - write_ptr[z]) = Cardinality(Occupied(z))
      /\ Occupied(z) = {j \in Slots : j < p} \ deleted_table[z]
      /\ write_ptr[z] <= p /\ write_ptr[z] \in Int /\ valid_table_num[z] \in Int /\ p \in Int
  <2>1. Used(z) = p
    BY DEF Used
  <2>2. write_ptr[z] \in Int /\ valid_table_num[z] \in Int /\ p \in Int
    BY <1>1, Constants DEF TypeOK
  <2> QED
    BY <1>1, <2>1, <2>2 DEF RelocationAccounted
<1>3. /\ write_ptr' = [write_ptr EXCEPT ![z] = p]
      /\ valid_table_num' = [valid_table_num EXCEPT ![z] = Cardinality(Occupied(z))]
  <2>1. valid_table_num' = [valid_table_num EXCEPT ![z] = @ + (p - write_ptr[z])]
    OBVIOUS
  <2> QED
    BY <1>1, <1>2, <2>1 DEF TypeOK
<1>4. /\ write_ptr' \in [Zones -> 0 .. TablesPerZone]
      /\ valid_table_num' \in [Zones -> 0 .. TablesPerZone]
      /\ write_ptr'[z] = p /\ valid_table_num'[z] = Cardinality(Occupied(z))
      /\ \A y \in Zones \ {z} : write_ptr'[y] = write_ptr[y] /\ valid_table_num'[y] = valid_table_num[y]
  <2>1. Cardinality(Occupied(z)) \in 0 .. TablesPerZone
    BY <1>1, OccupiedCount
  <2> QED
    BY <1>1, <1>3, <2>1 DEF TypeOK
<1>5. TypeOK'
  <2>1. 0 \in 0 .. TablesPerZone
    BY Constants
  <2>2. moved' \in Nat /\ prev' \in Nat
    BY DEF TypeOK
  <2>3. empty_zone' \in SUBSET Zones /\ full_zone' \in SUBSET Zones
    BY <1>1 DEF TypeOK
  <2> QED
    BY <1>1, <1>4, <2>1, <2>2, <2>3 DEF TypeOK
<1>6. ZonesAccounted'
  <2>1. \A y \in Zones : Full(y)' <=> (IF y = z THEN p = TablesPerZone ELSE Full(y))
    BY <1>1, <1>4, Constants DEF Full
  <2>2. Opened' = Opened /\ to_zone' = NoZone /\ NoZone \notin Opened /\ NoZone \notin Zones
    BY Constants DEF Opened, TypeOK
  <2>3. CASE p = TablesPerZone
    <3>1. full_zone' = full_zone \cup {z} /\ empty_zone' = empty_zone
      BY <2>3, Constants
    <3>2. full_zone' = {y \in Zones : Full(y)'}
      BY <1>1, <2>1, <2>3, <3>1 DEF ZonesAccounted
    <3> QED
      BY <1>1, <2>2, <3>1, <3>2 DEF ZonesAccounted, TypeOK
  <2>4. CASE p # TablesPerZone
    <3>1. full_zone' = full_zone /\ empty_zone' = empty_zone \cup {z}
      BY <2>4
    <3>2. full_zone' = {y \in Zones : Full(y)'}
      BY <1>1, <2>1, <2>4, <3>1 DEF ZonesAccounted
    <3> QED
      BY <1>1, <2>2, <3>1, <3>2 DEF ZonesAccounted, TypeOK
  <2> QED
    BY <2>3, <2>4
<1>7. ResetQueueIsFull' /\ MapsInverse'
  BY DEF ResetQueueIsFull, MapsInverse, Stored
<1>8. RelocationAccounted'
  <2>1. \A y \in Zones : Used(y)' = write_ptr'[y] /\ write_ptr'[y] \in Int
    BY <1>1, <1>4, Constants DEF Used
  <2>2. \A y \in Zones : Used(y)' = Used(y)
    BY <1>1, <1>4, <2>1, Constants DEF Used
  <2>3. \A y \in Zones : Occupied(y)' = Occupied(y)
    BY DEF Occupied
  <2>4. \A y \in Zones : \A j \in deleted_table'[y] : j < write_ptr'[y]
    <3> SUFFICES ASSUME NEW y \in Zones, NEW j \in deleted_table[y] PROVE j < write_ptr'[y]
      OBVIOUS
    <3>1. j \in Int /\ j < write_ptr[y] /\ write_ptr[y] \in Int
      BY Constants DEF RelocationAccounted, TypeOK, Slots
    <3> QED
      BY <1>2, <1>4, <3>1
  <2>5. ASSUME NEW y \in Zones \ {victim}
        PROVE  /\ Occupied(y)' = {j \in Slots : j < Used(y)'} \ deleted_table'[y]
               /\ valid_table_num'[y] + (Used(y)' - write_ptr'[y]) = Cardinality(Occupied(y)')
    <3>1. Occupied(y)' = {j \in Slots : j < Used(y)'} \ deleted_table'[y]
      BY <2>2, <2>3 DEF RelocationAccounted
    <3>2. valid_table_num'[y] = Cardinality(Occupied(y)')
      <4>1. CASE y = z
        BY <1>4, <2>3, <4>1
      <4>2. CASE y # z
        BY <1>4, <2>3, <4>2, Constants DEF RelocationAccounted, Used, TypeOK
      <4> QED
        BY <4>1, <4>2
    <3>3. valid_table_num'[y] \in Int
      BY <1>4, Constants
    <3> QED
      BY <2>1, <3>1, <3>2, <3>3
  <2>6. \A y \in Zones : y = victim => Occupied(y)' = rewrite
    BY <2>3, <1>1 DEF RelocationAccounted
  <2>7. victim \in full_zone' /\ victim \in Zones
    BY <1>1 DEF TypeOK
  <2> QED
    BY <2>4, <2>5, <2>6, <2>7 DEF RelocationAccounted, Occupied
<1>9. MainThread'
  BY Constants DEF MainThread, RelocationCredits, Stored
<1> QED
  BY <1>5, <1>6, <1>7, <1>8, <1>9

-----------------------------------------------------------------------------
(* Every step of the store keeps the inductive invariant.                  *)
LEMMA NextIInv == IInv /\ [Next]_vars => IInv'
<1> SUFFICES ASSUME IInv, [Next]_vars PROVE IInv'
  OBVIOUS
<1>1. ASSUME NEW t \in Tables, WriteTable(t) \/ ReadTable(t) \/ GetValue(t) \/ DeleteTable(t)
      PROVE  IInv'
  BY <1>1, WriteTableIInv, ReadIInv, DeleteTableIInv
<1>2. CASE TryReset \/ EvictTry
  BY <1>2, BeginTryIInv DEF TryReset, EvictTry
<1>3. CASE AppendTable
  BY <1>3, AppendTableIInv
<1>4. ASSUME NEW z \in Zones, TryZone(z)
      PROVE  IInv'
  <2>1. z \in full_zone /\ pc = "try" /\ z \in todo
    BY <1>4 DEF TryZone, IInv, ResetQueueIsFull
  <2> QED
    BY <1>4, <2>1, ResetSkipIInv, ResetBeginIInv DEF TryZone
<1>5. ASSUME NEW z \in Zones, EvictForce(z)
      PROVE  IInv'
  BY <1>5, ExitIInv, ResetBeginIInv DEF EvictForce
<1>6. CASE TryEnd \/ ResetEnd
  BY <1>6, TryEndIInv, ResetEndIInv
<1>7. CASE RelocateOpen \/ RelocateExit \/ RelocateMove \/ RelocateClose
  BY <1>7, RelocateOpenIInv, ExitIInv, RelocateMoveIInv, RelocateCloseIInv
<1>8. ASSUME NEW w \in Workers, Worker(w)
      PROVE  IInv'
  BY <1>8, BeginWriteIInv, EndWriteIInv DEF Worker
<1>9. CASE Exited \/ UNCHANGED vars
  BY <1>9, StutterIInv DEF Exited
<1>10. ASSUME NEW S \in SUBSET Tables, Compact(S)
       PROVE  IInv'
  BY <1>10, CompactIInv
<1> QED
  BY <1>1, <1>2, <1>3, <1>4, <1>5, <1>6, <1>7, <1>8, <1>9, <1>10 DEF Next, Client, Reclaim

(* In every reachable state of the store the inductive invariant holds.    *)
THEOREM Invariance == Spec => []IInv
BY InitIInv, NextIInv, PTL DEF Spec

(* Every zone, table, address and counter of MemoryManager keeps its type:  *)
(* in particular a zone's valid_table_num never passes its capacity and     *)
(* never drops below zero, though append, delete and relocation all move it.*)
THEOREM TypeCorrect == Spec => []TypeOK
BY Invariance, PTL DEF IInv

(* No sequence of appends, evictions and resets loses a zone or puts one in *)
(* two of the pools open_zone, empty_zone and full_zone.                    *)
THEOREM ZonesArePartitioned == Spec => []ZonesAccounted
BY Invariance, PTL DEF IInv

(* Every zone resetZone is handed by tryReset is full.                      *)
THEOREM ResetQueueCorrect == Spec => []ResetQueueIsFull
BY Invariance, PTL DEF IInv

(* mappingTable and remappingTable stay inverse through writeTable,         *)
(* deleteTable and relocation.                                              *)
THEOREM MapsAreInverse == Spec => []MapsInverse
BY Invariance, PTL DEF IInv

(* The per-zone counters and deletion lists agree with the maps in every    *)
(* zone the relocation loop does not hold.                                  *)
LEMMA BooksFromIInv == IInv => SlotsAccounted
<1> SUFFICES ASSUME IInv, NEW z \in Zones \ {victim, to_zone}
             PROVE  /\ valid_table_num[z] = Cardinality(Occupied(z))
                    /\ Occupied(z) = {i \in Slots : i < write_ptr[z]} \ deleted_table[z]
  BY DEF SlotsAccounted
<1>1. /\ Occupied(z) = {i \in Slots : i < Used(z)} \ deleted_table[z]
      /\ valid_table_num[z] + (Used(z) - write_ptr[z]) = Cardinality(Occupied(z))
  BY DEF IInv, RelocationAccounted
<1>2. Used(z) = write_ptr[z]
  BY DEF Used
<1>3. write_ptr[z] \in Int /\ valid_table_num[z] \in Int
  BY Constants DEF IInv, TypeOK
<1> QED
  BY <1>1, <1>2, <1>3

(* resetZone never reports "Read valid table wrong": valid_table_num and    *)
(* deleted_table always describe the slots the maps say are live.           *)
THEOREM BooksAgree == Spec => [](SlotsAccounted /\ RelocationAccounted)
<1>1. IInv => SlotsAccounted /\ RelocationAccounted
  BY BooksFromIInv DEF IInv
<1> QED
  BY Invariance, <1>1, PTL

(* Whatever the zones a relocation goes through, each is credited with the *)
(* tables it was given: i - prev, where prev follows i only when a zone is *)
(* full, never counts those that went to another.                          *)
THEOREM CreditsAreRight == Spec => []RelocationCredits
<1>1. IInv => RelocationCredits
  BY DEF IInv, MainThread
<1> QED
  BY Invariance, <1>1, PTL

(* A compaction's tables stay mapped until it clears them, and the only    *)
(* ones with a future left are those it has still to read.                 *)
CompactionInv ==
  /\ \A t \in FileToRemove : Stored(t)
  /\ sortTable \subseteq FileToRemove
  /\ FileToRemove \cap completeTable \subseteq sortTable
  /\ Clears => sortTable = {}

(* A step that unmaps nothing and gives no table a new future keeps this.  *)
LEMMA CompactionFrame ==
  ASSUME TypeOK, CompactionInv, UNCHANGED compaction,
         \A t \in FileToRemove : Stored(t)',
         FileToRemove \cap completeTable' \subseteq FileToRemove \cap completeTable
  PROVE  CompactionInv'
BY DEF CompactionInv, compaction, Clears

LEMMA NextCompaction == IInv /\ CompactionInv /\ [Next]_vars => CompactionInv'
<1> SUFFICES ASSUME IInv, CompactionInv, [Next]_vars PROVE CompactionInv'
  OBVIOUS
<1>0. TypeOK
  BY DEF IInv
<1>1. ASSUME UNCHANGED <<mappingTable, compaction>>, completeTable' \subseteq completeTable
      PROVE  CompactionInv'
  <2>1. \A t \in FileToRemove : Stored(t)'
    BY <1>1 DEF CompactionInv, Stored
  <2> QED
    BY <1>0, <1>1, <2>1, CompactionFrame
<1>2. ASSUME NEW t \in Tables, WriteTable(t) \/ GetValue(t)
      PROVE  CompactionInv'
  BY <1>1, <1>2 DEF WriteTable, GetValue, Await, maps
<1>3. ASSUME NEW t \in Tables, ReadTable(t)
      PROVE  CompactionInv'
  <2>1. /\ UNCHANGED <<mappingTable, FileToRemove>>
        /\ completeTable' = completeTable \ {t} /\ sortTable' = sortTable \ {t}
        /\ phase' = IF sortTable' = {} THEN "merge" ELSE "traverse"
    BY <1>3 DEF ReadTable, Await, maps
  <2> QED
    BY <2>1 DEF CompactionInv, Stored, Clears
<1>4. ASSUME NEW t \in Tables, DeleteTable(t)
      PROVE  CompactionInv'
  <2>1. /\ mappingTable' = [mappingTable EXCEPT ![t] = NoAddr]
        /\ FileToRemove' = FileToRemove \ {t}
        /\ UNCHANGED <<completeTable, sortTable>> /\ Clears
    BY <1>4 DEF DeleteTable, Rebind
  <2>2. \A u \in FileToRemove' : Stored(u)'
    BY <1>0, <2>1 DEF CompactionInv, Stored, TypeOK
  <2> QED
    BY <2>1, <2>2 DEF CompactionInv
<1>5. ASSUME NEW S \in SUBSET Tables, Compact(S)
      PROVE  CompactionInv'
  BY <1>5 DEF Compact, CompactionInv, maps, Stored, Clears
<1>6. CASE AppendTable
  <2>1. PICK a \in Addrs : mappingTable' = [mappingTable EXCEPT ![writing] = a]
    <3>1. which_zone \in Streams /\ open_zone[which_zone] \in Zones /\ open_zone[which_zone] \in Opened
      BY <1>0 DEF TypeOK, Opened
    <3>2. PICK p : p = write_ptr[open_zone[which_zone]]
      OBVIOUS
    <3>3. p \in Slots
      BY <1>0, <3>1, <3>2, ZoneFacts, Constants DEF IInv, TypeOK, Slots
    <3>4. mappingTable' = [mappingTable EXCEPT ![writing] = <<open_zone[which_zone], p>>]
      BY <1>6, <3>2 DEF AppendTable, Rebind
    <3> QED
      BY <3>1, <3>3, <3>4 DEF Addrs
  <2>2. writing # NoTable /\ ~Stored(writing) /\ completeTable' = completeTable \cup {writing}
    BY <1>6 DEF AppendTable, IInv, MainThread, RelocationCredits
  <2>3. \A t \in FileToRemove : Stored(t)'
    BY <1>0, <2>1, Constants DEF CompactionInv, Stored, TypeOK
  <2>4. UNCHANGED compaction
    BY <1>6 DEF AppendTable
  <2> QED
    BY <1>0, <2>2, <2>3, <2>4, CompactionFrame DEF CompactionInv
<1>7. CASE RelocateMove
  <2>1. PICK t : mappingTable' = [mappingTable EXCEPT ![t] = <<to_zone, to_slot>>]
    BY <1>7 DEF RelocateMove, Rebind
  <2>2. <<to_zone, to_slot>> # NoAddr
    BY <1>0, <1>7, Constants DEF RelocateMove, TypeOK, Addrs, Slots
  <2>3. \A u \in FileToRemove : Stored(u)'
    BY <1>0, <2>1, <2>2 DEF CompactionInv, Stored, TypeOK
  <2>4. UNCHANGED <<completeTable, compaction>>
    BY <1>7 DEF RelocateMove
  <2> QED
    BY <1>0, <2>3, <2>4, CompactionFrame
<1>8. ASSUME NEW z \in Zones, TryZone(z) \/ EvictForce(z)
      PROVE  CompactionInv'
  <2>1. CASE ResetSkip(z) \/ ResetExit(z)
    BY <1>1, <2>1 DEF ResetSkip, ResetExit, maps
  <2>2. ASSUME NEW force \in BOOLEAN, ResetBegin(z, force)
        PROVE  CompactionInv'
    BY <1>1, <2>2 DEF ResetBegin, Await, maps
  <2> QED
    BY <1>8, <2>1, <2>2 DEF TryZone, EvictForce
<1>9. CASE TryReset \/ EvictTry \/ TryEnd \/ RelocateOpen \/ RelocateExit \/ ResetEnd
  BY <1>1, <1>9 DEF TryReset, EvictTry, BeginTry, TryEnd, RelocateOpen, RelocateExit, ResetEnd, maps
<1>10. CASE RelocateClose
  BY <1>1, <1>10 DEF RelocateClose, maps
<1>11. ASSUME NEW w \in Workers, Worker(w)
       PROVE  CompactionInv'
  BY <1>1, <1>11 DEF Worker, BeginWrite, EndWrite, maps
<1>12. CASE Exited \/ UNCHANGED vars
  BY <1>1, <1>12 DEF Exited, vars, maps
<1> QED
  BY <1>2, <1>3, <1>4, <1>5, <1>6, <1>7, <1>8, <1>9, <1>10, <1>11, <1>12 DEF Next, Client, Reclaim

(* The assertion at the head of deleteTable never fails, whatever writes,  *)
(* evictions and resets happen between the reading of a table and its      *)
(* deletion: compaction has taken the future of every table it clears, and *)
(* a table that is stored is not written again.                            *)
THEOREM DeleteNeverAsserts == Spec => []DeleteAssertion
<1>1. Init => CompactionInv
  BY DEF Init, CompactionInv, Clears
<1>2. CompactionInv => DeleteAssertion
  BY DEF CompactionInv, DeleteAssertion
<1> QED
  BY Invariance, NextCompaction, <1>1, <1>2, PTL DEF Spec

-----------------------------------------------------------------------------
(***************************************************************************)
(* The device: the worker threads write every zone from its first slot     *)
(* upwards, nobody reads, moves or erases what a worker has still to write, *)
(* and so the store implements TableSpace.                                 *)
(***************************************************************************)
(* The zone and the slot of the n-th task of worker w.                     *)
TaskZone(w, n) == tasks[w][n].addr[1]
TaskSlot(w, n) == tasks[w][n].addr[2]

(* What is queued is not on the device, and its slot has been given out.   *)
QueuedIsUnwritten ==
  \A w \in Workers : \A n \in DOMAIN tasks[w] :
    /\ zone_wp[TaskZone(w, n)] <= TaskSlot(w, n)
    /\ TaskSlot(w, n) < Used(TaskZone(w, n))

(* What has been given out and is not on the device is queued.             *)
UnwrittenIsQueued ==
  \A z \in Zones : \A i \in Slots : zone_wp[z] <= i /\ i < Used(z) =>
    \E w \in Workers : \E n \in DOMAIN tasks[w] : tasks[w][n].addr = <<z, i>>

(* A queue holds the slots of a zone in ascending order, and the queue of  *)
(* one worker holds all of them.                                           *)
QueuesInOrder ==
  \A w \in Workers : \A m, n \in DOMAIN tasks[w] :
    m < n /\ TaskZone(w, m) = TaskZone(w, n) => TaskSlot(w, m) < TaskSlot(w, n)

OneWorkerPerZone ==
  \A v, w \in Workers : \A m \in DOMAIN tasks[v] : \A n \in DOMAIN tasks[w] :
    TaskZone(v, m) = TaskZone(w, n) => v = w

(* Which worker that is while the zone is open: its round robin.           *)
StreamWorker(s) == ((s + 1) % OpenZones) + 1

OpenZonesHaveTheirWorker ==
  \A s \in Streams : \A w \in Workers : \A n \in DOMAIN tasks[w] :
    TaskZone(w, n) = open_zone[s] => w = StreamWorker(s)

(* Nothing is queued for an empty zone, nor for the zones the relocation   *)
(* loop writes and erases.                                                 *)
QuietZones ==
  \A z \in Zones :
    /\ zone_wp[z] <= Used(z)
    /\ z \in empty_zone \cup {to_zone, victim} => zone_wp[z] = Used(z)

(* A queued table has a future nobody has taken, and is mapped to the slot *)
(* it will be written to; the tables being relocated have none.            *)
QueuedIsMapped ==
  \A w \in Workers : \A n \in DOMAIN tasks[w] :
    /\ tasks[w][n].table \in completeTable
    /\ mappingTable[tasks[w][n].table] = tasks[w][n].addr

MovedIsAwaited == \A i \in rewrite : remappingTable[<<victim, i>>] \notin completeTable

(* The inductive invariant of the device's view, on top of IInv.           *)
OrderInv ==
  /\ QueuedIsUnwritten
  /\ UnwrittenIsQueued
  /\ QueuesInOrder
  /\ OneWorkerPerZone
  /\ OpenZonesHaveTheirWorker
  /\ QuietZones
  /\ QueuedIsMapped
  /\ MovedIsAwaited
  /\ CompactionInv
  /\ NoZnsError

-----------------------------------------------------------------------------
(* Integers the proofs compare.                                            *)
LEMMA Numbers ==
  ASSUME TypeOK
  PROVE  /\ Slots \subseteq Int
         /\ \A z \in Zones : /\ zone_wp[z] \in Nat
                             /\ write_ptr[z] \in 0 .. TablesPerZone
                             /\ Used(z) \in 0 .. TablesPerZone
<1>1. /\ \A z \in Zones : zone_wp[z] \in Nat /\ write_ptr[z] \in 0 .. TablesPerZone
      /\ to_slot \in 0 .. TablesPerZone
  BY DEF TypeOK
<1> QED
  BY <1>1, Constants DEF Slots, Used

(* A queue is a sequence of tasks, each a table and an address.            *)
LEMMA QueueTypes ==
  ASSUME TypeOK, NEW w \in Workers
  PROVE  /\ tasks[w] \in Seq(Tasks)
         /\ DOMAIN tasks[w] = 1 .. Len(tasks[w])
         /\ Len(tasks[w]) \in Nat
         /\ \A n \in DOMAIN tasks[w] :
              /\ tasks[w][n].table \in Tables
              /\ TaskZone(w, n) \in Zones
              /\ TaskSlot(w, n) \in Slots
              /\ tasks[w][n].addr = <<TaskZone(w, n), TaskSlot(w, n)>>
<1>1. tasks[w] \in Seq(Tasks)
  BY DEF TypeOK
<1>2. DOMAIN tasks[w] = 1 .. Len(tasks[w]) /\ Len(tasks[w]) \in Nat
  BY <1>1
<1>3. ASSUME NEW n \in DOMAIN tasks[w]
      PROVE  /\ tasks[w][n].table \in Tables
             /\ TaskZone(w, n) \in Zones
             /\ TaskSlot(w, n) \in Slots
             /\ tasks[w][n].addr = <<TaskZone(w, n), TaskSlot(w, n)>>
  <2>1. tasks[w][n] \in Tasks
    BY <1>1, <1>2
  <2>2. tasks[w][n].table \in Tables /\ tasks[w][n].addr \in Zones \X Slots
    BY <2>1 DEF Tasks, Addrs
  <2> QED
    BY <2>2 DEF TaskZone, TaskSlot
<1> QED
  BY <1>1, <1>2, <1>3

(* A future is ready when no queue holds a task of its table.              *)
LEMMA ReadyMeansUnqueued ==
  ASSUME TypeOK, NEW t, Ready(t), NEW w \in Workers, NEW n \in DOMAIN tasks[w]
  PROVE  tasks[w][n].table # t
<1>1. tasks[w][n] \in Pending
  BY DEF Pending
<1> QED
  BY <1>1 DEF Ready

(* The store starts with nothing queued.                                   *)
LEMMA InitOrder == Init => OrderInv
<1> SUFFICES ASSUME Init PROVE OrderInv
  OBVIOUS
<1> USE DEF Init
<1>1. \A w \in Workers : DOMAIN tasks[w] = {}
  BY DEF Workers
<1>2. \A z \in Zones : Used(z) = 0 /\ zone_wp[z] = 0
  BY Constants DEF Used
<1>3. \A i \in Slots : i >= 0 /\ i \in Int
  BY Constants DEF Slots
<1>4. /\ QueuedIsUnwritten /\ QueuesInOrder /\ OneWorkerPerZone
      /\ OpenZonesHaveTheirWorker /\ QueuedIsMapped
  BY <1>1 DEF QueuedIsUnwritten, QueuesInOrder, OneWorkerPerZone,
              OpenZonesHaveTheirWorker, QueuedIsMapped
<1>5. UnwrittenIsQueued /\ QuietZones
  BY <1>2, <1>3 DEF UnwrittenIsQueued, QuietZones
<1>6. MovedIsAwaited /\ CompactionInv /\ NoZnsError
  BY DEF MovedIsAwaited, CompactionInv, Clears, NoZnsError
<1> QED
  BY <1>4, <1>5, <1>6 DEF OrderInv

-----------------------------------------------------------------------------
(* What the steps that neither give out a slot nor write one leave alone.  *)
LEMMA OrderFrame ==
  ASSUME TypeOK, OrderInv, UNCHANGED <<tasks, zone_wp, zns_err, open_zone>>,
         \A z \in Zones : Used(z)' = Used(z)
  PROVE  /\ QueuedIsUnwritten' /\ UnwrittenIsQueued' /\ QueuesInOrder'
         /\ OneWorkerPerZone' /\ OpenZonesHaveTheirWorker' /\ NoZnsError'
         /\ empty_zone' \cup {to_zone', victim'} \subseteq empty_zone \cup {to_zone, victim, NoZone}
              => QuietZones'
<1> USE DEF OrderInv, TaskZone, TaskSlot
<1>1. QueuedIsUnwritten'
  BY QueueTypes DEF QueuedIsUnwritten
<1>2. UnwrittenIsQueued'
  BY DEF UnwrittenIsQueued
<1>3. QueuesInOrder' /\ OneWorkerPerZone'
  BY DEF QueuesInOrder, OneWorkerPerZone
<1>4. OpenZonesHaveTheirWorker'
  BY DEF OpenZonesHaveTheirWorker, StreamWorker
<1>5. NoZnsError'
  BY DEF NoZnsError
<1>6. empty_zone' \cup {to_zone', victim'} \subseteq empty_zone \cup {to_zone, victim, NoZone}
        => QuietZones'
  BY Constants DEF QuietZones
<1> QED
  BY <1>1, <1>2, <1>3, <1>4, <1>5, <1>6

(* A step that neither queues, moves, awaits nor reclaims anything.        *)
LEMMA QuietStep ==
  ASSUME TypeOK, OrderInv, CompactionInv',
         UNCHANGED <<tasks, device, metas, maps, completeTable, open_zone, empty_zone,
                     victim, rewrite, to_zone, to_slot>>
  PROVE  OrderInv'
<1> USE DEF device, metas, maps
<1>1. \A z \in Zones : Used(z)' = Used(z)
  BY DEF Used
<1>2. QueuedIsMapped' /\ MovedIsAwaited'
  BY DEF OrderInv, QueuedIsMapped, MovedIsAwaited
<1> QED
  BY <1>1, <1>2, OrderFrame DEF OrderInv

(* readTable and getValue take the future of a table that is written.      *)
LEMMA ReadOrder ==
  ASSUME IInv, OrderInv, CompactionInv', NEW t \in Tables, ReadTable(t) \/ GetValue(t)
  PROVE  OrderInv'
<1> USE DEF device, metas, maps, pools, threads, locals
<1>1. /\ UNCHANGED <<metas, maps, pools, threads, device, locals>>
      /\ completeTable' = completeTable \ {t}
      /\ t \in completeTable => Ready(t)
      /\ pc = "idle"
  BY DEF ReadTable, GetValue, Await
<1>2. \A z \in Zones : Used(z)' = Used(z)
  BY <1>1 DEF Used
<1>3. QueuedIsMapped'
  BY <1>1, ReadyMeansUnqueued DEF OrderInv, QueuedIsMapped, IInv
<1>4. MovedIsAwaited'
  BY <1>1 DEF IInv, MainThread, RelocationCredits, MovedIsAwaited
<1> QED
  BY <1>1, <1>2, <1>3, <1>4, OrderFrame DEF OrderInv, IInv

(* deleteTable unmaps a table that is written: its future has been taken.  *)
LEMMA DeleteOrder ==
  ASSUME IInv, OrderInv, CompactionInv', NEW t \in Tables, DeleteTable(t)
  PROVE  OrderInv'
<1> USE DEF threads, device, locals
<1>1. /\ UNCHANGED <<tasks, zone_wp, zns_err, write_ptr, completeTable, open_zone, empty_zone,
                     victim, rewrite, to_zone, to_slot>>
      /\ mappingTable' = [mappingTable EXCEPT ![t] = NoAddr]
      /\ Clears /\ t \in FileToRemove
      /\ pc = "idle"
  BY DEF DeleteTable, Rebind
<1>2. \A z \in Zones : Used(z)' = Used(z)
  BY <1>1 DEF Used
<1>3. QueuedIsMapped'
  <2>1. t \notin completeTable
    BY <1>1 DEF OrderInv, CompactionInv
  <2> QED
    BY <1>1, <2>1, QueueTypes DEF OrderInv, QueuedIsMapped, IInv, TypeOK
<1>4. MovedIsAwaited'
  BY <1>1 DEF IInv, MainThread, RelocationCredits, MovedIsAwaited
<1> QED
  BY <1>1, <1>2, <1>3, <1>4, OrderFrame DEF OrderInv, IInv

-----------------------------------------------------------------------------
(* The relocation loop takes a zone out of the pool, where nothing is      *)
(* queued for it, and puts one back in which it has written every slot.    *)
LEMMA TargetOrder ==
  ASSUME IInv, OrderInv, CompactionInv', RelocateOpen \/ RelocateClose
  PROVE  OrderInv'
<1> USE DEF maps, threads, device
<1>1. /\ UNCHANGED <<tasks, zone_wp, zns_err, mappingTable, remappingTable, completeTable,
                     open_zone, victim, rewrite>>
      /\ empty_zone' \cup {to_zone', victim'} \subseteq empty_zone \cup {to_zone, victim, NoZone}
  BY DEF RelocateOpen, RelocateClose
<1>2. \A z \in Zones : Used(z)' = Used(z)
  <2>1. CASE RelocateOpen
    BY <2>1, Constants DEF RelocateOpen, metas, Used, IInv, TypeOK
  <2>2. CASE RelocateClose
    BY <2>2, CloseEnd, Constants DEF Used, IInv, TypeOK
  <2> QED
    BY <2>1, <2>2
<1>3. QueuedIsMapped' /\ MovedIsAwaited'
  BY <1>1 DEF OrderInv, QueuedIsMapped, MovedIsAwaited
<1> QED
  BY <1>1, <1>2, <1>3, OrderFrame DEF OrderInv, IInv

(* resetZone awaits every table the map says is in the zone; no other can  *)
(* be queued for it, so the device has written the zone to its end.        *)
LEMMA ResetBeginOrder ==
  ASSUME IInv, OrderInv, IInv', CompactionInv', NEW z \in Zones, NEW force, ResetBegin(z, force),
         pc \in {"try", "write"}
  PROVE  OrderInv'
<1> USE DEF metas, maps, pools, threads, device
<1>1. /\ UNCHANGED <<tasks, zone_wp, zns_err, write_ptr, mappingTable, remappingTable,
                     open_zone, empty_zone, to_zone, to_slot>>
      /\ victim' = z /\ rewrite' = LiveSlots(z)
      /\ victim = NoZone /\ to_zone = NoZone
  BY DEF ResetBegin, IInv, MainThread, RelocationCredits
<1> DEFINE S == {remappingTable[<<z, i>>] : i \in rewrite'}
<1>2. (\A t \in S \cap completeTable : Ready(t)) /\ completeTable' = completeTable \ S
  BY <1>1, Zenon DEF ResetBegin, Await
<1>3. \A y \in Zones : Used(y)' = Used(y)
  BY <1>1 DEF Used
<1>4. ASSUME NEW w \in Workers, NEW n \in DOMAIN tasks[w]
      PROVE  tasks[w][n].table \in completeTable \ S
  <2>1. tasks[w][n].table \in completeTable
    BY DEF OrderInv, QueuedIsMapped
  <2> QED
    BY <1>2, <2>1, ReadyMeansUnqueued DEF IInv
<1>5. QueuedIsMapped'
  BY <1>1, <1>2, <1>4 DEF OrderInv, QueuedIsMapped
<1>6. MovedIsAwaited'
  BY <1>1, <1>2 DEF MovedIsAwaited
<1>7. zone_wp[z] = Used(z)
  <2>1. z \in full_zone' /\ z # NoZone /\ full_zone' = full_zone /\ Occupied(z)' = rewrite'
    BY <1>1, Constants DEF IInv, RelocationAccounted, ResetBegin
  <2>2. Used(z) = TablesPerZone
    BY <1>1, <2>1, ZoneFacts DEF IInv, Used
  <2>3. zone_wp[z] \in Nat /\ zone_wp[z] <= TablesPerZone
    BY <2>2, Numbers DEF IInv, OrderInv, QuietZones
  <2>4. ASSUME zone_wp[z] < TablesPerZone
        PROVE  FALSE
    <3>1. PICK i \in Slots : i = zone_wp[z]
      BY <2>3, <2>4, Constants DEF Slots
    <3>2. PICK w \in Workers : \E n \in DOMAIN tasks[w] : tasks[w][n].addr = <<z, i>>
      <4>1. zone_wp[z] <= i /\ i < Used(z)
        BY <2>2, <2>3, <2>4, <3>1
      <4> HIDE DEF S
      <4> QED
        BY <4>1 DEF OrderInv, UnwrittenIsQueued
    <3>3. PICK n \in DOMAIN tasks[w] : tasks[w][n].addr = <<z, i>>
      BY <3>2
    <3>4. mappingTable[tasks[w][n].table] = <<z, i>> /\ tasks[w][n].table \in Tables
      BY <3>3, QueueTypes DEF OrderInv, QueuedIsMapped, IInv
    <3>5. remappingTable[<<z, i>>] = tasks[w][n].table
      <4>1. <<z, i>> \in Addrs
        BY DEF Addrs
      <4> QED
        BY <3>4, <4>1, Constants DEF IInv, MapsInverse, Stored
    <3>6. i \in rewrite'
      BY <1>1, <2>1, <3>4, <3>5, Constants DEF Occupied
    <3> QED
      BY <1>4, <3>5, <3>6
  <2> QED
    BY <2>2, <2>3, <2>4, Constants
<1>8. QuietZones'
  BY <1>1, <1>3, <1>7 DEF OrderInv, QuietZones
<1> QED
  BY <1>1, <1>3, <1>5, <1>6, <1>8, OrderFrame DEF OrderInv, IInv

(* The move of a table takes it from a slot of the victim to the slot of   *)
(* the target the device expects.                                          *)
LEMMA MoveFacts ==
  ASSUME IInv, OrderInv, RelocateMove
  PROVE  \E i \in rewrite, t \in Tables :
           /\ victim \in full_zone /\ victim \in Zones /\ i \in Slots
           /\ to_zone \in Zones /\ to_zone # victim
           /\ to_slot \in Slots /\ zone_wp[to_zone] = to_slot
           /\ zone_wp[victim] = TablesPerZone
           /\ t \notin completeTable /\ t = remappingTable[<<victim, i>>]
           /\ mappingTable[t] = <<victim, i>>
           /\ Rebind(t, <<victim, i>>, <<to_zone, to_slot>>)
           /\ zns_err' = (zns_err \/ zone_wp[to_zone] # to_slot)
           /\ zone_wp' = [zone_wp EXCEPT ![to_zone] = @ + 1]
           /\ rewrite' = rewrite \ {i} /\ to_slot' = to_slot + 1
           /\ UNCHANGED <<write_ptr, completeTable, tasks, open_zone, empty_zone, victim, to_zone>>
<1> USE DEF metas, pools, threads
<1> PICK i \in rewrite :
       /\ Rebind(remappingTable[<<victim, i>>], <<victim, i>>, <<to_zone, to_slot>>)
       /\ ZnsWrite(<<to_zone, to_slot>>)
       /\ rewrite' = rewrite \ {i}
       /\ to_slot' = to_slot + 1
  BY DEF RelocateMove
<1>1. /\ pc = "reset" /\ to_zone # NoZone /\ to_slot < TablesPerZone
      /\ UNCHANGED <<write_ptr, completeTable, tasks, open_zone, empty_zone, victim, to_zone>>
  BY DEF RelocateMove
<1>2. /\ victim \in full_zone /\ victim \in Zones /\ i \in Slots /\ i \in Occupied(victim)
      /\ to_zone \in Zones /\ to_zone \notin full_zone /\ to_slot \in 0 .. TablesPerZone
  BY <1>1 DEF IInv, TypeOK, MainThread, RelocationCredits, RelocationAccounted, ZonesAccounted
<1>3. to_slot \in Slots
  BY <1>1, <1>2, Constants DEF Slots
<1>4. zone_wp[to_zone] = to_slot
  BY <1>2 DEF OrderInv, QuietZones, Used
<1>5. zone_wp[victim] = TablesPerZone
  <2>1. victim # to_zone
    BY <1>2
  <2> QED
    BY <1>2, <2>1, ZoneFacts DEF OrderInv, QuietZones, Used, IInv
<1>6. /\ remappingTable[<<victim, i>>] \in Tables
      /\ mappingTable[remappingTable[<<victim, i>>]] = <<victim, i>>
  <2>1. <<victim, i>> \in Addrs /\ remappingTable[<<victim, i>>] # NoTable
    BY <1>2 DEF Addrs, Occupied
  <2> QED
    BY <2>1 DEF IInv, TypeOK, MapsInverse
<1>7. remappingTable[<<victim, i>>] \notin completeTable
  BY DEF OrderInv, MovedIsAwaited
<1>8. /\ zns_err' = (zns_err \/ zone_wp[to_zone] # to_slot)
      /\ zone_wp' = [zone_wp EXCEPT ![to_zone] = @ + 1]
  BY Zenon DEF ZnsWrite
<1>9. victim # to_zone
  BY <1>2
<1> QED
  BY <1>1, <1>2, <1>3, <1>4, <1>5, <1>6, <1>7, <1>8, <1>9

(* So it meets no queued task, and what it writes is in order.             *)
LEMMA MoveOrder ==
  ASSUME IInv, OrderInv, CompactionInv', RelocateMove
  PROVE  OrderInv'
<1> PICK i \in rewrite, t \in Tables :
           /\ victim \in full_zone /\ victim \in Zones /\ i \in Slots
           /\ to_zone \in Zones /\ to_zone # victim
           /\ to_slot \in Slots /\ zone_wp[to_zone] = to_slot
           /\ zone_wp[victim] = TablesPerZone
           /\ t \notin completeTable /\ t = remappingTable[<<victim, i>>]
           /\ mappingTable[t] = <<victim, i>>
           /\ Rebind(t, <<victim, i>>, <<to_zone, to_slot>>)
           /\ zns_err' = (zns_err \/ zone_wp[to_zone] # to_slot)
           /\ zone_wp' = [zone_wp EXCEPT ![to_zone] = @ + 1]
           /\ rewrite' = rewrite \ {i} /\ to_slot' = to_slot + 1
           /\ UNCHANGED <<write_ptr, completeTable, tasks, open_zone, empty_zone, victim, to_zone>>
  BY MoveFacts
<1>1. /\ \A z \in Zones \ {to_zone} : Used(z)' = Used(z) /\ zone_wp'[z] = zone_wp[z]
      /\ Used(to_zone) = to_slot /\ Used(to_zone)' = to_slot + 1
      /\ zone_wp'[to_zone] = to_slot + 1
      /\ to_slot \in Int
  BY Constants DEF Used, IInv, TypeOK, Slots
<1>2. \A w \in Workers : \A n \in DOMAIN tasks[w] :
        /\ TaskZone(w, n) # to_zone
        /\ TaskZone(w, n) \in Zones
        /\ tasks'[w][n] = tasks[w][n]
        /\ TaskZone(w, n)' = TaskZone(w, n) /\ TaskSlot(w, n)' = TaskSlot(w, n)
  <2>1. ASSUME NEW w \in Workers, NEW n \in DOMAIN tasks[w], TaskZone(w, n) = to_zone
        PROVE  FALSE
    <3>1. zone_wp[to_zone] <= TaskSlot(w, n) /\ TaskSlot(w, n) < Used(to_zone)
      BY <2>1 DEF OrderInv, QueuedIsUnwritten
    <3>2. TaskSlot(w, n) \in Int
      BY QueueTypes, Constants DEF IInv, Slots
    <3> QED
      BY <1>1, <3>1, <3>2
  <2> QED
    BY <2>1, QueueTypes DEF IInv, TaskZone, TaskSlot
<1>3. QueuedIsUnwritten'
  BY <1>1, <1>2 DEF OrderInv, QueuedIsUnwritten
<1>4. UnwrittenIsQueued'
  <2> SUFFICES ASSUME NEW z \in Zones, NEW j \in Slots, zone_wp'[z] <= j, j < Used(z)'
               PROVE  \E w \in Workers : \E n \in DOMAIN tasks[w] : tasks[w][n].addr = <<z, j>>
    BY DEF UnwrittenIsQueued
  <2>1. z # to_zone
    BY <1>1, Constants DEF Slots
  <2> QED
    BY <1>1, <2>1 DEF OrderInv, UnwrittenIsQueued
<1>5. QueuesInOrder' /\ OneWorkerPerZone' /\ OpenZonesHaveTheirWorker'
  BY <1>2 DEF OrderInv, QueuesInOrder, OneWorkerPerZone, OpenZonesHaveTheirWorker, StreamWorker
<1>6. QuietZones'
  BY <1>1 DEF OrderInv, QuietZones
<1>7. QueuedIsMapped'
  <2>1. \A u \in Tables \ {t} : mappingTable'[u] = mappingTable[u]
    BY DEF Rebind, IInv, TypeOK
  <2> QED
    BY <2>1, QueueTypes DEF OrderInv, QueuedIsMapped, IInv
<1>8. MovedIsAwaited'
  <2>1. \A j \in Slots : <<victim, j>> \in Addrs /\ <<victim, j>> # <<to_zone, to_slot>>
    BY DEF Addrs
  <2>2. \A j \in Slots : j # i => remappingTable'[<<victim, j>>] = remappingTable[<<victim, j>>]
    BY <2>1 DEF Rebind
  <2> QED
    BY <2>2 DEF OrderInv, MovedIsAwaited, IInv, TypeOK
<1>9. NoZnsError'
  BY DEF OrderInv, NoZnsError
<1> QED
  BY <1>3, <1>4, <1>5, <1>6, <1>7, <1>8, <1>9 DEF OrderInv

(* The reset erases a zone nothing is queued for.                          *)
LEMMA ResetEndOrder ==
  ASSUME IInv, OrderInv, CompactionInv', ResetEnd
  PROVE  OrderInv'
<1> USE DEF maps, threads
<1> PICK v : v = victim
  OBVIOUS
<1>1. /\ UNCHANGED <<tasks, zns_err, mappingTable, remappingTable, completeTable, open_zone,
                     to_zone, to_slot>>
      /\ victim \in Zones /\ victim \in full_zone
      /\ rewrite = {} /\ rewrite' = {} /\ to_zone = NoZone /\ victim' = NoZone
      /\ empty_zone' = empty_zone \cup {victim}
      /\ zone_wp' = [zone_wp EXCEPT ![victim] = IF @ >= TablesPerZone THEN 0 ELSE @]
      /\ write_ptr' = [write_ptr EXCEPT ![victim] = 0]
  BY DEF ResetEnd, IInv, TypeOK, MainThread, RelocationCredits, RelocationAccounted
<1>2. Used(v) = TablesPerZone /\ zone_wp[v] = TablesPerZone
  BY <1>1, ZoneFacts, Constants DEF IInv, Used, OrderInv, QuietZones
<1>3. /\ \A z \in Zones \ {v} : Used(z)' = Used(z) /\ zone_wp'[z] = zone_wp[z]
      /\ Used(v)' = 0 /\ zone_wp'[v] = 0
  <2>1. Used(v)' = 0 /\ zone_wp'[v] = 0
    BY <1>1, <1>2, Constants DEF Used, IInv, TypeOK
  <2>2. \A z \in Zones \ {v} : Used(z)' = Used(z) /\ zone_wp'[z] = zone_wp[z]
    BY <1>1, Constants DEF Used, IInv, TypeOK
  <2> QED
    BY <2>1, <2>2
<1>4. \A w \in Workers : \A n \in DOMAIN tasks[w] :
        /\ TaskZone(w, n) # v
        /\ TaskZone(w, n) \in Zones
        /\ TaskZone(w, n)' = TaskZone(w, n) /\ TaskSlot(w, n)' = TaskSlot(w, n)
  <2>1. ASSUME NEW w \in Workers, NEW n \in DOMAIN tasks[w], TaskZone(w, n) = v
        PROVE  FALSE
    <3>1. zone_wp[v] <= TaskSlot(w, n) /\ TaskSlot(w, n) < Used(v)
      BY <2>1 DEF OrderInv, QueuedIsUnwritten
    <3>2. TaskSlot(w, n) \in Int
      BY QueueTypes, Constants DEF IInv, Slots
    <3> QED
      BY <1>2, <3>1, <3>2, Constants
  <2> QED
    BY <1>1, <2>1, QueueTypes DEF IInv, TaskZone, TaskSlot
<1>5. QueuedIsUnwritten'
  BY <1>1, <1>3, <1>4 DEF OrderInv, QueuedIsUnwritten
<1>6. UnwrittenIsQueued'
  <2> SUFFICES ASSUME NEW z \in Zones, NEW j \in Slots, zone_wp'[z] <= j, j < Used(z)'
               PROVE  \E w \in Workers : \E n \in DOMAIN tasks[w] : tasks[w][n].addr = <<z, j>>
    BY <1>1 DEF UnwrittenIsQueued
  <2>1. z # v
    BY <1>3, Constants DEF Slots
  <2> QED
    BY <1>3, <2>1 DEF OrderInv, UnwrittenIsQueued
<1>7. QueuesInOrder' /\ OneWorkerPerZone' /\ OpenZonesHaveTheirWorker'
  BY <1>1, <1>4 DEF OrderInv, QueuesInOrder, OneWorkerPerZone, OpenZonesHaveTheirWorker, StreamWorker
<1>8. QuietZones'
  BY <1>1, <1>3, Constants DEF OrderInv, QuietZones
<1>9. QueuedIsMapped' /\ MovedIsAwaited' /\ NoZnsError'
  BY <1>1 DEF OrderInv, QueuedIsMapped, MovedIsAwaited, NoZnsError
<1> QED
  BY <1>5, <1>6, <1>7, <1>8, <1>9 DEF OrderInv

-----------------------------------------------------------------------------
(* A worker finishes the write at the head of its queue: that is the next  *)
(* slot of its zone, because the queue is in order and no other has any.   *)
LEMMA HeadIsNext ==
  ASSUME IInv, OrderInv, NEW w \in Workers, tasks[w] # <<>>
  PROVE  /\ 1 \in DOMAIN tasks[w]
         /\ Head(tasks[w]) = tasks[w][1]
         /\ zone_wp[TaskZone(w, 1)] = TaskSlot(w, 1)
<1>1. 1 \in DOMAIN tasks[w] /\ Head(tasks[w]) = tasks[w][1]
  <2>1. tasks[w] \in Seq(Tasks)
    BY QueueTypes DEF IInv
  <2> QED
    BY <2>1
<1> DEFINE z == TaskZone(w, 1)
           i == TaskSlot(w, 1)
<1>2. z \in Zones /\ i \in Slots /\ i \in Int /\ zone_wp[z] \in Nat /\ Used(z) \in 0 .. TablesPerZone
  BY <1>1, QueueTypes, Numbers DEF IInv
<1>3. zone_wp[z] <= i /\ i < Used(z)
  BY <1>1 DEF OrderInv, QueuedIsUnwritten
<1> HIDE DEF z, i
<1>4. ASSUME zone_wp[z] < i
      PROVE  FALSE
  <2>1. PICK j \in Slots : j = zone_wp[z]
    BY <1>2, <1>3, <1>4, Constants DEF Slots
  <2>2. zone_wp[z] <= j /\ j < Used(z)
    BY <1>2, <1>3, <1>4, <2>1, Constants
  <2>3. PICK v \in Workers : \E n \in DOMAIN tasks[v] : tasks[v][n].addr = <<z, j>>
    BY <1>2, <2>2 DEF OrderInv, UnwrittenIsQueued
  <2>4. PICK n \in DOMAIN tasks[v] : tasks[v][n].addr = <<z, j>>
    BY <2>3
  <2>5. TaskZone(v, n) = z /\ TaskSlot(v, n) = j
    BY <2>4 DEF TaskZone, TaskSlot
  <2>6. v = w
    BY <1>1, <2>5 DEF OrderInv, OneWorkerPerZone, z
  <2>7. n \in Nat /\ n >= 1
    BY QueueTypes DEF IInv
  <2>8. CASE n = 1
    BY <1>2, <1>4, <2>1, <2>5, <2>6, <2>8 DEF i
  <2>9. CASE n # 1
    <3>1. 1 < n
      BY <2>7, <2>9
    <3>2. TaskSlot(w, 1) < TaskSlot(w, n)
      BY <1>1, <2>5, <2>6, <3>1 DEF OrderInv, QueuesInOrder, z
    <3> QED
      BY <1>2, <1>4, <2>1, <2>5, <2>6, <3>2 DEF i
  <2> QED
    BY <2>8, <2>9
<1>5. zone_wp[z] = i
  BY <1>2, <1>3, <1>4
<1> QED
  BY <1>1, <1>5 DEF z, i

(* What the end of a write does: the queue moves up, the zone's pointer    *)
(* advances over the slot of the head, and the device reports no error.    *)
LEMMA EndWriteFacts ==
  ASSUME IInv, OrderInv, NEW w \in Workers, EndWrite(w)
  PROVE  /\ 1 \in DOMAIN tasks[w]
         /\ zone_wp[TaskZone(w, 1)] = TaskSlot(w, 1)
         /\ zns_err' = zns_err
         /\ zone_wp' = [zone_wp EXCEPT ![TaskZone(w, 1)] = @ + 1]
         /\ \A v \in Workers \ {w} : tasks'[v] = tasks[v]
         /\ \A n \in DOMAIN tasks'[w] : /\ n \in Nat /\ n >= 1
                                        /\ n + 1 \in DOMAIN tasks[w]
                                        /\ tasks'[w][n] = tasks[w][n + 1]
         /\ \A n \in DOMAIN tasks[w] : n # 1 => /\ n - 1 \in DOMAIN tasks'[w]
                                                /\ tasks'[w][n - 1] = tasks[w][n]
         /\ UNCHANGED <<metas, maps, completeTable, pools, locals>>
<1>1. tasks[w] # <<>>
  BY DEF EndWrite, IInv, MainThread, RelocationCredits
<1>2. /\ 1 \in DOMAIN tasks[w] /\ Head(tasks[w]) = tasks[w][1]
      /\ zone_wp[TaskZone(w, 1)] = TaskSlot(w, 1)
  BY <1>1, HeadIsNext
<1>3. /\ zns_err' = (zns_err \/ zone_wp[TaskZone(w, 1)] # TaskSlot(w, 1))
      /\ zone_wp' = [zone_wp EXCEPT ![TaskZone(w, 1)] = @ + 1]
  BY <1>2, Zenon DEF EndWrite, ZnsWrite, TaskZone, TaskSlot
<1>4. zns_err' = zns_err
  BY <1>2, <1>3 DEF IInv, TypeOK
<1>5. tasks' = [tasks EXCEPT ![w] = Tail(@)]
  BY DEF EndWrite
<1>6. tasks'[w] = Tail(tasks[w]) /\ \A v \in Workers \ {w} : tasks'[v] = tasks[v]
  BY <1>5 DEF IInv, TypeOK
<1>7. /\ DOMAIN Tail(tasks[w]) = 1 .. (Len(tasks[w]) - 1)
      /\ \A n \in 1 .. (Len(tasks[w]) - 1) : Tail(tasks[w])[n] = tasks[w][n + 1]
      /\ DOMAIN tasks[w] = 1 .. Len(tasks[w]) /\ Len(tasks[w]) \in Nat
  <2>1. tasks[w] \in Seq(Tasks)
    BY QueueTypes DEF IInv
  <2> QED
    BY <1>1, <2>1
<1>8. \A n \in DOMAIN tasks'[w] : /\ n \in Nat /\ n >= 1
                                  /\ n + 1 \in DOMAIN tasks[w]
                                  /\ tasks'[w][n] = tasks[w][n + 1]
  BY <1>6, <1>7
<1>9. \A n \in DOMAIN tasks[w] : n # 1 => /\ n - 1 \in DOMAIN tasks'[w]
                                          /\ tasks'[w][n - 1] = tasks[w][n]
  <2> SUFFICES ASSUME NEW n \in DOMAIN tasks[w], n # 1
               PROVE  n - 1 \in DOMAIN tasks'[w] /\ tasks'[w][n - 1] = tasks[w][n]
    OBVIOUS
  <2>1. n \in Nat /\ n - 1 \in 1 .. (Len(tasks[w]) - 1) /\ (n - 1) + 1 = n
    BY <1>7
  <2> QED
    BY <1>6, <1>7, <2>1
<1> QED
  BY <1>2, <1>3, <1>4, <1>6, <1>8, <1>9 DEF EndWrite

(* Every task still queued was queued before, later in the same queue.     *)
LEMMA EndWriteOrder ==
  ASSUME IInv, OrderInv, CompactionInv', NEW w \in Workers, EndWrite(w)
  PROVE  OrderInv'
<1> PICK z, i : z = TaskZone(w, 1) /\ i = TaskSlot(w, 1)
  OBVIOUS
<1>1. /\ 1 \in DOMAIN tasks[w]
      /\ zone_wp[z] = i
      /\ zns_err' = zns_err
      /\ zone_wp' = [zone_wp EXCEPT ![z] = @ + 1]
      /\ \A v \in Workers \ {w} : tasks'[v] = tasks[v]
      /\ \A n \in DOMAIN tasks'[w] : /\ n \in Nat /\ n >= 1
                                     /\ n + 1 \in DOMAIN tasks[w]
                                     /\ tasks'[w][n] = tasks[w][n + 1]
      /\ \A n \in DOMAIN tasks[w] : n # 1 => /\ n - 1 \in DOMAIN tasks'[w]
                                             /\ tasks'[w][n - 1] = tasks[w][n]
      /\ UNCHANGED <<metas, maps, completeTable, pools, locals>>
  BY EndWriteFacts
<1>2. /\ z \in Zones /\ i \in Slots /\ i \in Int
      /\ i < Used(z)
      /\ Used(z) \in Int
  BY <1>1, QueueTypes, Numbers, Constants DEF IInv, OrderInv, QueuedIsUnwritten
<1>3. /\ zone_wp'[z] = i + 1
      /\ \A y \in Zones \ {z} : zone_wp'[y] = zone_wp[y]
      /\ \A y \in Zones : Used(y)' = Used(y)
  BY <1>1, <1>2 DEF IInv, TypeOK, Used, metas, locals
<1>4. ASSUME NEW v \in Workers, NEW n \in DOMAIN tasks'[v]
      PROVE  \E m \in DOMAIN tasks[v] :
               /\ m = (IF v = w THEN n + 1 ELSE n)
               /\ v = w => m > 1
               /\ tasks'[v][n] = tasks[v][m]
               /\ TaskZone(v, n)' = TaskZone(v, m) /\ TaskSlot(v, n)' = TaskSlot(v, m)
  BY <1>1 DEF TaskZone, TaskSlot
<1>5. QueuedIsUnwritten'
  <2> SUFFICES ASSUME NEW v \in Workers, NEW n \in DOMAIN tasks'[v]
               PROVE  (/\ zone_wp[TaskZone(v, n)] <= TaskSlot(v, n)
                       /\ TaskSlot(v, n) < Used(TaskZone(v, n)))'
    BY DEF QueuedIsUnwritten
  <2>1. PICK m \in DOMAIN tasks[v] :
               /\ v = w => m > 1
               /\ TaskZone(v, n)' = TaskZone(v, m) /\ TaskSlot(v, n)' = TaskSlot(v, m)
    BY <1>4
  <2>2. PICK y, j : y = TaskZone(v, m) /\ j = TaskSlot(v, m)
    OBVIOUS
  <2>3. zone_wp[y] <= j /\ j < Used(y) /\ y \in Zones /\ j \in Int /\ m \in Int /\ zone_wp[y] \in Int
    BY <2>2, QueueTypes, Numbers DEF IInv, OrderInv, QueuedIsUnwritten
  <2>4. zone_wp'[y] <= j
    <3>1. CASE y # z
      BY <1>3, <2>3, <3>1
    <3>2. CASE y = z
      <4>1. v = w
        BY <1>1, <2>2, <3>2 DEF OrderInv, OneWorkerPerZone
      <4>2. i < j
        <5>1. 1 < m /\ m \in DOMAIN tasks[w] /\ TaskZone(w, 1) = TaskZone(w, m)
          BY <2>1, <2>2, <2>3, <3>2, <4>1
        <5>2. TaskSlot(w, 1) < TaskSlot(w, m)
          BY <1>1, <5>1 DEF OrderInv, QueuesInOrder
        <5> QED
          BY <2>2, <4>1, <5>2
      <4> QED
        BY <1>2, <1>3, <2>3, <3>2, <4>2
    <3> QED
      BY <3>1, <3>2
  <2>5. j < Used(y)'
    BY <1>3, <2>3
  <2> QED
    BY <2>1, <2>2, <2>4, <2>5 DEF Used
<1>6. UnwrittenIsQueued'
  <2> SUFFICES ASSUME NEW y \in Zones, NEW j \in Slots, zone_wp'[y] <= j, j < Used(y)'
               PROVE  \E v \in Workers : \E n \in DOMAIN tasks'[v] : tasks'[v][n].addr = <<y, j>>
    BY DEF UnwrittenIsQueued
  <2>1. zone_wp[y] <= j /\ j < Used(y) /\ ~(y = z /\ j = i)
    BY <1>1, <1>2, <1>3, Numbers DEF IInv
  <2>2. PICK v \in Workers : \E m \in DOMAIN tasks[v] : tasks[v][m].addr = <<y, j>>
    BY <2>1 DEF OrderInv, UnwrittenIsQueued
  <2>3. PICK m \in DOMAIN tasks[v] : tasks[v][m].addr = <<y, j>>
    BY <2>2
  <2>4. CASE v # w
    BY <1>1, <2>3, <2>4
  <2>5. CASE v = w
    <3>1. m # 1
      BY <2>1, <2>3, <2>5 DEF TaskZone, TaskSlot
    <3> QED
      BY <1>1, <2>3, <2>5, <3>1
  <2> QED
    BY <2>4, <2>5
<1>7. QueuesInOrder'
  <2> SUFFICES ASSUME NEW v \in Workers, NEW m \in DOMAIN tasks'[v], NEW n \in DOMAIN tasks'[v],
                      m < n, TaskZone(v, m)' = TaskZone(v, n)'
               PROVE  TaskSlot(v, m)' < TaskSlot(v, n)'
    BY DEF QueuesInOrder
  <2>1. PICK k \in DOMAIN tasks[v] :
               /\ k = (IF v = w THEN m + 1 ELSE m)
               /\ TaskZone(v, m)' = TaskZone(v, k) /\ TaskSlot(v, m)' = TaskSlot(v, k)
    BY <1>4
  <2>2. PICK l \in DOMAIN tasks[v] :
               /\ l = (IF v = w THEN n + 1 ELSE n)
               /\ TaskZone(v, n)' = TaskZone(v, l) /\ TaskSlot(v, n)' = TaskSlot(v, l)
    BY <1>4
  <2>3. k < l
    <3>1. v = w => m \in Nat /\ n \in Nat
      BY <1>1
    <3> QED
      BY <2>1, <2>2, <3>1
  <2> QED
    BY <2>1, <2>2, <2>3 DEF OrderInv, QueuesInOrder
<1>8. OneWorkerPerZone'
  <2> SUFFICES ASSUME NEW u \in Workers, NEW v \in Workers, NEW m \in DOMAIN tasks'[u],
                      NEW n \in DOMAIN tasks'[v], TaskZone(u, m)' = TaskZone(v, n)'
               PROVE  u = v
    BY DEF OneWorkerPerZone
  <2>1. PICK k \in DOMAIN tasks[u] : TaskZone(u, m)' = TaskZone(u, k)
    BY <1>4
  <2>2. PICK l \in DOMAIN tasks[v] : TaskZone(v, n)' = TaskZone(v, l)
    BY <1>4
  <2> QED
    BY <2>1, <2>2 DEF OrderInv, OneWorkerPerZone
<1>9. OpenZonesHaveTheirWorker'
  <2> SUFFICES ASSUME NEW s \in Streams, NEW v \in Workers, NEW n \in DOMAIN tasks'[v],
                      TaskZone(v, n)' = open_zone'[s]
               PROVE  v = StreamWorker(s)
    BY DEF OpenZonesHaveTheirWorker, StreamWorker
  <2>1. PICK m \in DOMAIN tasks[v] : TaskZone(v, n)' = TaskZone(v, m)
    BY <1>4
  <2>2. open_zone' = open_zone
    BY <1>1 DEF pools
  <2> QED
    BY <2>1, <2>2 DEF OrderInv, OpenZonesHaveTheirWorker
<1>10. QuietZones'
  <2>1. UNCHANGED <<empty_zone, to_zone, victim>>
    BY <1>1 DEF pools, locals
  <2>2. z \notin empty_zone \cup {to_zone, victim}
    BY <1>1, <1>2 DEF OrderInv, QuietZones
  <2> QED
    BY <1>2, <1>3, <2>1, <2>2 DEF OrderInv, QuietZones
<1>11. QueuedIsMapped'
  <2> SUFFICES ASSUME NEW v \in Workers, NEW n \in DOMAIN tasks'[v]
               PROVE  /\ tasks'[v][n].table \in completeTable'
                      /\ mappingTable'[tasks'[v][n].table] = tasks'[v][n].addr
    BY DEF QueuedIsMapped
  <2>1. PICK m \in DOMAIN tasks[v] : tasks'[v][n] = tasks[v][m]
    BY <1>4
  <2> QED
    BY <1>1, <2>1 DEF OrderInv, QueuedIsMapped, maps
<1>12. MovedIsAwaited' /\ NoZnsError'
  BY <1>1 DEF OrderInv, MovedIsAwaited, NoZnsError, maps, locals
<1> QED
  BY <1>5, <1>6, <1>7, <1>8, <1>9, <1>10, <1>11, <1>12 DEF OrderInv

-----------------------------------------------------------------------------
(* writeTable queues the new table behind the others of its zone.          *)
LEMMA AppendFacts ==
  ASSUME IInv, AppendTable
  PROVE  \E z \in Zones, p \in Slots, t \in Tables, w \in Workers :
           /\ z = open_zone[which_zone] /\ which_zone \in Streams
           /\ w = StreamWorker(which_zone)
           /\ p = write_ptr[z] /\ p = Used(z) /\ p \in Int
           /\ t = writing /\ mappingTable[t] = NoAddr
           /\ z \notin empty_zone
           /\ victim = NoZone /\ to_zone = NoZone /\ rewrite = {}
           /\ mappingTable' = [mappingTable EXCEPT ![t] = <<z, p>>]
           /\ completeTable' = completeTable \cup {t}
           /\ tasks' = [tasks EXCEPT ![w] = Append(@, [table |-> t, addr |-> <<z, p>>])]
           /\ empty_zone' \subseteq empty_zone
           /\ \A s \in Streams : \/ open_zone'[s] = open_zone[s] /\ (s = which_zone \/ open_zone[s] # z)
                                 \/ open_zone'[s] \in empty_zone
           /\ \A y \in Zones : Used(y)' = IF y = z THEN p + 1 ELSE Used(y)
           /\ UNCHANGED <<zone_wp, zns_err, victim, rewrite, to_zone, to_slot>>
<1> PICK z, p, t : z = open_zone[which_zone] /\ p = write_ptr[z] /\ t = writing
  OBVIOUS
<1>1. /\ victim = NoZone /\ to_zone = NoZone /\ rewrite = {}
      /\ t \in Tables /\ mappingTable[t] = NoAddr
      /\ which_zone \in Streams
  BY DEF AppendTable, IInv, MainThread, RelocationCredits, Stored, TypeOK
<1>2. z \in Zones /\ z \in Opened /\ z \notin empty_zone
  <2>1. z \in Opened
    BY <1>1 DEF Opened
  <2> QED
    BY <1>1, <2>1 DEF IInv, TypeOK, ZonesAccounted
<1>3. p \in Slots /\ p \in Int /\ p = Used(z)
  <2>1. p # TablesPerZone /\ p \in 0 .. TablesPerZone
    BY <1>2, ZoneFacts DEF IInv, TypeOK
  <2>2. p \in Slots
    BY <2>1, Constants DEF Slots
  <2> QED
    BY <1>1, <1>2, <2>2, Constants DEF Used, Slots
<1>4. StreamWorker(which_zone) \in Workers /\ NextWorker = StreamWorker(which_zone)
  BY StreamType DEF StreamWorker, NextWorker, NextStream, IInv
<1>5. /\ write_ptr' = [write_ptr EXCEPT ![z] = @ + 1]
      /\ completeTable' = completeTable \cup {t}
      /\ tasks' = [tasks EXCEPT ![StreamWorker(which_zone)]
                     = Append(@, [table |-> t, addr |-> <<z, p>>])]
      /\ AdvanceOpenZone(z)
      /\ mappingTable' = [mappingTable EXCEPT ![t] = <<z, p>>]
      /\ UNCHANGED <<zone_wp, zns_err, victim, rewrite, to_zone, to_slot>>
  BY <1>4 DEF AppendTable, Rebind, device
<1>6. \A y \in Zones : Used(y)' = IF y = z THEN p + 1 ELSE Used(y)
  BY <1>1, <1>2, <1>5, Constants DEF Used, IInv, TypeOK
<1>7. /\ empty_zone' \subseteq empty_zone
      /\ \A s \in Streams : \/ open_zone'[s] = open_zone[s] /\ (s = which_zone \/ open_zone[s] # z)
                            \/ open_zone'[s] \in empty_zone
  BY <1>1, <1>5 DEF AdvanceOpenZone, IInv, TypeOK, ZonesAccounted
<1> QED
  BY <1>1, <1>2, <1>3, <1>4, <1>5, <1>6, <1>7

LEMMA AppendOrder ==
  ASSUME IInv, OrderInv, CompactionInv', AppendTable
  PROVE  OrderInv'
<1> PICK z \in Zones, p \in Slots, t \in Tables, w \in Workers :
           /\ z = open_zone[which_zone] /\ which_zone \in Streams
           /\ w = StreamWorker(which_zone)
           /\ p = write_ptr[z] /\ p = Used(z) /\ p \in Int
           /\ t = writing /\ mappingTable[t] = NoAddr
           /\ z \notin empty_zone
           /\ victim = NoZone /\ to_zone = NoZone /\ rewrite = {}
           /\ mappingTable' = [mappingTable EXCEPT ![t] = <<z, p>>]
           /\ completeTable' = completeTable \cup {t}
           /\ tasks' = [tasks EXCEPT ![w] = Append(@, [table |-> t, addr |-> <<z, p>>])]
           /\ empty_zone' \subseteq empty_zone
           /\ \A s \in Streams : \/ open_zone'[s] = open_zone[s] /\ (s = which_zone \/ open_zone[s] # z)
                                 \/ open_zone'[s] \in empty_zone
           /\ \A y \in Zones : Used(y)' = IF y = z THEN p + 1 ELSE Used(y)
           /\ UNCHANGED <<zone_wp, zns_err, victim, rewrite, to_zone, to_slot>>
  BY AppendFacts
<1> PICK l : l = Len(tasks[w]) + 1
  OBVIOUS
(* The new task is the last of queue w; the others are where they were.    *)
<1>1. /\ l \in Nat /\ l \notin DOMAIN tasks[w] /\ \A n \in DOMAIN tasks[w] : n \in Nat /\ n < l
      /\ DOMAIN tasks'[w] = DOMAIN tasks[w] \cup {l}
      /\ tasks'[w][l] = [table |-> t, addr |-> <<z, p>>]
      /\ \A n \in DOMAIN tasks[w] : tasks'[w][n] = tasks[w][n]
      /\ \A v \in Workers \ {w} : tasks'[v] = tasks[v]
  <2>1. tasks'[w] = Append(tasks[w], [table |-> t, addr |-> <<z, p>>])
    BY DEF IInv, TypeOK
  <2>2. tasks[w] \in Seq(Tasks) /\ DOMAIN tasks[w] = 1 .. Len(tasks[w]) /\ Len(tasks[w]) \in Nat
    BY QueueTypes DEF IInv
  <2>3. [table |-> t, addr |-> <<z, p>>] \in Tasks
    BY DEF Tasks, Addrs
  <2>4. /\ DOMAIN tasks'[w] = 1 .. l
        /\ tasks'[w][l] = [table |-> t, addr |-> <<z, p>>]
        /\ \A n \in 1 .. Len(tasks[w]) : tasks'[w][n] = tasks[w][n]
    BY <2>1, <2>2, <2>3
  <2>5. \A v \in Workers \ {w} : tasks'[v] = tasks[v]
    BY DEF IInv, TypeOK
  <2>6. 1 .. l = (1 .. Len(tasks[w])) \cup {l}
    BY <2>2
  <2> QED
    BY <2>2, <2>4, <2>5, <2>6
<1>2. ASSUME NEW v \in Workers, NEW n \in DOMAIN tasks'[v]
      PROVE  \/ /\ v = w /\ n = l /\ tasks'[v][n] = [table |-> t, addr |-> <<z, p>>]
                /\ TaskZone(v, n)' = z /\ TaskSlot(v, n)' = p
             \/ /\ n \in DOMAIN tasks[v] /\ tasks'[v][n] = tasks[v][n]
                /\ TaskZone(v, n)' = TaskZone(v, n) /\ TaskSlot(v, n)' = TaskSlot(v, n)
                /\ TaskZone(v, n) = z => v = w /\ TaskSlot(v, n) < p
  <2>1. CASE v = w /\ n = l
    BY <1>1, <2>1 DEF TaskZone, TaskSlot
  <2>2. CASE ~(v = w /\ n = l)
    <3>1. n \in DOMAIN tasks[v] /\ tasks'[v][n] = tasks[v][n]
      BY <1>1, <2>2
    <3>2. TaskZone(v, n) = z => v = w /\ TaskSlot(v, n) < p
      BY <3>1 DEF OrderInv, OpenZonesHaveTheirWorker, QueuedIsUnwritten
    <3> QED
      BY <3>1, <3>2 DEF TaskZone, TaskSlot
  <2> QED
    BY <2>1, <2>2
<1>3. \A y \in Zones : Used(y) \in Int /\ zone_wp[y] \in Int
  BY Numbers DEF IInv
<1>4. QueuedIsUnwritten'
  <2> SUFFICES ASSUME NEW v \in Workers, NEW n \in DOMAIN tasks'[v]
               PROVE  (/\ zone_wp[TaskZone(v, n)] <= TaskSlot(v, n)
                       /\ TaskSlot(v, n) < Used(TaskZone(v, n)))'
    BY DEF QueuedIsUnwritten
  <2>1. PICK y, j : y = TaskZone(v, n)' /\ j = TaskSlot(v, n)'
    OBVIOUS
  <2>2. y \in Zones /\ j \in Int /\ zone_wp[y] <= j /\ j < Used(y)'
    <3>1. CASE y = z /\ j = p
      BY <1>3, <3>1 DEF OrderInv, QuietZones
    <3>2. CASE n \in DOMAIN tasks[v] /\ y = TaskZone(v, n) /\ j = TaskSlot(v, n)
      <4>1. zone_wp[y] <= j /\ j < Used(y) /\ y \in Zones /\ j \in Int
        BY <3>2, QueueTypes, Numbers DEF IInv, OrderInv, QueuedIsUnwritten
      <4> QED
        BY <1>3, <4>1
    <3> QED
      BY <1>2, <2>1, <3>1, <3>2
  <2> QED
    BY <2>1, <2>2 DEF Used
<1>5. UnwrittenIsQueued'
  <2> SUFFICES ASSUME NEW y \in Zones, NEW j \in Slots, zone_wp[y] <= j, j < Used(y)'
               PROVE  \E v \in Workers : \E n \in DOMAIN tasks'[v] : tasks'[v][n].addr = <<y, j>>
    BY DEF UnwrittenIsQueued
  <2>1. CASE y = z /\ j = p
    <3>1. l \in DOMAIN tasks'[w] /\ tasks'[w][l].addr = <<y, j>>
      BY <1>1, <2>1
    <3> QED
      BY <3>1
  <2>2. CASE ~(y = z /\ j = p)
    <3>1. j < Used(y)
      BY <1>3, <2>2, Constants DEF Slots
    <3>2. PICK v \in Workers : \E n \in DOMAIN tasks[v] : tasks[v][n].addr = <<y, j>>
      BY <3>1 DEF OrderInv, UnwrittenIsQueued
    <3>3. PICK n \in DOMAIN tasks[v] : tasks[v][n].addr = <<y, j>>
      BY <3>2
    <3>4. n \in DOMAIN tasks'[v] /\ tasks'[v][n] = tasks[v][n]
      BY <1>1
    <3> QED
      BY <3>3, <3>4
  <2> QED
    BY <2>1, <2>2
<1>6. QueuesInOrder'
  <2> SUFFICES ASSUME NEW v \in Workers, NEW m \in DOMAIN tasks'[v], NEW n \in DOMAIN tasks'[v],
                      m < n, TaskZone(v, m)' = TaskZone(v, n)'
               PROVE  TaskSlot(v, m)' < TaskSlot(v, n)'
    BY DEF QueuesInOrder
  <2>1. ~(v = w /\ m = l)
    BY <1>1
  <2>2. /\ m \in DOMAIN tasks[v]
        /\ TaskZone(v, m)' = TaskZone(v, m) /\ TaskSlot(v, m)' = TaskSlot(v, m)
        /\ TaskZone(v, m) = z => TaskSlot(v, m) < p
    BY <1>2, <2>1
  <2>3. CASE v = w /\ n = l
    BY <1>1, <1>2, <2>2, <2>3
  <2>4. CASE ~(v = w /\ n = l)
    <3>1. /\ n \in DOMAIN tasks[v]
          /\ TaskZone(v, n)' = TaskZone(v, n) /\ TaskSlot(v, n)' = TaskSlot(v, n)
      BY <1>2, <2>4
    <3> QED
      BY <2>2, <3>1 DEF OrderInv, QueuesInOrder
  <2> QED
    BY <2>3, <2>4
<1>7. OneWorkerPerZone'
  <2> SUFFICES ASSUME NEW u \in Workers, NEW v \in Workers, NEW m \in DOMAIN tasks'[u],
                      NEW n \in DOMAIN tasks'[v], TaskZone(u, m)' = TaskZone(v, n)'
               PROVE  u = v
    BY DEF OneWorkerPerZone
  <2>1. CASE TaskZone(u, m)' = z
    <3>1. u = w
      BY <1>2, <2>1
    <3>2. TaskZone(v, n)' = z
      BY <2>1
    <3>3. v = w
      BY <1>2, <3>2
    <3> QED
      BY <3>1, <3>3
  <2>2. CASE TaskZone(u, m)' # z
    BY <1>2, <2>2 DEF OrderInv, OneWorkerPerZone
  <2> QED
    BY <2>1, <2>2
<1>8. OpenZonesHaveTheirWorker'
  <2> SUFFICES ASSUME NEW s \in Streams, NEW v \in Workers, NEW n \in DOMAIN tasks'[v],
                      TaskZone(v, n)' = open_zone'[s]
               PROVE  v = StreamWorker(s)
    BY DEF OpenZonesHaveTheirWorker, StreamWorker
  <2>1. CASE open_zone'[s] \in empty_zone
    <3>1. PICK y \in Zones : y = open_zone'[s] /\ y \in empty_zone /\ y # z
      BY <2>1 DEF IInv, TypeOK
    <3>2. zone_wp[y] = Used(y)
      BY <3>1 DEF OrderInv, QuietZones
    <3>3. n \in DOMAIN tasks[v] /\ TaskZone(v, n) = y /\ TaskSlot(v, n) \in Int
      BY <1>2, <3>1, QueueTypes, Numbers DEF IInv
    <3>4. zone_wp[y] <= TaskSlot(v, n) /\ TaskSlot(v, n) < Used(y)
      BY <3>3 DEF OrderInv, QueuedIsUnwritten
    <3> QED
      BY <1>3, <3>2, <3>3, <3>4
  <2>2. CASE open_zone'[s] = open_zone[s] /\ (s = which_zone \/ open_zone[s] # z)
    <3>1. CASE open_zone[s] = z
      BY <1>2, <2>2, <3>1
    <3>2. CASE open_zone[s] # z
      BY <1>2, <2>2, <3>2 DEF OrderInv, OpenZonesHaveTheirWorker
    <3> QED
      BY <3>1, <3>2
  <2> QED
    BY <2>1, <2>2
<1>9. QuietZones'
  BY <1>3, Constants DEF OrderInv, QuietZones
<1>10. QueuedIsMapped'
  <2> SUFFICES ASSUME NEW v \in Workers, NEW n \in DOMAIN tasks'[v]
               PROVE  /\ tasks'[v][n].table \in completeTable'
                      /\ mappingTable'[tasks'[v][n].table] = tasks'[v][n].addr
    BY DEF QueuedIsMapped
  <2>1. CASE tasks'[v][n] = [table |-> t, addr |-> <<z, p>>]
    <3>1. tasks'[v][n].table = t /\ tasks'[v][n].addr = <<z, p>>
      BY <2>1
    <3>2. mappingTable'[t] = <<z, p>> /\ t \in completeTable'
      BY DEF IInv, TypeOK
    <3> QED
      BY <3>1, <3>2
  <2>2. CASE n \in DOMAIN tasks[v] /\ tasks'[v][n] = tasks[v][n]
    <3>1. /\ tasks[v][n].table \in completeTable /\ tasks[v][n].table \in Tables
          /\ mappingTable[tasks[v][n].table] = tasks[v][n].addr
      BY <2>2, QueueTypes DEF IInv, OrderInv, QueuedIsMapped
    <3>2. tasks[v][n].addr \in Addrs
      <4>1. /\ tasks[v][n].addr = <<TaskZone(v, n), TaskSlot(v, n)>>
            /\ TaskZone(v, n) \in Zones /\ TaskSlot(v, n) \in Slots
        BY <2>2, QueueTypes DEF IInv
      <4> QED
        BY <4>1 DEF Addrs
    <3>3. tasks[v][n].table # t
      BY <3>1, <3>2, Constants
    <3> QED
      BY <2>2, <3>1, <3>3 DEF IInv, TypeOK
  <2> QED
    BY <1>2, <2>1, <2>2
<1>11. MovedIsAwaited' /\ NoZnsError'
  BY DEF OrderInv, MovedIsAwaited, NoZnsError
<1> QED
  BY <1>4, <1>5, <1>6, <1>7, <1>8, <1>9, <1>10, <1>11 DEF OrderInv

-----------------------------------------------------------------------------
(* Every step keeps the device's view in order.                            *)
LEMMA NextOrder == IInv /\ OrderInv /\ [Next]_vars => OrderInv'
<1> SUFFICES ASSUME IInv, OrderInv, [Next]_vars PROVE OrderInv'
  OBVIOUS
<1>1. IInv' /\ CompactionInv'
  BY NextIInv, NextCompaction DEF OrderInv
<1>2. ASSUME NEW t \in Tables, WriteTable(t) \/ ReadTable(t) \/ GetValue(t) \/ DeleteTable(t)
      PROVE  OrderInv'
  <2>1. CASE WriteTable(t)
    BY <1>1, <2>1, QuietStep DEF WriteTable, pools, threads, IInv
  <2>2. CASE ReadTable(t) \/ GetValue(t)
    BY <1>1, <2>2, ReadOrder
  <2>3. CASE DeleteTable(t)
    BY <1>1, <2>3, DeleteOrder
  <2> QED
    BY <1>2, <2>1, <2>2, <2>3
<1>3. CASE TryReset \/ EvictTry \/ TryEnd \/ RelocateExit
  BY <1>1, <1>3, QuietStep DEF TryReset, EvictTry, BeginTry, TryEnd, RelocateExit,
                               pools, threads, IInv
<1>4. CASE AppendTable
  BY <1>1, <1>4, AppendOrder
<1>5. ASSUME NEW z \in Zones, TryZone(z)
      PROVE  OrderInv'
  <2>1. CASE ResetSkip(z)
    BY <1>1, <2>1, QuietStep DEF ResetSkip, pools, threads, IInv
  <2>2. CASE ResetBegin(z, FALSE)
    BY <1>1, <1>5, <2>2, ResetBeginOrder DEF TryZone
  <2> QED
    BY <1>5, <2>1, <2>2 DEF TryZone
<1>6. ASSUME NEW z \in Zones, EvictForce(z)
      PROVE  OrderInv'
  <2>1. CASE ResetExit(z)
    BY <1>1, <2>1, QuietStep DEF ResetExit, pools, threads, IInv
  <2>2. CASE ResetBegin(z, TRUE)
    BY <1>1, <1>6, <2>2, ResetBeginOrder DEF EvictForce
  <2> QED
    BY <1>6, <2>1, <2>2 DEF EvictForce
<1>7. CASE RelocateOpen \/ RelocateClose \/ RelocateMove
  BY <1>1, <1>7, TargetOrder, MoveOrder
<1>8. CASE ResetEnd
  BY <1>1, <1>8, ResetEndOrder
<1>9. ASSUME NEW w \in Workers, Worker(w)
      PROVE  OrderInv'
  <2>1. CASE BeginWrite(w)
    BY <1>1, <2>1, QuietStep DEF BeginWrite, pools, locals, IInv
  <2>2. CASE EndWrite(w)
    BY <1>1, <2>2, EndWriteOrder
  <2> QED
    BY <1>9, <2>1, <2>2 DEF Worker
<1>10. CASE Exited \/ UNCHANGED vars
  BY <1>1, <1>10, QuietStep DEF Exited, vars, pools, threads, locals, IInv
<1>11. ASSUME NEW S \in SUBSET Tables, Compact(S)
       PROVE  OrderInv'
  BY <1>1, <1>11, QuietStep DEF Compact, pools, threads, locals, IInv
<1> QED
  BY <1>2, <1>3, <1>4, <1>5, <1>6, <1>7, <1>8, <1>9, <1>10, <1>11 DEF Next, Client, Reclaim

(* In every reachable state the queues, the maps and the device agree.     *)
THEOREM OrderInvariance == Spec => [](IInv /\ OrderInv)
BY Invariance, InitOrder, NextOrder, PTL DEF Spec

(* zns_check_zone_write never fails: whatever the schedule of the worker   *)
(* threads and of the relocation loop, each femu_write finds the zone's    *)
(* write pointer at its own slot.                                          *)
THEOREM DeviceSeesNoError == Spec => []NoZnsError
BY OrderInvariance, PTL DEF OrderInv

(* No two threads are inside the device code of one zone: the code that    *)
(* updates a zone's write pointer without a lock needs none.               *)
LEMMA RaceFreeFromInv == IInv /\ OrderInv => NoZoneRace
<1> SUFFICES ASSUME IInv, OrderInv, NEW w \in running
             PROVE  /\ \A v \in running : ZoneOf(v) = ZoneOf(w) => v = w
                    /\ ZoneOf(w) \notin empty_zone \cup {to_zone, victim}
  BY DEF NoZoneRace
<1>1. ASSUME NEW v \in running
      PROVE  v \in Workers /\ 1 \in DOMAIN tasks[v] /\ ZoneOf(v) = TaskZone(v, 1)
  <2>1. v \in Workers /\ tasks[v] # <<>>
    BY DEF IInv, TypeOK, MainThread, RelocationCredits
  <2> QED
    BY <2>1, HeadIsNext DEF ZoneOf, TaskZone
<1>2. \A v \in running : ZoneOf(v) = ZoneOf(w) => v = w
  BY <1>1 DEF OrderInv, OneWorkerPerZone
<1>3. ZoneOf(w) \notin empty_zone \cup {to_zone, victim}
  <2>1. PICK z, i : z = TaskZone(w, 1) /\ i = TaskSlot(w, 1)
    OBVIOUS
  <2>2. z \in Zones /\ i \in Int /\ zone_wp[z] \in Int /\ Used(z) \in Int
    BY <1>1, <2>1, QueueTypes, Numbers DEF IInv
  <2>3. zone_wp[z] <= i /\ i < Used(z)
    BY <1>1, <2>1 DEF OrderInv, QueuedIsUnwritten
  <2>4. zone_wp[z] # Used(z)
    BY <2>2, <2>3
  <2> QED
    BY <1>1, <2>1, <2>2, <2>4 DEF OrderInv, QuietZones
<1> QED
  BY <1>2, <1>3

THEOREM ZonesAreRaceFree == Spec => []NoZoneRace
BY OrderInvariance, RaceFreeFromInv, PTL

(* A stored table without a pending write is on the device.                *)
LEMMA UnqueuedIsWritten ==
  ASSUME IInv, OrderInv, NEW t \in Tables, Stored(t),
         \A w \in Workers : \A n \in DOMAIN tasks[w] : tasks[w][n].table # t
  PROVE  /\ mappingTable[t][1] \in Zones /\ mappingTable[t][2] \in Slots
         /\ mappingTable[t][2] < zone_wp[mappingTable[t][1]]
<1>1. mappingTable[t] \in Addrs
  BY DEF Stored, IInv, TypeOK
<1>2. PICK z \in Zones, i \in Slots : mappingTable[t] = <<z, i>>
  BY <1>1 DEF Addrs
<1>3. i \in Occupied(z) /\ remappingTable[<<z, i>>] = t
  BY <1>2, Constants DEF Occupied, IInv, MapsInverse, Stored
<1>4. i \in Int /\ Used(z) \in Int /\ zone_wp[z] \in Int
  BY Numbers DEF IInv
<1>5. i < Used(z)
  <2>1. CASE z # victim
    BY <1>3, <2>1 DEF IInv, RelocationAccounted
  <2>2. CASE z = victim
    <3>1. z \in full_zone /\ z # to_zone
      BY <2>2, Constants DEF IInv, RelocationAccounted, ZonesAccounted
    <3>2. Used(z) = TablesPerZone
      BY <3>1, ZoneFacts DEF Used, IInv
    <3> QED
      BY <3>2, Constants DEF Slots
  <2> QED
    BY <2>1, <2>2
<1>6. ASSUME zone_wp[z] <= i
      PROVE  FALSE
  <2>1. PICK w \in Workers : \E n \in DOMAIN tasks[w] : tasks[w][n].addr = <<z, i>>
    BY <1>5, <1>6 DEF OrderInv, UnwrittenIsQueued
  <2>2. PICK n \in DOMAIN tasks[w] : tasks[w][n].addr = <<z, i>>
    BY <2>1
  <2>3. mappingTable[tasks[w][n].table] = <<z, i>> /\ tasks[w][n].table \in Tables
    BY <2>2, QueueTypes DEF OrderInv, QueuedIsMapped, IInv
  <2>4. remappingTable[<<z, i>>] = tasks[w][n].table
    BY <1>1, <1>2, <2>3, Constants DEF IInv, MapsInverse, Stored
  <2> QED
    BY <1>3, <2>4
<1> QED
  BY <1>2, <1>4, <1>6

LEMMA ReadsFromInv == IInv /\ OrderInv => ReadsHitWrittenSlots
<1> SUFFICES ASSUME IInv, OrderInv, NEW t \in Tables, Stored(t), t \notin completeTable \/ Ready(t)
             PROVE  mappingTable[t][2] < zone_wp[mappingTable[t][1]]
  BY DEF ReadsHitWrittenSlots
<1>1. ASSUME NEW w \in Workers, NEW n \in DOMAIN tasks[w]
      PROVE  tasks[w][n].table # t
  <2>1. CASE Ready(t)
    BY <2>1, ReadyMeansUnqueued DEF IInv
  <2>2. CASE t \notin completeTable
    BY <2>2 DEF OrderInv, QueuedIsMapped
  <2> QED
    BY <2>1, <2>2
<1> QED
  BY <1>1, UnqueuedIsWritten

(* A table whose future has been taken, or is ready to be, is on the       *)
(* device: the slots readTable, getValue and resetZone read after their    *)
(* wait are written, also on every later read, which finds no future and   *)
(* does not wait.                                                          *)
THEOREM ReadsAreWritten == Spec => []ReadsHitWrittenSlots
BY OrderInvariance, ReadsFromInv, PTL

-----------------------------------------------------------------------------
(* The refinement of TableSpace, step by step.  An append is its Place ... *)
LEMMA AppendIsPlace ==
  ASSUME IInv, OrderInv, AppendTable
  PROVE  \E t \in Tables, z \in Zones : Space!Place(t, z)
<1> PICK z \in Zones, p \in Slots, t \in Tables, w \in Workers :
           /\ p = Used(z) /\ p \in Int
           /\ mappingTable[t] = NoAddr
           /\ mappingTable' = [mappingTable EXCEPT ![t] = <<z, p>>]
           /\ \A y \in Zones : Used(y)' = IF y = z THEN p + 1 ELSE Used(y)
           /\ UNCHANGED zone_wp
  BY AppendFacts
<1>1. p < TablesPerZone
  BY Constants DEF Slots
<1>2. [y \in Zones |-> Used(y)]' = [[y \in Zones |-> Used(y)] EXCEPT ![z] = @ + 1]
  OBVIOUS
<1>3. Space!Place(t, z)
  BY <1>1, <1>2 DEF Space!Place, Space!Stored
<1> QED
  BY <1>3

(* ... the end of a femu_write its Finish ...                              *)
LEMMA EndWriteIsFinish ==
  ASSUME IInv, OrderInv, NEW w \in Workers, EndWrite(w)
  PROVE  \E z \in Zones : Space!Finish(z)
<1> PICK z, i : z = TaskZone(w, 1) /\ i = TaskSlot(w, 1)
  OBVIOUS
<1>1. /\ 1 \in DOMAIN tasks[w]
      /\ zone_wp[z] = i
      /\ zone_wp' = [zone_wp EXCEPT ![z] = @ + 1]
      /\ UNCHANGED <<metas, maps, completeTable, pools, locals>>
  BY EndWriteFacts
<1>2. z \in Zones /\ zone_wp[z] < Used(z)
  BY <1>1, QueueTypes DEF IInv, OrderInv, QueuedIsUnwritten
<1>3. [y \in Zones |-> Used(y)]' = [y \in Zones |-> Used(y)]
  BY <1>1 DEF Used, metas, locals
<1>4. Space!Finish(z)
  BY <1>1, <1>2, <1>3 DEF Space!Finish, maps
<1> QED
  BY <1>2, <1>4

(* ... a relocation its Move ...                                           *)
LEMMA RelocateIsMove ==
  ASSUME IInv, OrderInv, RelocateMove
  PROVE  \E t \in Tables, z \in Zones : Space!Move(t, z)
<1> PICK i \in rewrite, t \in Tables :
           /\ victim \in full_zone /\ victim \in Zones /\ i \in Slots
           /\ to_zone \in Zones /\ to_zone # victim
           /\ to_slot \in Slots /\ zone_wp[to_zone] = to_slot
           /\ zone_wp[victim] = TablesPerZone
           /\ mappingTable[t] = <<victim, i>>
           /\ Rebind(t, <<victim, i>>, <<to_zone, to_slot>>)
           /\ zone_wp' = [zone_wp EXCEPT ![to_zone] = @ + 1]
           /\ to_slot' = to_slot + 1
           /\ UNCHANGED <<write_ptr, to_zone>>
  BY MoveFacts
<1> PICK z, p : z = to_zone /\ p = to_slot
  OBVIOUS
<1>1. /\ Used(z) = p /\ Used(victim) = TablesPerZone
      /\ p < TablesPerZone /\ i < TablesPerZone
  BY ZoneFacts, Constants DEF Used, IInv, Slots
<1>2. [y \in Zones |-> Used(y)]' = [[y \in Zones |-> Used(y)] EXCEPT ![z] = @ + 1]
  BY DEF Used
<1>3. mappingTable' = [mappingTable EXCEPT ![t] = <<z, p>>]
  BY DEF Rebind
<1>4. Space!Durable(t)
  BY <1>1, Constants DEF Space!Durable, Space!Stored, Addrs
<1>5. Space!Move(t, z)
  <2>1. mappingTable[t][1] = victim /\ z \in Zones /\ z # victim
    OBVIOUS
  <2>2. /\ [y \in Zones |-> Used(y)][victim] = TablesPerZone
        /\ [y \in Zones |-> Used(y)][z] = p
    BY <1>1
  <2>3. zone_wp[z] = p /\ zone_wp' = [zone_wp EXCEPT ![z] = @ + 1]
    OBVIOUS
  <2> QED
    BY <1>1, <1>2, <1>3, <1>4, <2>1, <2>2, <2>3, Zenon DEF Space!Move
<1> QED
  BY <1>5

(* ... deleteTable its Drop ...                                            *)
LEMMA DeleteIsDrop ==
  ASSUME IInv, OrderInv, NEW t \in Tables, DeleteTable(t)
  PROVE  Space!Drop(t)
<1>1. /\ Clears /\ t \in FileToRemove /\ Stored(t)
      /\ mappingTable' = [mappingTable EXCEPT ![t] = NoAddr]
      /\ UNCHANGED <<write_ptr, zone_wp, to_zone, to_slot>>
  BY DEF DeleteTable, Rebind, device, locals
<1>2. \A w \in Workers : \A n \in DOMAIN tasks[w] : tasks[w][n].table # t
  BY <1>1 DEF OrderInv, CompactionInv, QueuedIsMapped
<1>3. Space!Durable(t)
  BY <1>1, <1>2, UnqueuedIsWritten DEF Space!Durable, Space!Stored, Stored
<1>4. [y \in Zones |-> Used(y)]' = [y \in Zones |-> Used(y)]
  BY <1>1 DEF Used
<1> QED
  BY <1>1, <1>3, <1>4 DEF Space!Drop

(* ... and femu_reset its Erase.                                           *)
LEMMA ResetEndIsErase ==
  ASSUME IInv, OrderInv, ResetEnd
  PROVE  \E z \in Zones : Space!Erase(z)
<1> PICK v : v = victim
  OBVIOUS
<1>1. /\ v \in Zones /\ v \in full_zone
      /\ rewrite = {} /\ to_zone = NoZone /\ Occupied(v) = rewrite
      /\ zone_wp' = [zone_wp EXCEPT ![v] = IF @ >= TablesPerZone THEN 0 ELSE @]
      /\ write_ptr' = [write_ptr EXCEPT ![v] = 0]
      /\ UNCHANGED <<mappingTable, to_zone, to_slot>>
  BY DEF ResetEnd, IInv, TypeOK, MainThread, RelocationCredits, RelocationAccounted, maps
<1>2. zone_wp[v] = TablesPerZone
  BY <1>1, ZoneFacts, Constants DEF IInv, Used, OrderInv, QuietZones
<1>3. zone_wp' = [zone_wp EXCEPT ![v] = 0]
  BY <1>1, <1>2, Constants DEF IInv, TypeOK
<1>4. [y \in Zones |-> Used(y)]' = [[y \in Zones |-> Used(y)] EXCEPT ![v] = 0]
  BY <1>1, Constants DEF Used, IInv, TypeOK
<1>5. ASSUME NEW t \in Tables, mappingTable[t] # NoAddr, mappingTable[t][1] = v
      PROVE  FALSE
  <2>1. mappingTable[t] \in Zones \X Slots
    BY <1>5 DEF IInv, TypeOK, Addrs
  <2>2. PICK i \in Slots : mappingTable[t] = <<v, i>>
    BY <1>5, <2>1
  <2>3. remappingTable[<<v, i>>] = t
    BY <1>5, <2>2 DEF IInv, MapsInverse, Stored
  <2>4. i \in Occupied(v)
    BY <2>3, Constants DEF Occupied
  <2> QED
    BY <1>1, <2>4
<1>6. Space!Erase(v)
  BY <1>1, <1>2, <1>3, <1>4, <1>5 DEF Space!Erase, Space!Stored
<1> QED
  BY <1>1, <1>6

(* The other steps leave the space of slots as it is.                      *)
LEMMA OtherStepsStutter ==
  ASSUME IInv, UNCHANGED <<mappingTable, zone_wp>>,
         \/ UNCHANGED <<write_ptr, to_zone, to_slot>>
         \/ RelocateOpen
         \/ RelocateClose
  PROVE  UNCHANGED Space!space
<1>1. \A y \in Zones : Used(y)' = Used(y)
  <2>1. CASE UNCHANGED <<write_ptr, to_zone, to_slot>>
    BY <2>1 DEF Used
  <2>2. CASE RelocateOpen
    BY <2>2, Constants DEF RelocateOpen, metas, Used, IInv, TypeOK
  <2>3. CASE RelocateClose
    BY <2>3, CloseEnd, Constants DEF Used, IInv, TypeOK
  <2> QED
    BY <2>1, <2>2, <2>3
<1>2. [y \in Zones |-> Used(y)]' = [y \in Zones |-> Used(y)]
  BY <1>1
<1> QED
  BY <1>2 DEF Space!space

LEMMA InitIsSpace == Init => Space!Init
<1> SUFFICES ASSUME Init PROVE Space!Init
  OBVIOUS
<1>1. \A y \in Zones : Used(y) = 0
  BY Constants DEF Init, Used
<1> QED
  BY <1>1 DEF Init, Space!Init

LEMMA NextIsSpace == IInv /\ OrderInv /\ [Next]_vars => [Space!Next]_(Space!space)
<1> SUFFICES ASSUME IInv, OrderInv, [Next]_vars
             PROVE  Space!Next \/ UNCHANGED Space!space
  OBVIOUS
<1> USE DEF metas, maps, pools, threads, device, locals
<1>1. CASE AppendTable
  BY <1>1, AppendIsPlace DEF Space!Next
<1>2. ASSUME NEW w \in Workers, Worker(w)
      PROVE  Space!Next \/ UNCHANGED Space!space
  <2>1. CASE BeginWrite(w)
    BY <2>1, OtherStepsStutter DEF BeginWrite
  <2>2. CASE EndWrite(w)
    BY <2>2, EndWriteIsFinish DEF Space!Next
  <2> QED
    BY <1>2, <2>1, <2>2 DEF Worker
<1>3. CASE RelocateMove
  BY <1>3, RelocateIsMove DEF Space!Next
<1>4. CASE ResetEnd
  BY <1>4, ResetEndIsErase DEF Space!Next
<1>5. ASSUME NEW t \in Tables, WriteTable(t) \/ ReadTable(t) \/ GetValue(t) \/ DeleteTable(t)
      PROVE  Space!Next \/ UNCHANGED Space!space
  <2>1. CASE DeleteTable(t)
    BY <2>1, DeleteIsDrop DEF Space!Next
  <2>2. CASE WriteTable(t) \/ ReadTable(t) \/ GetValue(t)
    BY <2>2, OtherStepsStutter DEF WriteTable, ReadTable, GetValue
  <2> QED
    BY <1>5, <2>1, <2>2
<1>6. CASE TryReset \/ EvictTry \/ TryEnd \/ RelocateExit
  BY <1>6, OtherStepsStutter DEF TryReset, EvictTry, BeginTry, TryEnd, RelocateExit
<1>7. ASSUME NEW z \in Zones, TryZone(z) \/ EvictForce(z)
      PROVE  Space!Next \/ UNCHANGED Space!space
  BY <1>7, OtherStepsStutter DEF TryZone, EvictForce, ResetSkip, ResetBegin, ResetExit
<1>8. CASE RelocateOpen \/ RelocateClose
  BY <1>8, OtherStepsStutter DEF RelocateOpen, RelocateClose
<1>9. CASE Exited \/ UNCHANGED vars
  BY <1>9, OtherStepsStutter DEF Exited, vars
<1>10. ASSUME NEW S \in SUBSET Tables, Compact(S)
       PROVE  Space!Next \/ UNCHANGED Space!space
  BY <1>10, OtherStepsStutter DEF Compact
<1> QED
  BY <1>1, <1>2, <1>3, <1>4, <1>5, <1>6, <1>7, <1>8, <1>9, <1>10 DEF Next, Client, Reclaim

(* The store implements the space of slots its users see: no table is      *)
(* moved or deleted before it is on the device, and no zone is erased      *)
(* under a table, for any number of zones, tables, slots and threads.      *)
THEOREM StoreImplementsTableSpace == Spec => ImplementsTableSpace
BY OrderInvariance, InitIsSpace, NextIsSpace, PTL DEF Spec, ImplementsTableSpace, Space!Spec

-----------------------------------------------------------------------------
(***************************************************************************)
(* Counting the zones: eviction finds a zone to evict, and relocation finds *)
(* the room it needs, for every size of the device.                        *)
(***************************************************************************)
(* The slots relocation may still write: those not given out in the zones  *)
(* of the pool and in the zone it is filling.                              *)
Free == {a \in Addrs : a[1] \in empty_zone \cup {to_zone} /\ a[2] >= Used(a[1])}

(* How many tables the relocation in progress has moved.                   *)
Moved == IF victim = NoZone THEN 0 ELSE valid_table_num[victim] - Cardinality(rewrite)

(* The appends leave MinEmpty - 1 slots for relocation; a relocation spends *)
(* one per table, fewer in all than the zone it erases gives back.          *)
RoomInv ==
  /\ MinEmpty - 1 - Moved <= Cardinality(Free)
  /\ victim # NoZone => /\ valid_table_num[victim] < TablesPerZone
                        /\ Cardinality(rewrite) <= valid_table_num[victim]

-----------------------------------------------------------------------------
(* There is one open zone per stream.                                      *)
LEMMA OpenedCount ==
  ASSUME TypeOK
  PROVE  IsFiniteSet(Opened) /\ Cardinality(Opened) \in Nat /\ Cardinality(Opened) <= OpenZones
<1>1. open_zone \in Surjection(Streams, Opened)
  BY DEF TypeOK, Opened, Surjection
<1>2. IsFiniteSet(Streams) /\ Cardinality(Streams) = OpenZones
  <2>1. 0 \in Int /\ OpenZones - 1 \in Int
    BY Constants
  <2> QED
    BY <2>1, FS_Interval, Constants DEF Streams
<1>3. IsFiniteSet(Opened) /\ Cardinality(Opened) <= Cardinality(Streams)
  BY <1>1, <1>2, FS_Surjection
<1> QED
  BY <1>2, <1>3, FS_CardinalityType

(* The zones that are neither open nor full number enough, whatever the    *)
(* device: the constructor and evictZone rely on it.                       *)
LEMMA PoolCount ==
  ASSUME TypeOK, ZonesAccounted, to_zone = NoZone, full_zone = {}
  PROVE  Cardinality(empty_zone) >= MinEmpty
<1>1. Zones = Opened \cup empty_zone
  BY DEF ZonesAccounted
<1>2. IsFiniteSet(empty_zone) /\ Cardinality(empty_zone) \in Nat
  BY Constants, FS_Subset, FS_CardinalityType DEF TypeOK
<1>3. Opened \cap empty_zone = {} /\ Cardinality({}) = 0
  BY FS_EmptySet DEF ZonesAccounted
<1>4. Cardinality(Zones) = Cardinality(Opened) + Cardinality(empty_zone) - 0
  BY <1>1, <1>2, <1>3, OpenedCount, FS_Union
<1>5. OpenZones + MinEmpty <= Cardinality(Zones) /\ OpenZones \in Nat /\ MinEmpty \in Nat
  BY ConstantsAssumption
<1> QED
  BY <1>2, <1>4, <1>5, OpenedCount

(* The slots free for relocation are finitely many.                        *)
LEMMA FreeFinite == IsFiniteSet(Free) /\ Cardinality(Free) \in Nat
<1>1. IsFiniteSet(Addrs)
  BY Constants, SlotsFinite, FS_Product DEF Addrs
<1>2. Free \subseteq Addrs
  BY DEF Free
<1> QED
  BY <1>1, <1>2, FS_Subset, FS_CardinalityType

(* Every zone of the pool has a free slot, its next one.                   *)
LEMMA FreeCoversPool ==
  TypeOK /\ ZonesAccounted => Cardinality(empty_zone) <= Cardinality(Free)
<1> SUFFICES ASSUME TypeOK, ZonesAccounted
             PROVE  Cardinality(empty_zone) <= Cardinality(Free)
  OBVIOUS
<1> DEFINE next == [z \in empty_zone |-> <<z, write_ptr[z]>>]
<1>1. ASSUME NEW z \in empty_zone
      PROVE  <<z, write_ptr[z]>> \in Free
  <2>1. z \in Zones /\ z # to_zone /\ write_ptr[z] # TablesPerZone /\ write_ptr[z] \in 0 .. TablesPerZone
    BY ZoneFacts DEF ZonesAccounted, TypeOK
  <2>2. write_ptr[z] \in Slots /\ Used(z) = write_ptr[z]
    BY <2>1, Constants DEF Slots, Used
  <2>3. write_ptr[z] >= Used(z)
    BY <2>1, <2>2, Constants
  <2>4. <<z, write_ptr[z]>> \in Addrs
    BY <2>1, <2>2 DEF Addrs
  <2> QED
    BY <2>3, <2>4 DEF Free
<1>2. next \in [empty_zone -> Free]
  BY <1>1
<1>3. \A y, z \in empty_zone : next[y] = next[z] => y = z
  OBVIOUS
<1>4. next \in Injection(empty_zone, Free)
  BY <1>2, <1>3 DEF Injection, IsInjective
<1> QED
  BY <1>4, FreeFinite, FS_Injection

-----------------------------------------------------------------------------
LEMMA InitRoom == Init => RoomInv
<1> SUFFICES ASSUME Init PROVE RoomInv
  OBVIOUS
<1>1. TypeOK /\ ZonesAccounted /\ to_zone = NoZone /\ full_zone = {} /\ victim = NoZone
  BY InitIInv DEF IInv, Init
<1>2. Cardinality(empty_zone) >= MinEmpty /\ Cardinality(empty_zone) <= Cardinality(Free)
  BY <1>1, PoolCount, FreeCoversPool
<1>3. Cardinality(empty_zone) \in Nat /\ Cardinality(Free) \in Nat /\ MinEmpty \in Nat
  BY <1>1, FreeFinite, Constants, ConstantsAssumption, FS_Subset, FS_CardinalityType DEF TypeOK
<1> QED
  BY <1>1, <1>2, <1>3 DEF RoomInv, Moved

(* A step that leaves the pool and the relocation alone.                   *)
LEMMA RoomFrame ==
  ASSUME RoomInv,
         UNCHANGED <<write_ptr, empty_zone, victim, rewrite, to_zone, to_slot>>,
         UNCHANGED valid_table_num \/ victim = NoZone
  PROVE  RoomInv'
<1>1. Free' = Free
  BY DEF Free, Used
<1>2. Moved' = Moved
  BY DEF Moved
<1> QED
  BY <1>1, <1>2 DEF RoomInv

(* An append leaves a slot in each of the zones it leaves in the pool.     *)
LEMMA AppendRoom ==
  ASSUME IInv, IInv', AppendTable
  PROVE  RoomInv'
<1>1. Cardinality(empty_zone)' <= Cardinality(Free)'
  <2>1. (TypeOK /\ ZonesAccounted => Cardinality(empty_zone) <= Cardinality(Free))'
    BY FreeCoversPool, PTL
  <2> QED
    BY <2>1 DEF IInv
<1>2. IsFiniteSet(empty_zone) /\ Cardinality(empty_zone) \in Nat
  BY Constants, FS_Subset, FS_CardinalityType DEF IInv, TypeOK
<1>3. ~(Cardinality(empty_zone) < MinEmpty) /\ MinEmpty \in Nat
  BY ConstantsAssumption DEF AppendTable, Low
<1>4. Cardinality(empty_zone') >= Cardinality(empty_zone) - 1 /\ Cardinality(empty_zone') \in Nat
  <2>1. \/ empty_zone' = empty_zone
        \/ \E n \in empty_zone : empty_zone' = empty_zone \ {n}
    BY DEF AppendTable, AdvanceOpenZone
  <2>2. CASE empty_zone' = empty_zone
    BY <1>2, <2>2
  <2>3. ASSUME NEW n \in empty_zone, empty_zone' = empty_zone \ {n}
        PROVE  Cardinality(empty_zone') >= Cardinality(empty_zone) - 1 /\ Cardinality(empty_zone') \in Nat
    <3>1. IsFiniteSet(empty_zone \ {n}) /\ Cardinality(empty_zone \ {n}) = Cardinality(empty_zone) - 1
      BY <1>2, FS_RemoveElement
    <3> QED
      BY <2>3, <3>1, <1>2, FS_CardinalityType
  <2> QED
    BY <2>1, <2>2, <2>3
<1>5. victim' = NoZone
  BY DEF AppendTable, IInv, MainThread, RelocationCredits
<1>6. (IsFiniteSet(Free) /\ Cardinality(Free) \in Nat)'
  BY FreeFinite, PTL
<1> QED
  BY <1>1, <1>2, <1>3, <1>4, <1>5, <1>6 DEF RoomInv, Moved

(* A relocation starts with the live tables of a zone that is not full of  *)
(* live tables.                                                            *)
LEMMA ResetBeginRoom ==
  ASSUME IInv, IInv', RoomInv, NEW z \in Zones, NEW force \in BOOLEAN, ResetBegin(z, force),
         pc \in {"try", "write"}
  PROVE  RoomInv'
<1>1. /\ UNCHANGED <<write_ptr, valid_table_num, remappingTable, empty_zone, to_zone, to_slot>>
      /\ victim = NoZone /\ to_zone = NoZone /\ victim' = z
      /\ valid_table_num[z] # TablesPerZone
  BY DEF ResetBegin, Reclaimable, IInv, MainThread, RelocationCredits, metas, maps, pools
<1>2. Free' = Free
  BY <1>1 DEF Free, Used
<1>3. valid_table_num[z] \in 0 .. TablesPerZone /\ write_ptr[z] \in Int
  BY Constants DEF IInv, TypeOK
<1>4. Cardinality(rewrite') = valid_table_num[z]
  <2>1. Occupied(z)' = rewrite' /\ Occupied(z)' = Occupied(z)
    BY <1>1, Constants DEF IInv, RelocationAccounted, Occupied
  <2>2. valid_table_num[z] + (Used(z) - write_ptr[z]) = Cardinality(Occupied(z)) /\ Used(z) = write_ptr[z]
    BY <1>1, Constants DEF IInv, RelocationAccounted, Used
  <2> QED
    BY <1>3, <2>1, <2>2
<1>5. Moved' = 0 /\ Moved = 0
  BY <1>1, <1>3, <1>4, Constants DEF Moved
<1> QED
  BY <1>1, <1>2, <1>3, <1>4, <1>5, Constants DEF RoomInv

(* Taking a zone out of the pool, and closing it, frees and takes no slot. *)
LEMMA TargetRoom ==
  ASSUME IInv, RoomInv, RelocateOpen \/ RelocateClose
  PROVE  RoomInv'
<1>1. UNCHANGED <<victim, rewrite>>
  BY DEF RelocateOpen, RelocateClose
<1>2. CASE RelocateOpen
  <2>1. PICK z \in empty_zone : /\ empty_zone' = empty_zone \ {z} /\ to_zone' = z
                               /\ to_slot' = write_ptr[z] /\ to_zone = NoZone
                               /\ UNCHANGED <<write_ptr, valid_table_num>>
    BY <1>2 DEF RelocateOpen, metas
  <2>2. \A y \in Zones : Used(y)' = Used(y)
    BY <2>1, Constants DEF Used
  <2>3. \A y \in Zones : y \in empty_zone' \cup {to_zone'} <=> y \in empty_zone \cup {to_zone}
    BY <2>1, Constants
  <2>4. Free' = Free
    BY <2>2, <2>3 DEF Free, Addrs
  <2>5. Moved' = Moved
    BY <1>1, <2>1 DEF Moved
  <2> QED
    BY <1>1, <2>1, <2>4, <2>5 DEF RoomInv
<1>3. CASE RelocateClose
  <2>1. PICK z : z = to_zone
    OBVIOUS
  <2>2. /\ z \in Zones /\ z # victim /\ to_zone' = NoZone
        /\ write_ptr' = [write_ptr EXCEPT ![z] = to_slot]
        /\ valid_table_num' = [valid_table_num EXCEPT ![z] = @ + (to_slot - write_ptr[z])]
        /\ \/ to_slot = TablesPerZone /\ empty_zone' = empty_zone
           \/ to_slot < TablesPerZone /\ empty_zone' = empty_zone \cup {z}
    BY <1>3, <2>1, CloseEnd DEF IInv, TypeOK, MainThread, RelocationCredits, RelocationAccounted, ZonesAccounted
  <2>3. \A y \in Zones : Used(y)' = Used(y)
    BY <2>1, <2>2, Constants DEF Used, IInv, TypeOK
  <2>4. ASSUME NEW y \in Zones, NEW i \in Slots, i >= Used(y)
        PROVE  y \in empty_zone' \cup {to_zone'} <=> y \in empty_zone \cup {to_zone}
    <3>1. CASE to_slot < TablesPerZone
      <4>1. empty_zone' = empty_zone \cup {z}
        BY <2>2, <3>1, Constants
      <4> QED
        BY <2>1, <2>2, <4>1, Constants
    <3>2. CASE to_slot = TablesPerZone
      <4>1. empty_zone' = empty_zone
        BY <2>2, <3>2, Constants
      <4>2. y # z
        BY <2>1, <2>4, <3>2, Constants DEF Used, Slots
      <4> QED
        BY <2>1, <2>2, <4>1, <4>2, Constants
    <3> QED
      BY <2>2, <3>1, <3>2
  <2>5. Free' = Free
    BY <2>3, <2>4 DEF Free, Addrs
  <2>6. victim # NoZone => valid_table_num'[victim] = valid_table_num[victim]
    BY <2>2 DEF IInv, TypeOK
  <2>7. Moved' = Moved
    BY <1>1, <2>6 DEF Moved
  <2> QED
    BY <1>1, <2>5, <2>6, <2>7 DEF RoomInv
<1> QED
  BY <1>2, <1>3

(* A move takes one free slot for one table.                               *)
LEMMA MoveRoom ==
  ASSUME IInv, RoomInv, RelocateMove
  PROVE  RoomInv'
<1> PICK i \in rewrite : rewrite' = rewrite \ {i} /\ to_slot' = to_slot + 1
  BY DEF RelocateMove
<1> PICK z, p : z = to_zone /\ p = to_slot
  OBVIOUS
<1>1. /\ UNCHANGED <<write_ptr, valid_table_num, empty_zone, victim, to_zone>>
      /\ victim \in Zones /\ victim # NoZone
      /\ z \in Zones /\ p \in 0 .. TablesPerZone /\ p < TablesPerZone
  BY Constants DEF RelocateMove, metas, pools, IInv, TypeOK, MainThread, RelocationCredits
<1>2. p \in Slots /\ p \in Int
  BY <1>1, Constants DEF Slots
<1>3. \A y \in Zones : Used(y)' = IF y = z THEN p + 1 ELSE Used(y)
  BY <1>1 DEF Used
<1>4. Free' = Free \ {<<z, p>>}
  <2>1. ASSUME NEW y \in Zones, NEW j \in Slots
        PROVE  j >= Used(y)' <=> j >= Used(y) /\ <<y, j>> # <<z, p>>
    <3>1. CASE y = z
      <4>1. Used(y) = p /\ Used(y)' = p + 1 /\ j \in Int
        BY <1>3, <3>1, Constants DEF Used, Slots
      <4> QED
        BY <1>2, <3>1, <4>1
    <3>2. CASE y # z
      BY <1>3, <3>2
    <3> QED
      BY <3>1, <3>2
  <2>2. empty_zone' \cup {to_zone'} = empty_zone \cup {to_zone}
    BY <1>1
  <2> QED
    BY <2>1, <2>2 DEF Free, Addrs
<1>5. <<z, p>> \in Free
  BY <1>1, <1>2 DEF Free, Addrs, Used
<1>6. Cardinality(Free') = Cardinality(Free) - 1 /\ Cardinality(Free) \in Nat
  BY <1>4, <1>5, FreeFinite, FS_RemoveElement
<1>7. IsFiniteSet(rewrite) /\ Cardinality(rewrite) \in Nat
  BY SlotsFinite, FS_Subset, FS_CardinalityType DEF IInv, TypeOK
<1>8. Cardinality(rewrite') = Cardinality(rewrite) - 1
  BY <1>7, FS_RemoveElement
<1>9. valid_table_num[victim] \in Int /\ MinEmpty \in Int
  BY <1>1, Constants, ConstantsAssumption DEF IInv, TypeOK
<1>10. Moved' = Moved + 1 /\ Moved \in Int
  BY <1>1, <1>7, <1>8, <1>9 DEF Moved
<1> QED
  BY <1>1, <1>6, <1>7, <1>8, <1>9, <1>10, Constants DEF RoomInv

(* The erased zone gives back more slots than its relocation has spent.    *)
LEMMA ResetEndRoom ==
  ASSUME IInv, RoomInv, ResetEnd
  PROVE  RoomInv'
<1> PICK v : v = victim
  OBVIOUS
<1>1. /\ v \in Zones /\ v # NoZone /\ v \notin empty_zone
      /\ victim' = NoZone /\ rewrite = {} /\ to_zone = NoZone /\ to_zone' = NoZone
      /\ empty_zone' = empty_zone \cup {v}
      /\ write_ptr' = [write_ptr EXCEPT ![v] = 0]
  BY Constants DEF ResetEnd, IInv, TypeOK, MainThread, RelocationCredits, RelocationAccounted, ZonesAccounted
<1>2. /\ \A y \in Zones \ {v} : Used(y)' = Used(y)
      /\ Used(v)' = 0
  BY <1>1, Constants DEF Used, IInv, TypeOK
<1>3. Free' = Free \cup ({v} \X Slots)
  <2>1. ASSUME NEW y \in Zones, NEW j \in Slots
        PROVE  <<y, j>> \in Free' <=> <<y, j>> \in Free \/ y = v
    <3>1. CASE y = v
      <4>1. j >= Used(y)'
        BY <1>2, <3>1, Constants DEF Slots
      <4> QED
        BY <1>1, <3>1, <4>1 DEF Free, Addrs
    <3>2. CASE y # v
      BY <1>1, <1>2, <3>2, Constants DEF Free, Addrs
    <3> QED
      BY <3>1, <3>2
  <2>2. Free \subseteq Zones \X Slots /\ Free' \subseteq Zones \X Slots
    BY DEF Free, Addrs
  <2> QED
    BY <1>1, <2>1, <2>2
<1>4. IsFiniteSet({v} \X Slots) /\ Cardinality({v} \X Slots) = TablesPerZone
  <2>1. IsFiniteSet({v}) /\ Cardinality({v}) = 1
    BY FS_Singleton
  <2>2. IsFiniteSet({v} \X Slots) /\ Cardinality({v} \X Slots) = 1 * TablesPerZone
    BY <2>1, SlotsFinite, FS_Product
  <2> QED
    BY <2>2, Constants
<1>5. Free \cap ({v} \X Slots) = {} /\ Cardinality({}) = 0
  BY <1>1, Constants, FS_EmptySet DEF Free
<1>6. Cardinality(Free') = Cardinality(Free) + TablesPerZone - 0
  <2>1. Cardinality(Free \cup ({v} \X Slots))
          = Cardinality(Free) + Cardinality({v} \X Slots) - Cardinality(Free \cap ({v} \X Slots))
    BY <1>4, FreeFinite, FS_Union
  <2> QED
    BY <1>3, <1>4, <1>5, <2>1
<1>7. Moved = valid_table_num[v] /\ Moved' = 0
  BY <1>1, <1>5, Constants DEF Moved, IInv, TypeOK
<1>8. valid_table_num[v] \in Int /\ valid_table_num[v] < TablesPerZone /\ MinEmpty \in Int
  BY <1>1, Constants, ConstantsAssumption DEF RoomInv, IInv, TypeOK
<1> QED
  BY <1>1, <1>6, <1>7, <1>8, FreeFinite, Constants DEF RoomInv

-----------------------------------------------------------------------------
(* Every step leaves relocation its room.                                  *)
LEMMA NextRoom == IInv /\ RoomInv /\ [Next]_vars => RoomInv'
<1> SUFFICES ASSUME IInv, RoomInv, [Next]_vars PROVE RoomInv'
  OBVIOUS
<1>0. IInv'
  BY NextIInv
<1> USE DEF metas, pools, locals
<1>1. ASSUME NEW t \in Tables, WriteTable(t) \/ ReadTable(t) \/ GetValue(t) \/ DeleteTable(t)
      PROVE  RoomInv'
  <2>1. CASE DeleteTable(t)
    BY <2>1, RoomFrame DEF DeleteTable, IInv, MainThread, RelocationCredits
  <2>2. CASE WriteTable(t) \/ ReadTable(t) \/ GetValue(t)
    BY <2>2, RoomFrame DEF WriteTable, ReadTable, GetValue
  <2> QED
    BY <1>1, <2>1, <2>2
<1>2. CASE TryReset \/ EvictTry \/ TryEnd \/ RelocateExit
  BY <1>2, RoomFrame DEF TryReset, EvictTry, BeginTry, TryEnd, RelocateExit
<1>3. CASE AppendTable
  BY <1>0, <1>3, AppendRoom
<1>4. ASSUME NEW z \in Zones, TryZone(z) \/ EvictForce(z)
      PROVE  RoomInv'
  <2>1. CASE ResetSkip(z) \/ ResetExit(z)
    BY <2>1, RoomFrame DEF ResetSkip, ResetExit
  <2>2. ASSUME NEW force \in BOOLEAN, ResetBegin(z, force)
        PROVE  RoomInv'
    BY <1>0, <1>4, <2>2, ResetBeginRoom DEF TryZone, EvictForce
  <2> QED
    BY <1>4, <2>1, <2>2 DEF TryZone, EvictForce
<1>5. CASE RelocateOpen \/ RelocateClose
  BY <1>5, TargetRoom
<1>6. CASE RelocateMove
  BY <1>6, MoveRoom
<1>7. CASE ResetEnd
  BY <1>7, ResetEndRoom
<1>8. ASSUME NEW w \in Workers, Worker(w)
      PROVE  RoomInv'
  BY <1>8, RoomFrame DEF Worker, BeginWrite, EndWrite
<1>9. CASE Exited \/ UNCHANGED vars
  BY <1>9, RoomFrame DEF Exited, vars
<1>10. ASSUME NEW S \in SUBSET Tables, Compact(S)
       PROVE  RoomInv'
  BY <1>10, RoomFrame DEF Compact
<1> QED
  BY <1>1, <1>2, <1>3, <1>4, <1>5, <1>6, <1>7, <1>8, <1>9, <1>10 DEF Next, Client, Reclaim

(* In every reachable state the free slots of the pool cover what the      *)
(* relocation in progress has still to move, beyond MinEmpty - 1.          *)
THEOREM RoomInvariance == Spec => [](IInv /\ RoomInv)
BY Invariance, InitRoom, NextRoom, PTL DEF Spec

LEMMA RoomFromInv == IInv /\ RoomInv => RelocationHasRoom
<1> SUFFICES ASSUME IInv, RoomInv, MinEmpty >= TablesPerZone,
                    pc = "reset", rewrite # {}, to_zone = NoZone, empty_zone = {}
             PROVE  FALSE
  BY DEF RelocationHasRoom
<1>1. Free = {} /\ Cardinality({}) = 0
  BY Constants, FS_EmptySet DEF Free, Addrs
<1>2. IsFiniteSet(rewrite) /\ Cardinality(rewrite) \in Nat /\ Cardinality(rewrite) # 0
  BY SlotsFinite, FS_Subset, FS_CardinalityType, FS_EmptySet DEF IInv, TypeOK
<1>3. victim # NoZone /\ victim \in Zones
  BY DEF IInv, MainThread, RelocationCredits, TypeOK
<1>4. valid_table_num[victim] \in Int /\ valid_table_num[victim] < TablesPerZone /\ MinEmpty \in Int
  BY <1>3, Constants, ConstantsAssumption DEF RoomInv, IInv, TypeOK
<1>5. MinEmpty - 1 - (valid_table_num[victim] - Cardinality(rewrite)) <= 0
  BY <1>1, <1>3 DEF RoomInv, Moved
<1> QED
  BY <1>2, <1>4, <1>5, Constants

(* Relocation never meets "data size is more than ssd capacity" when       *)
(* eviction starts with a zone's worth of empty zones left, however        *)
(* fragmented those are and however many resets follow one another.        *)
THEOREM RelocationNeverStarves == Spec => []RelocationHasRoom
BY RoomInvariance, RoomFromInv, PTL

LEMMA VictimFromInv == IInv => EvictHasVictim
<1> SUFFICES ASSUME IInv, pc = "write", Low, full_zone = {}
             PROVE  FALSE
  BY DEF EvictHasVictim
<1>1. TypeOK /\ ZonesAccounted /\ to_zone = NoZone
  BY DEF IInv, MainThread, RelocationCredits
<1>2. Cardinality(empty_zone) >= MinEmpty
  BY <1>1, PoolCount
<1>3. Cardinality(empty_zone) \in Nat /\ MinEmpty \in Nat
  BY <1>1, Constants, ConstantsAssumption, FS_Subset, FS_CardinalityType DEF TypeOK
<1> QED
  BY <1>2, <1>3 DEF Low

(* evictZone, which takes the first of the full zones without a test, is   *)
(* never called while there is none.                                       *)
THEOREM EvictionFindsAVictim == Spec => []EvictHasVictim
BY Invariance, VictimFromInv, PTL

-----------------------------------------------------------------------------
(***************************************************************************)
(* The pool of empty zones: its queues hold exactly the zones that         *)
(* MemoryManager takes to be empty, for every number of zones and dies.    *)
(***************************************************************************)
(* Sequence s lists the elements of S, each once.                          *)
Lists(s, S) ==
  /\ s \in Seq(Nat)
  /\ \A i \in 1 .. Len(s) : s[i] \in S
  /\ \A i, j \in 1 .. Len(s) : s[i] = s[j] => i = j
  /\ \A z \in S : \E i \in 1 .. Len(s) : s[i] = z

LEMMA ListsTail ==
  ASSUME NEW s, NEW S, Lists(s, S), s # <<>>
  PROVE  Head(s) \in S /\ Lists(Tail(s), S \ {Head(s)})
<1>1. s \in Seq(Nat)
  BY DEF Lists
<1>2. PICK t : t = Tail(s)
  OBVIOUS
<1>3. /\ Len(s) \in Nat \ {0} /\ t \in Seq(Nat) /\ Len(t) = Len(s) - 1 /\ Head(s) = s[1]
      /\ \A i \in 1 .. Len(t) : t[i] = s[i + 1]
  BY <1>1, <1>2, HeadTailProperties
<1>4. 1 \in 1 .. Len(s) /\ \A i \in 1 .. Len(t) : i + 1 \in 1 .. Len(s) /\ i + 1 # 1 /\ i \in Nat
  BY <1>3
<1>5. \A i \in 1 .. Len(t) : t[i] \in S \ {s[1]}
  <2>1. /\ \A i \in 1 .. Len(s) : s[i] \in S
        /\ \A i, j \in 1 .. Len(s) : s[i] = s[j] => i = j
    BY DEF Lists
  <2> SUFFICES ASSUME NEW i \in 1 .. Len(t) PROVE t[i] \in S \ {s[1]}
    OBVIOUS
  <2>2. t[i] = s[i + 1] /\ i + 1 \in 1 .. Len(s) /\ i + 1 # 1
    BY <1>3, <1>4
  <2> QED
    BY <1>4, <2>1, <2>2
<1>6. \A i, j \in 1 .. Len(t) : t[i] = t[j] => i = j
  <2>1. \A i, j \in 1 .. Len(s) : s[i] = s[j] => i = j
    BY DEF Lists
  <2> TAKE i, j \in 1 .. Len(t)
  <2>2. PICK a \in 1 .. Len(s), b \in 1 .. Len(s) : a = i + 1 /\ b = j + 1 /\ t[i] = s[a] /\ t[j] = s[b]
    BY <1>3, <1>4
  <2>3. t[i] = t[j] => a = b
    BY <2>1, <2>2
  <2> QED
    BY <1>4, <2>2, <2>3
<1>7. ASSUME NEW z \in S \ {s[1]}
      PROVE  \E i \in 1 .. Len(t) : t[i] = z
  <2>1. PICK i \in 1 .. Len(s) : s[i] = z
    BY DEF Lists
  <2>2. i - 1 \in 1 .. Len(t) /\ (i - 1) + 1 = i
    BY <1>3, <1>7, <2>1
  <2> QED
    BY <1>3, <2>1, <2>2
<1>8. PICK R : R = S \ {s[1]}
  OBVIOUS
<1>9. Lists(t, R)
  <2>1. \A i \in 1 .. Len(t) : t[i] \in R
    BY ONLY <1>5, <1>8
  <2>2. \A z \in R : \E i \in 1 .. Len(t) : t[i] = z
    BY ONLY <1>7, <1>8
  <2>3. t \in Seq(Nat)
    BY ONLY <1>3
  <2> QED
    BY ONLY <1>6, <2>1, <2>2, <2>3 DEF Lists
<1>10. Head(s) = s[1] /\ s[1] \in S
  <2>1. \A i \in 1 .. Len(s) : s[i] \in S
    BY DEF Lists
  <2> QED
    BY ONLY <1>3, <1>4, <2>1
<1> QED
  BY ONLY <1>2, <1>8, <1>9, <1>10

LEMMA ListsAppend ==
  ASSUME NEW s, NEW S, Lists(s, S), NEW z \in Nat, z \notin S
  PROVE  Lists(Append(s, z), S \cup {z})
<1>1. s \in Seq(Nat)
  BY DEF Lists
<1>2. PICK t : t = Append(s, z)
  OBVIOUS
<1>3. /\ Len(s) \in Nat /\ t \in Seq(Nat) /\ Len(t) = Len(s) + 1 /\ t[Len(s) + 1] = z
      /\ \A i \in 1 .. Len(s) : t[i] = s[i]
  BY <1>1, <1>2, AppendProperties
<1>4. \A i \in 1 .. Len(t) : i \in 1 .. Len(s) \/ i = Len(t)
  BY <1>3
<1>5. \A i \in 1 .. Len(s) : t[i] \in S /\ i \in 1 .. Len(t)
  <2>1. \A i \in 1 .. Len(s) : s[i] \in S
    BY DEF Lists
  <2> QED
    BY <1>3, <2>1
<1>6. \A i \in 1 .. Len(t) : t[i] \in S \cup {z}
  BY <1>3, <1>4, <1>5
<1>7. \A i, j \in 1 .. Len(t) : t[i] = t[j] => i = j
  <2> TAKE i, j \in 1 .. Len(t)
  <2>1. CASE i \in 1 .. Len(s) /\ j \in 1 .. Len(s)
    BY <1>3, <2>1 DEF Lists
  <2> QED
    BY <1>3, <1>4, <1>5, <2>1
<1>8. \A x \in S \cup {z} : \E i \in 1 .. Len(t) : t[i] = x
  <2>1. Len(t) \in 1 .. Len(t) /\ t[Len(t)] = z
    BY <1>3
  <2>2. ASSUME NEW x \in S
        PROVE  \E i \in 1 .. Len(t) : t[i] = x
    <3>1. PICK i \in 1 .. Len(s) : s[i] = x
      BY DEF Lists
    <3> QED
      BY <1>3, <1>5, <3>1
  <2> QED
    BY <2>1, <2>2
<1> QED
  BY <1>2, <1>3, <1>6, <1>7, <1>8 DEF Lists

LEMMA ListsCount ==
  ASSUME NEW s, NEW S, Lists(s, S)
  PROVE  ToSet(s) = S /\ Len(s) = Cardinality(ToSet(s)) /\ (s = <<>> <=> S = {})
<1>1. s \in Seq(Nat) /\ Len(s) \in Nat /\ DOMAIN s = 1 .. Len(s)
  BY DEF Lists
<1>2. ToSet(s) = S
  BY <1>1 DEF ToSet, Lists
<1>3. s \in Bijection(1 .. Len(s), S)
  BY <1>1 DEF Lists, Bijection, Injection, Surjection, IsInjective
<1>4. IsFiniteSet(1 .. Len(s)) /\ Cardinality(1 .. Len(s)) = Len(s)
  <2>1. 1 \in Int /\ Len(s) \in Int
    BY <1>1
  <2>2. IsFiniteSet(1 .. Len(s)) /\ Cardinality(1 .. Len(s)) = IF 1 > Len(s) THEN 0 ELSE Len(s) - 1 + 1
    BY <2>1, FS_Interval
  <2> QED
    BY <1>1, <2>2
<1>5. Cardinality(S) = Len(s)
  <2>1. ExistsBijection(1 .. Len(s), S)
    BY <1>3 DEF ExistsBijection
  <2> QED
    BY ONLY <1>4, <2>1, FS_Bijection
<1>6. s = <<>> <=> S = {}
  BY <1>1 DEF Lists
<1> QED
  BY <1>2, <1>5, <1>6

-----------------------------------------------------------------------------
(* Pool c holds the zones of S.                                            *)
Held(S, q) == {z \in S : Index(z) = q}

Matches(c, S) ==
  /\ c.ptr \in Queues
  /\ c.queues \in [Queues -> Seq(Nat)]
  /\ \A q \in Queues : Lists(c.queues[q], Held(S, q))
  /\ c.size = Cardinality(S)

LEMMA ZonesOfPool ==
  /\ Zones = 0 .. (total - 1) /\ total \in Nat \ {0} /\ Zones \in SUBSET Nat
  /\ IsFiniteSet(Zones) /\ Cardinality(Zones) = total
  /\ Num \in Nat \ {0} /\ Queues = 0 .. (Num - 1)
  /\ \A z \in Zones : Index(z) \in Queues
<1>1. Zones = 0 .. (total - 1) /\ total \in Nat \ {0} /\ div \in Nat \ {0}
  BY ZonesAreNumbers, PoolAssumption
<1>2. \A z \in Zones : Index(z) \in Queues
  BY <1>1, QueuesSuffice
<1>3. Num \in Nat
  BY <1>1 DEF Num
<1>4. 0 \in Zones
  BY <1>1
<1>5. Num # 0
  BY <1>2, <1>3, <1>4 DEF Queues
<1>6. IsFiniteSet(0 .. (total - 1)) /\ Cardinality(0 .. (total - 1)) = total
  BY <1>1, Interval
<1> QED
  BY <1>1, <1>2, <1>3, <1>5, <1>6 DEF Queues

LEMMA RoundTrip ==
  ASSUME NEW n \in Nat \ {0}, NEW p \in 0 .. (n - 1), NEW q \in 0 .. (n - 1)
  PROVE  \E d \in 0 .. (n - 1) : (p + d) % n = q
<1>1. CASE p <= q
  <2>1. q - p \in 0 .. (n - 1) /\ p + (q - p) = q /\ q % n = q
    BY <1>1
  <2> QED
    BY <2>1
<1>2. CASE ~(p <= q)
  <2>1. (q - p) + n \in 0 .. (n - 1) /\ p + ((q - p) + n) = q + n /\ (q + n) % n = q
    BY <1>2
  <2> QED
    BY <2>1
<1> QED
  BY <1>1, <1>2

(* get finds a queue that holds a zone.                                    *)
LEMMA TurnFinds ==
  ASSUME NEW c, NEW S \in SUBSET Zones, Matches(c, S), S # {}
  PROVE  Turn(c) \in Queues /\ c.queues[Turn(c)] # <<>>
<1> DEFINE D == {d \in Queues : c.queues[(c.ptr + d) % Num] # <<>>}
<1>1. Num \in Nat \ {0} /\ Queues = 0 .. (Num - 1)
  BY ZonesOfPool
<1>2. PICK z \in S : Index(z) \in Queues
  BY ZonesOfPool
<1>3. c.queues[Index(z)] # <<>>
  BY <1>2, ListsCount DEF Matches, Held
<1>4. PICK d \in Queues : (c.ptr + d) % Num = Index(z)
  <2>1. PICK p \in 0 .. (Num - 1), q \in 0 .. (Num - 1) : p = c.ptr /\ q = Index(z)
    BY <1>1, <1>2 DEF Matches
  <2> QED
    BY <1>1, <2>1, RoundTrip
<1>5. D # {} /\ D \in SUBSET Nat
  BY <1>1, <1>3, <1>4
<1>6. Min(D) \in D
  <2> HIDE DEF D
  <2> QED
    BY <1>5, LeastNumber
<1>7. PICK x \in Nat : x = c.ptr + Min(D)
  <2>1. c.ptr \in Nat /\ Min(D) \in Nat
    BY <1>1, <1>6 DEF Matches
  <2> HIDE DEF D
  <2> QED
    BY <2>1
<1>8. (c.ptr + Min(D)) % Num \in Queues
  <2>1. x % Num \in 0 .. (Num - 1)
    BY <1>1
  <2> QED
    BY <1>1, <1>7, <2>1
<1> QED
  BY <1>6, <1>8 DEF Turn

LEMMA GetMatches ==
  ASSUME NEW c, NEW S \in SUBSET Zones, Matches(c, S), S # {}
  PROVE  Got(c) \in S /\ Matches(AfterGet(c), S \ {Got(c)})
<1>1. PICK t \in Queues : t = Turn(c) /\ c.queues[t] # <<>>
  BY TurnFinds
<1>2. PICK z : z = Got(c) /\ z = Head(c.queues[t])
  BY <1>1 DEF Got
<1>3. Num \in Nat \ {0} /\ Queues = 0 .. (Num - 1) /\ IsFiniteSet(S)
  BY ZonesOfPool, FS_Subset
<1>4. PICK s : s = c.queues[t] /\ Lists(s, Held(S, t)) /\ s # <<>> /\ z = Head(s)
  BY <1>1, <1>2 DEF Matches
<1>5. z \in Held(S, t) /\ Lists(Tail(s), Held(S, t) \ {z})
  BY ONLY <1>4, ListsTail
<1>6. z \in S /\ Index(z) = t
  BY <1>5 DEF Held
<1>7. PICK c2 : c2 = AfterGet(c) /\ c2 = [queues |-> [c.queues EXCEPT ![t] = Tail(s)], ptr |-> (t + 1) % Num, size |-> c.size - 1]
  BY <1>1, <1>4 DEF AfterGet
<1>8. c2.ptr \in Queues
  <2>1. (t + 1) % Num \in 0 .. (Num - 1)
    BY <1>3
  <2> QED
    BY <1>3, <1>7, <2>1
<1>9. c2.queues = [c.queues EXCEPT ![t] = Tail(s)] /\ DOMAIN c.queues = Queues
  BY <1>7 DEF Matches
<1>10. ASSUME NEW q \in Queues
       PROVE  Lists(c2.queues[q], Held(S \ {z}, q))
  <2>1. CASE q = t
    <3>1. Held(S \ {z}, q) = Held(S, t) \ {z}
      BY <2>1 DEF Held
    <3> QED
      BY <1>5, <1>9, <2>1, <3>1
  <2>2. CASE q # t
    <3>1. Held(S \ {z}, q) = Held(S, q)
      BY <1>6, <2>2 DEF Held
    <3> QED
      BY <1>9, <2>2, <3>1 DEF Matches
  <2> QED
    BY <2>1, <2>2
<1>12. c2.queues \in [Queues -> Seq(Nat)]
  <2>1. Tail(s) \in Seq(Nat) /\ c.queues \in [Queues -> Seq(Nat)]
    BY <1>5 DEF Lists, Matches
  <2> QED
    BY <1>9, <2>1
<1>11. c2.size = Cardinality(S \ {z})
  <2>1. Cardinality(S \ {z}) = Cardinality(S) - 1
    BY <1>3, <1>6, FS_RemoveElement
  <2> QED
    BY <1>7, <2>1 DEF Matches
<1> QED
  BY <1>2, <1>6, <1>7, <1>8, <1>10, <1>11, <1>12 DEF Matches

LEMMA PutMatches ==
  ASSUME NEW c, NEW S \in SUBSET Zones, Matches(c, S), NEW z \in Zones, z \notin S
  PROVE  Matches(AfterPut(c, z), S \cup {z})
<1>1. PICK t \in Queues : t = Index(z)
  BY ZonesOfPool
<1>2. PICK s : s = c.queues[t] /\ Lists(s, Held(S, t))
  BY DEF Matches
<1>3. z \in Nat /\ z \notin Held(S, t) /\ IsFiniteSet(S)
  BY ZonesOfPool, FS_Subset DEF Held
<1>4. Lists(Append(s, z), Held(S, t) \cup {z})
  BY ONLY <1>2, <1>3, ListsAppend
<1>5. PICK c2 : c2 = AfterPut(c, z) /\ c2 = [queues |-> [c.queues EXCEPT ![t] = Append(s, z)], ptr |-> c.ptr, size |-> c.size + 1]
  BY <1>1, <1>2 DEF AfterPut
<1>6. c2.queues = [c.queues EXCEPT ![t] = Append(s, z)] /\ DOMAIN c.queues = Queues /\ c2.ptr \in Queues
  BY <1>5 DEF Matches
<1>7. ASSUME NEW q \in Queues
      PROVE  Lists(c2.queues[q], Held(S \cup {z}, q))
  <2>1. CASE q = t
    <3>1. Held(S \cup {z}, q) = Held(S, t) \cup {z}
      BY <1>1, <2>1 DEF Held
    <3> QED
      BY <1>4, <1>6, <2>1, <3>1
  <2>2. CASE q # t
    <3>1. Held(S \cup {z}, q) = Held(S, q)
      BY <1>1, <2>2 DEF Held
    <3> QED
      BY <1>6, <2>2, <3>1 DEF Matches
  <2> QED
    BY <2>1, <2>2
<1>9. c2.queues \in [Queues -> Seq(Nat)]
  <2>1. Append(s, z) \in Seq(Nat) /\ c.queues \in [Queues -> Seq(Nat)]
    BY <1>4 DEF Lists, Matches
  <2> QED
    BY <1>6, <2>1
<1>8. c2.size = Cardinality(S \cup {z})
  <2>1. Cardinality(S \cup {z}) = Cardinality(S) + 1
    BY <1>3, FS_AddElement
  <2> QED
    BY <1>5, <2>1 DEF Matches
<1> QED
  BY <1>5, <1>6, <1>7, <1>8, <1>9 DEF Matches

-----------------------------------------------------------------------------
(* The constructor of the pool puts every zone into its queue.             *)
LEMMA ConstructedMatches == Matches(Constructed, Zones)
<1> DEFINE Blank == [q \in Queues |-> <<>>]
           Rows == [Queues -> Seq(Nat)]
           Put(rows, n) == [rows EXCEPT ![Index(n - 1)] = Append(@, n - 1)]
           Course(f) == f = [n \in 0 .. total |-> IF n = 0 THEN Blank ELSE Put(f[n - 1], n)]
           step == [n \in 1 .. total |-> [rows \in Rows |-> Put(rows, n)]]
<1>1. total \in Nat \ {0} /\ \A n \in 1 .. total : n - 1 \in 0 .. total /\ n - 1 \in Nat /\ n - 1 \in Zones /\ Index(n - 1) \in Queues
  BY ZonesOfPool
<1>2. Blank \in Rows
  OBVIOUS
<1>3. \A n \in 1 .. total : \A rows \in Rows : Put(rows, n) \in Rows
  <2> TAKE n \in 1 .. total
  <2> TAKE rows \in Rows
  <2>1. PICK z \in Nat, q \in Queues : z = n - 1 /\ q = Index(n - 1)
    BY <1>1
  <2>2. Append(rows[q], z) \in Seq(Nat)
    BY <2>1
  <2>3. [rows EXCEPT ![q] = Append(rows[q], z)] \in Rows
    BY <2>2
  <2> QED
    BY <2>1, <2>3
<1>4. AreSteps(step, total, Rows)
  <2> HIDE DEF Rows, Put
  <2> QED
    BY <1>3 DEF AreSteps
<1>5. PICK g : IsCourse(g, Blank, step, total, Rows)
  <2> HIDE DEF Blank, step, Rows
  <2> QED
    BY ONLY <1>1, <1>2, <1>4, LoopHasCourse
<1>6. Course(g)
  <2> HIDE DEF Rows, Put, Blank
  <2>1. g \in [0 .. total -> Rows] /\ g[0] = Blank /\ \A n \in 1 .. total : g[n] = step[n][g[n - 1]]
    BY <1>5 DEF IsCourse
  <2> HIDE DEF step
  <2>2. \A n \in 1 .. total : g[n - 1] \in Rows /\ g[n] = Put(g[n - 1], n)
    BY <1>1, <2>1 DEF step
  <2>3. \A n \in 0 .. total : n = 0 \/ n \in 1 .. total
    BY <1>1
  <2> QED
    BY ONLY <2>1, <2>2, <2>3
<1>7. PICK f : f = (CHOOSE h : Course(h)) /\ Course(f)
  <2> HIDE DEF Course
  <2> QED
    BY ONLY <1>6
<1>8. f[0] = Blank /\ \A n \in 1 .. total : f[n] = Put(f[n - 1], n)
  <2> HIDE DEF Put, Blank
  <2>1. 0 \in 0 .. total /\ \A n \in 1 .. total : n \in 0 .. total /\ n # 0
    BY <1>1
  <2> QED
    BY ONLY <1>7, <2>1
<1>9. Constructed = [queues |-> f[total], ptr |-> 0, size |-> total]
  BY <1>7 DEF Constructed
<1> HIDE DEF Course, step, Rows
<1> DEFINE Upto(n) == 0 .. (n - 1)
           Holds(n) == f[n] \in [Queues -> Seq(Nat)] /\ \A q \in Queues : Lists(f[n][q], Held(Upto(n), q))
           Bad == {n \in 0 .. total : ~Holds(n)}
<1>10. Bad = {}
  <2> SUFFICES ASSUME Bad # {} PROVE FALSE
    OBVIOUS
  <2>1. PICK m \in Bad : \A j \in Bad : m <= j
    <3>1. Bad \in SUBSET Nat
      BY <1>1
    <3> HIDE DEF Bad
    <3> QED
      BY <3>1, LeastElement
  <2>2. CASE m = 0
    <3>1. \A q \in Queues : Held(Upto(0), q) = {}
      BY DEF Held
    <3>2. Lists(<<>>, {})
      BY DEF Lists
    <3>3. f[0] \in [Queues -> Seq(Nat)]
      BY <1>2, <1>8 DEF Rows
    <3>4. Holds(0)
      BY <1>8, <3>1, <3>2, <3>3
    <3> QED
      BY <2>1, <2>2, <3>4
  <2>3. CASE m # 0
    <3>1. m \in 1 .. total
      BY <1>1, <2>1, <2>3
    <3>2. PICK k \in Nat : k = m - 1 /\ k \in 0 .. total /\ k \notin Bad /\ Index(k) \in Queues
      BY <1>1, <2>1, <3>1
    <3>3. Holds(k)
      BY <3>2
    <3>4. f[m] = [f[k] EXCEPT ![Index(k)] = Append(f[k][Index(k)], k)]
      BY <1>8, <3>1, <3>2
    <3>5. Upto(m) = Upto(k) \cup {k} /\ k \notin Upto(k)
      BY <3>1, <3>2
    <3> HIDE DEF Bad, Put, Upto
    <3>6. ASSUME NEW q \in Queues
          PROVE  Lists(f[m][q], Held(Upto(m), q))
      <4>1. PICK s : s = f[k][q] /\ Lists(s, Held(Upto(k), q))
        BY <3>3
      <4>2. CASE q = Index(k)
        <5>1. Held(Upto(m), q) = Held(Upto(k), q) \cup {k} /\ k \notin Held(Upto(k), q)
          BY <3>5, <4>2 DEF Held
        <5>2. Lists(Append(s, k), Held(Upto(k), q) \cup {k})
          BY ONLY <4>1, <5>1, k \in Nat, ListsAppend
        <5> QED
          BY <3>3, <3>4, <4>1, <4>2, <5>1, <5>2
      <4>3. CASE q # Index(k)
        <5>1. Held(Upto(m), q) = Held(Upto(k), q)
          BY <3>5, <4>3 DEF Held
        <5> QED
          BY <3>3, <3>4, <4>1, <4>3, <5>1
      <4> QED
        BY <4>2, <4>3
    <3>7. f[m] \in [Queues -> Seq(Nat)]
      <4>1. f[k] \in [Queues -> Seq(Nat)] /\ Append(f[k][Index(k)], k) \in Seq(Nat)
        BY <3>2, <3>3
      <4> QED
        BY <3>2, <3>4, <4>1
    <3>8. Holds(m)
      BY <3>6, <3>7
    <3> QED
      BY <2>1, <3>8 DEF Bad
  <2> QED
    BY <2>2, <2>3
<1>11. Holds(total)
  BY <1>1, <1>10
<1>12. Zones = Upto(total) /\ 0 \in Queues /\ Cardinality(Zones) = total
  BY ZonesOfPool
<1> HIDE DEF Holds
<1>13. PICK c : c = Constructed /\ c.queues = f[total] /\ c.ptr = 0 /\ c.size = total
  BY <1>9
<1> QED
  BY <1>11, <1>12, <1>13 DEF Matches, Holds

-----------------------------------------------------------------------------
(* The zones left in the pool after n calls of get; f[n] is the pool then. *)
Left(f, n) == Zones \ {Got(f[j]) : j \in 0 .. (n - 1)}

IsFull(c) == \E S \in SUBSET Zones : S # {} /\ Matches(c, S)

LEMMA OpeningMatches ==
  ASSUME NEW f, f[0] = Constructed,
         \A n \in 1 .. OpenZones : IsFull(f[n - 1]) => f[n] = AfterGet(f[n - 1])
  PROVE  \A n \in 0 .. OpenZones :
           Matches(f[n], Left(f, n)) /\ Cardinality(Left(f, n)) = total - n /\ Left(f, n) # {}
<1> DEFINE Holds(n) == Matches(f[n], Left(f, n)) /\ Cardinality(Left(f, n)) = total - n
           Bad == {n \in 0 .. OpenZones : ~Holds(n)}
<1>1. OpenZones \in Nat /\ OpenZones < total /\ total \in Nat
  BY ZonesOfPool, ConstantsAssumption
<1>2. \A n \in 0 .. OpenZones : Left(f, n) \in SUBSET Zones /\ (Cardinality(Left(f, n)) = total - n => Left(f, n) # {})
  BY <1>1, FS_EmptySet DEF Left
<1>3. Bad = {}
  <2> SUFFICES ASSUME Bad # {} PROVE FALSE
    OBVIOUS
  <2>1. PICK m \in Bad : \A j \in Bad : m <= j
    <3>1. Bad \in SUBSET Nat
      BY <1>1
    <3> HIDE DEF Bad
    <3> QED
      BY <3>1, LeastElement
  <2>2. CASE m = 0
    <3>1. Left(f, 0) = Zones
      BY DEF Left
    <3>2. Holds(0)
      BY <3>1, ConstructedMatches, ZonesOfPool
    <3> QED
      BY <2>1, <2>2, <3>2
  <2>3. CASE m # 0
    <3>1. PICK k \in Nat : k = m - 1 /\ k \in 0 .. OpenZones /\ k \notin Bad /\ m \in 1 .. OpenZones
      BY <1>1, <2>1, <2>3
    <3>2. Holds(k)
      BY <3>1
    <3>3. Left(f, k) \in SUBSET Zones /\ Left(f, k) # {}
      BY <1>2, <3>1, <3>2
    <3>4. IsFull(f[k])
      BY <3>2, <3>3 DEF IsFull
    <3>5. f[m] = AfterGet(f[k])
      BY <3>1, <3>4
    <3>6. Got(f[k]) \in Left(f, k) /\ Matches(f[m], Left(f, k) \ {Got(f[k])})
      <4> HIDE DEF Bad
      <4> QED
        BY ONLY <3>2, <3>3, <3>5, GetMatches
    <3>7. Left(f, m) = Left(f, k) \ {Got(f[k])}
      <4>1. 0 .. (m - 1) = (0 .. (k - 1)) \cup {k}
        BY <3>1
      <4> HIDE DEF Bad
      <4> QED
        BY ONLY <4>1 DEF Left
    <3>8. Cardinality(Left(f, m)) = total - m
      <4>1. IsFiniteSet(Left(f, k))
        BY <3>3, ZonesOfPool, FS_Subset
      <4>2. Cardinality(Left(f, k) \ {Got(f[k])}) = Cardinality(Left(f, k)) - 1
        BY <3>6, <4>1, FS_RemoveElement
      <4> QED
        BY <1>1, <3>1, <3>2, <3>7, <4>2
    <3> QED
      BY <2>1, <3>6, <3>7, <3>8
  <2> QED
    BY <2>2, <2>3
<1> QED
  BY <1>2, <1>3

(* The constructor of the store takes its open zones from the pool.        *)
LEMMA OpenedMatches == PooledInit => Matches(pool, empty_zone)
<1> SUFFICES ASSUME PooledInit PROVE Matches(pool, empty_zone)
  OBVIOUS
<1> DEFINE Course(f) == f = [n \in 0 .. OpenZones |-> IF n = 0 THEN Constructed ELSE AfterGet(f[n - 1])]
           Pools == [queues : [Queues -> Seq(Nat)], ptr : Queues, size : Nat]
           S == {c \in Pools : \E T \in SUBSET Zones : Matches(c, T)}
           step == [n \in 1 .. OpenZones |-> [c \in S |-> IF IsFull(c) THEN AfterGet(c) ELSE c]]
<1>1. OpenZones \in Nat /\ OpenZones > 0
  BY Constants
<1>2. Constructed \in S
  <2>1. Constructed = [queues |-> Constructed.queues, ptr |-> Constructed.ptr, size |-> Constructed.size]
    BY DEF Constructed
  <2>2. Matches(Constructed, Zones)
    BY ConstructedMatches
  <2>3. Constructed.queues \in [Queues -> Seq(Nat)] /\ Constructed.ptr \in Queues /\ Constructed.size \in Nat
    BY <2>2, ZonesOfPool DEF Matches
  <2>4. Constructed \in Pools
    BY <2>1, <2>3
  <2> QED
    BY <2>2, <2>4
<1>3. AreSteps(step, OpenZones, S)
  <2> SUFFICES ASSUME NEW c \in S, IsFull(c) PROVE AfterGet(c) \in S
    BY DEF AreSteps
  <2>1. PICK T \in SUBSET Zones : T # {} /\ Matches(c, T)
    BY DEF IsFull
  <2>2. Matches(AfterGet(c), T \ {Got(c)})
    BY <2>1, GetMatches
  <2>3. PICK d : d = AfterGet(c) /\ d = [queues |-> d.queues, ptr |-> d.ptr, size |-> d.size]
    <3>1. PICK a, b, n : AfterGet(c) = [queues |-> a, ptr |-> b, size |-> n]
      BY DEF AfterGet
    <3> QED
      BY <3>1
  <2>4. d.queues \in [Queues -> Seq(Nat)] /\ d.ptr \in Queues /\ d.size \in Nat
    <3>1. T \ {Got(c)} \in SUBSET Zones /\ IsFiniteSet(T \ {Got(c)})
      BY ZonesOfPool, FS_Subset
    <3>2. Cardinality(T \ {Got(c)}) \in Nat
      BY <3>1, FS_CardinalityType
    <3> QED
      BY <2>2, <2>3, <3>2 DEF Matches
  <2>5. d \in Pools
    BY <2>3, <2>4
  <2> QED
    BY <2>2, <2>3, <2>5
<1> HIDE DEF S
<1>4. PICK g : IsCourse(g, Constructed, step, OpenZones, S)
  <2> HIDE DEF step
  <2> QED
    BY ONLY <1>1, <1>2, <1>3, LoopHasCourse
<1>5. g \in [0 .. OpenZones -> S] /\ g[0] = Constructed
      /\ \A n \in 1 .. OpenZones : g[n] = IF IsFull(g[n - 1]) THEN AfterGet(g[n - 1]) ELSE g[n - 1]
  <2>1. g \in [0 .. OpenZones -> S] /\ g[0] = Constructed /\ \A n \in 1 .. OpenZones : g[n] = step[n][g[n - 1]]
    BY <1>4 DEF IsCourse
  <2>2. \A n \in 1 .. OpenZones : n - 1 \in 0 .. OpenZones
    BY <1>1
  <2> QED
    BY <2>1, <2>2
<1>6. \A n \in 0 .. OpenZones : Matches(g[n], Left(g, n)) /\ Left(g, n) # {}
  BY <1>5, OpeningMatches
<1>7. \A n \in 0 .. OpenZones : IsFull(g[n])
  <2>1. \A n \in 0 .. OpenZones : Left(g, n) \in SUBSET Zones
    BY DEF Left
  <2> QED
    BY <1>6, <2>1 DEF IsFull
<1>8. Course(g)
  <2>1. \A n \in 1 .. OpenZones : n - 1 \in 0 .. OpenZones
    BY <1>1
  <2>2. \A n \in 1 .. OpenZones : g[n] = AfterGet(g[n - 1])
    BY <1>5, <1>7, <2>1
  <2>3. \A n \in 0 .. OpenZones : n = 0 \/ n \in 1 .. OpenZones
    BY <1>1
  <2> QED
    BY ONLY <1>5, <2>2, <2>3
<1>9. PICK f : f = (CHOOSE h : Course(h)) /\ Course(f)
  <2> HIDE DEF Course
  <2> QED
    BY ONLY <1>8
<1>10. /\ f[0] = Constructed
       /\ \A n \in 1 .. OpenZones : f[n] = AfterGet(f[n - 1])
  <2>1. 0 \in 0 .. OpenZones /\ \A n \in 1 .. OpenZones : n \in 0 .. OpenZones /\ n # 0
    BY <1>1
  <2> QED
    BY ONLY <1>9, <2>1
<1>11. /\ open_zone = [i \in Streams |-> Got(f[i])] /\ pool = f[OpenZones]
       /\ empty_zone = Zones \ {open_zone[i] : i \in Streams}
  BY <1>9 DEF PooledInit, Init
<1>12. Matches(f[OpenZones], Left(f, OpenZones))
  BY <1>1, <1>10, OpeningMatches
<1>13. Left(f, OpenZones) = empty_zone
  BY <1>11 DEF Left, Streams
<1> QED
  BY <1>11, <1>12, <1>13

-----------------------------------------------------------------------------
(* A zone leaves the set of empty zones when get returns it, and joins it  *)
(* when put is given it.                                                   *)
LEMMA TakenMatches ==
  ASSUME TypeOK, Matches(pool, empty_zone), NEW z \in empty_zone, Taken(z),
         empty_zone' = empty_zone \ {z}
  PROVE  Matches(pool, empty_zone)'
<1>1. empty_zone \in SUBSET Zones /\ empty_zone # {} /\ z = Got(pool) /\ pool' = AfterGet(pool)
  BY DEF TypeOK, Taken
<1>2. Matches(AfterGet(pool), empty_zone \ {Got(pool)})
  BY <1>1, GetMatches
<1> QED
  BY <1>1, <1>2 DEF Matches

LEMMA ReturnedMatches ==
  ASSUME TypeOK, Matches(pool, empty_zone), NEW z \in Zones \ empty_zone, Returned(z),
         empty_zone' = empty_zone \cup {z}
  PROVE  Matches(pool, empty_zone)'
<1>1. empty_zone \in SUBSET Zones /\ pool' = AfterPut(pool, z)
  BY DEF TypeOK, Returned
<1>2. Matches(AfterPut(pool, z), empty_zone \cup {z})
  BY <1>1, PutMatches
<1> QED
  BY <1>1, <1>2 DEF Matches

LEMMA KeptMatches ==
  ASSUME Matches(pool, empty_zone), Kept, UNCHANGED empty_zone
  PROVE  Matches(pool, empty_zone)'
BY DEF Matches, Kept

(* The inductive invariant of the store with its pool.                     *)
PoolInv == IInv /\ Matches(pool, empty_zone)

LEMMA PooledIsNext == [PooledNext]_pvars => [Next]_vars
BY DEF PooledNext, PooledAppend, PooledReclaim, PooledClose, PooledWorker, Next, Reclaim, pvars

LEMMA PooledAppendMatches ==
  ASSUME PoolInv, PooledAppend
  PROVE  Matches(pool, empty_zone)'
<1>1. TypeOK /\ Matches(pool, empty_zone) /\ Opened \cap empty_zone = {}
  BY DEF PoolInv, IInv, ZonesAccounted
<1>2. AdvanceOpenZone(open_zone[which_zone]) /\ which_zone \in Streams /\ open_zone \in [Streams -> Zones]
  BY <1>1 DEF PooledAppend, AppendTable, TypeOK
<1>3. CASE UNCHANGED <<empty_zone, open_zone>>
  BY <1>1, <1>3, KeptMatches DEF PooledAppend
<1>4. ASSUME NEW n \in empty_zone, empty_zone' = empty_zone \ {n},
             open_zone' = [open_zone EXCEPT ![which_zone] = n]
      PROVE  Matches(pool, empty_zone)'
  <2>1. open_zone[which_zone] \in Opened
    BY <1>2 DEF Opened
  <2>2. open_zone'[which_zone] = n /\ open_zone' # open_zone
    BY <1>1, <1>2, <1>4, <2>1
  <2>3. Taken(n)
    BY <2>2 DEF PooledAppend
  <2> QED
    BY <1>1, <1>4, <2>3, TakenMatches
<1> QED
  BY <1>2, <1>3, <1>4 DEF AdvanceOpenZone

LEMMA PooledReclaimMatches ==
  ASSUME PoolInv, PooledReclaim
  PROVE  Matches(pool, empty_zone)'
<1>1. TypeOK /\ ZonesAccounted /\ MainThread /\ Matches(pool, empty_zone)
      /\ (victim # NoZone => victim \in full_zone)
  BY DEF PoolInv, IInv, RelocationAccounted
<1>2. ASSUME NEW z \in Zones, TryZone(z) \/ EvictForce(z), Kept
      PROVE  Matches(pool, empty_zone)'
  <2>1. UNCHANGED empty_zone
    BY <1>2 DEF TryZone, EvictForce, ResetSkip, ResetExit, ResetBegin, pools
  <2> QED
    BY <1>1, <1>2, <2>1, KeptMatches
<1>3. CASE (EvictTry \/ TryEnd \/ RelocateExit \/ RelocateMove) /\ Kept
  <2>1. UNCHANGED empty_zone
    BY <1>3 DEF EvictTry, BeginTry, TryEnd, RelocateExit, RelocateMove, pools
  <2> QED
    BY <1>1, <1>3, <2>1, KeptMatches
<1>4. CASE RelocateOpen /\ Taken(to_zone')
  <2>1. PICK z \in empty_zone : empty_zone' = empty_zone \ {z} /\ to_zone' = z
    BY <1>4 DEF RelocateOpen
  <2> QED
    BY <1>1, <1>4, <2>1, TakenMatches
<1>5. CASE PooledClose
  <2>1. to_zone \in Zones \ empty_zone
    BY <1>1, <1>5 DEF PooledClose, RelocateClose, TypeOK, ZonesAccounted
  <2>2. CASE empty_zone' = empty_zone \cup {to_zone}
    <3>1. Returned(to_zone)
      BY <1>5, <2>2 DEF PooledClose
    <3> QED
      BY <1>1, <2>1, <2>2, <3>1, ReturnedMatches
  <2>3. CASE UNCHANGED empty_zone
    <3>1. Kept
      BY <1>5, <2>1, <2>3 DEF PooledClose
    <3> QED
      BY <1>1, <2>3, <3>1, KeptMatches
  <2> QED
    BY <1>5, <2>2, <2>3 DEF PooledClose, RelocateClose
<1>6. CASE ResetEnd /\ Returned(victim)
  <2>1. victim # NoZone /\ empty_zone' = empty_zone \cup {victim}
    BY <1>1, <1>6 DEF ResetEnd, MainThread, RelocationCredits
  <2>2. victim \in Zones \ empty_zone
    BY <1>1, <2>1 DEF ZonesAccounted, TypeOK
  <2> QED
    BY <1>1, <1>6, <2>1, <2>2, ReturnedMatches
<1> QED
  BY <1>2, <1>3, <1>4, <1>5, <1>6 DEF PooledReclaim

LEMMA NextPoolInv == PoolInv /\ [PooledNext]_pvars => PoolInv'
<1> SUFFICES ASSUME PoolInv, [PooledNext]_pvars PROVE PoolInv'
  OBVIOUS
<1>1. IInv'
  <2>1. IInv /\ [Next]_vars
    BY PooledIsNext DEF PoolInv
  <2> QED
    BY <2>1, NextIInv
<1>2. Matches(pool, empty_zone)
  BY DEF PoolInv
<1>3. CASE (Client \/ Exited) /\ Kept
  <2>1. UNCHANGED empty_zone
    BY <1>3 DEF Client, TryReset, BeginTry, WriteTable, ReadTable, GetValue, DeleteTable, Compact,
                Exited, vars, pools
  <2> QED
    BY <1>1, <1>2, <1>3, <2>1, KeptMatches DEF PoolInv
<1>4. CASE PooledAppend
  BY <1>1, <1>4, PooledAppendMatches DEF PoolInv
<1>5. CASE PooledReclaim
  BY <1>1, <1>5, PooledReclaimMatches DEF PoolInv
<1>6. ASSUME NEW w \in Workers, PooledWorker(w)
      PROVE  PoolInv'
  <2>1. UNCHANGED empty_zone /\ Kept
    BY <1>6 DEF PooledWorker, Worker, BeginWrite, EndWrite, pools
  <2> QED
    BY <1>1, <1>2, <2>1, KeptMatches DEF PoolInv
<1>7. CASE UNCHANGED pvars
  <2>1. UNCHANGED empty_zone /\ Kept
    BY <1>7 DEF pvars, vars, pools, Kept
  <2> QED
    BY <1>1, <1>2, <2>1, KeptMatches DEF PoolInv
<1> QED
  BY <1>3, <1>4, <1>5, <1>6, <1>7 DEF PooledNext

LEMMA InitPoolInv == PooledInit => PoolInv
BY InitIInv, OpenedMatches DEF PooledInit, PoolInv

LEMMA PoolFromInv == PoolInv => PoolMatches
<1> SUFFICES ASSUME PoolInv PROVE PoolMatches
  OBVIOUS
<1>1. \A q \in Queues : Lists(pool.queues[q], Held(empty_zone, q)) /\ pool.size = Cardinality(empty_zone)
  BY DEF PoolInv, Matches
<1>2. \A q \in Queues : ToSet(pool.queues[q]) = Held(empty_zone, q) /\ Len(pool.queues[q]) = Cardinality(ToSet(pool.queues[q]))
  BY <1>1, ListsCount
<1>3. pool.size = Cardinality(empty_zone)
  BY DEF PoolInv, Matches
<1> QED
  BY <1>2, <1>3 DEF PoolMatches, Held

(* However get and put follow one another, through appends, relocations    *)
(* and resets, each queue of queue_cache holds the empty zones of its own  *)
(* index once each, and size counts them all: get is never called on an    *)
(* empty pool that claims to hold a zone, and never hands one out twice.   *)
THEOREM PoolHoldsEmptyZones == PooledSpec => []PoolMatches
BY InitPoolInv, NextPoolInv, PoolFromInv, PTL DEF PooledSpec

(* The pool only decides which zone is taken: the store with its pool is a *)
(* store, and every theorem about Spec above is one about PooledSpec.      *)
THEOREM PooledStoreIsAStore == PooledSpec => Spec
<1>1. PooledInit => Init
  BY DEF PooledInit
<1> QED
  BY <1>1, PooledIsNext, PTL DEF PooledSpec, Spec
=============================================================================
