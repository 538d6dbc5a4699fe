---------------------------- MODULE MemoryManager ----------------------------
(***************************************************************************)
(* The table store of include/utils.h and include/utils.cpp: class         *)
(* MemoryManager places the SSTables of the key-value store in the zones   *)
(* of a zoned SSD, appends them through one worker thread per open zone,   *)
(* and reclaims zones by moving their live tables elsewhere.               *)
(*                                                                         *)
(* The main thread runs one operation at a time; pc is its program counter *)
(* and the variables after it are its locals, so that the worker threads   *)
(* interleave with it wherever the code lets them.  Its caller is the      *)
(* key-value store, of which the order of the calls is kept: a compaction  *)
(* (LSM-Tree/kvstore.cc) reads all its tables, writes its outputs, then    *)
(* clears the tables.  A byte position of the device is a pair             *)
(* <<zone, slot>>, one slot being DEFAULT_SSTABLE_SIZE bytes; write        *)
(* pointers count slots.                                                   *)
(***************************************************************************)
EXTENDS Integers, FiniteSets, Sequences

CONSTANTS
  Zones,          \* the zones of the device (1024 in the code)
  Tables,         \* the names (level, num) of the tables of the key-value store
  TablesPerZone,  \* zone_cap / DEFAULT_SSTABLE_SIZE (8)
  OpenZones,      \* MAXIMUM_NUM_OF_OPEN_ZONE (16)
  MinEmpty,       \* least n with n / zone_num >= 0.05 (52): fewer is "too few empty zones"
  SparseTables,   \* greatest v with v / TablesPerZone < 0.2 (1)
  NoTable, NoZone, NoAddr

ASSUME ConstantsAssumption ==
  /\ IsFiniteSet(Zones)
  /\ TablesPerZone \in Nat \ {0}
  /\ OpenZones \in Nat \ {0}
  /\ MinEmpty \in Nat \ {0}
  /\ OpenZones + MinEmpty <= Cardinality(Zones)
  /\ SparseTables \in 0 .. (TablesPerZone - 1)
  /\ NoTable \notin Tables
  /\ NoZone \notin Zones
  /\ NoAddr \notin Zones \X (0 .. (TablesPerZone - 1))

Slots   == 0 .. (TablesPerZone - 1)
Addrs   == Zones \X Slots
Streams == 0 .. (OpenZones - 1)      \* the indices of open_zone
Workers == 1 .. OpenZones            \* the pool threads that ever get a task
Tasks   == [table : Tables, addr : Addrs]

VARIABLES
  write_ptr, valid_table_num, deleted_table,  \* zone_metas, field by field
  mappingTable, remappingTable,               \* table -> address, address -> table
  completeTable,                              \* the tables whose write has a future to wait for
  open_zone, which_zone, empty_zone, full_zone, reset_zone,
  tasks,                                      \* per worker: its queue, the task it runs at the head
  running,                                    \* the workers inside femu_write
  zone_wp,                                    \* the device's own write pointer of each zone
  zns_err,                                    \* has zns_check_zone_write reported an error
  pc, writing, todo, victim, rewrite, to_zone, to_slot,
  moved, prev,                                \* i and prev of resetZone: how many tables it has moved
  phase, sortTable, FileToRemove              \* of a compaction: what it has to read, and then to clear

metas   == <<write_ptr, valid_table_num, deleted_table>>
maps    == <<mappingTable, remappingTable>>
pools   == <<open_zone, which_zone, empty_zone, full_zone, reset_zone>>
threads == <<tasks, running>>
device  == <<zone_wp, zns_err>>
locals  == <<pc, writing, todo, victim, rewrite, to_zone, to_slot, moved, prev>>
compaction == <<phase, sortTable, FileToRemove>>
vars    == <<metas, maps, completeTable, pools, threads, device, locals, compaction>>

-----------------------------------------------------------------------------
(* utils.h, MemoryManager(): every zone is empty and the first OpenZones   *)
(* zones the pool hands out are opened.                                    *)
Init ==
  /\ write_ptr = [z \in Zones |-> 0]
  /\ valid_table_num = [z \in Zones |-> 0]
  /\ deleted_table = [z \in Zones |-> {}]
  /\ mappingTable = [t \in Tables |-> NoAddr]
  /\ remappingTable = [a \in Addrs |-> NoTable]
  /\ completeTable = {}
  /\ open_zone \in [Streams -> Zones]
  /\ \A i, j \in Streams : open_zone[i] = open_zone[j] => i = j
  /\ which_zone = 0
  /\ empty_zone = Zones \ {open_zone[i] : i \in Streams}
  /\ full_zone = {}
  /\ reset_zone = {}
  /\ tasks = [w \in Workers |-> <<>>]
  /\ running = {}
  /\ zone_wp = [z \in Zones |-> 0]
  /\ zns_err = FALSE
  /\ pc = "idle"
  /\ writing = NoTable
  /\ todo = {}
  /\ victim = NoZone
  /\ rewrite = {}
  /\ to_zone = NoZone
  /\ to_slot = 0
  /\ moved = 0
  /\ prev = 0
  /\ phase = "serve"
  /\ sortTable = {}
  /\ FileToRemove = {}

Pending == UNION {{tasks[w][i] : i \in DOMAIN tasks[w]} : w \in Workers}
Stored(t) == mappingTable[t] # NoAddr

(* The future of t is ready: its femu_write has run to the end.            *)
Ready(t) == \A k \in Pending : k.table # t

(* Mutation: reset and read do not wait for the writes.                    *)
AwaitNothing(S) == completeTable' = completeTable \ S
(* Before a table is read or moved its future, if it has one, is waited    *)
(* for and forgotten.                                                      *)
Await(S) ==
  /\ \A t \in S \cap completeTable : Ready(t)
  /\ completeTable' = completeTable \ S

(* Mutation: the old address keeps its entry of remappingTable.            *)
RebindAndKeep(t, old, new) ==
  /\ mappingTable' = [mappingTable EXCEPT ![t] = new]
  /\ remappingTable' = [a \in Addrs |-> IF a = new THEN t ELSE remappingTable[a]]

(* The two maps when table t leaves address old and takes address new.     *)
Rebind(t, old, new) ==
  /\ mappingTable' = [mappingTable EXCEPT ![t] = new]
  /\ remappingTable' = [a \in Addrs |-> IF a = new THEN t
                                        ELSE IF a = old THEN NoTable
                                        ELSE remappingTable[a]]

(* Mutations: too few are one fewer, or one more.                          *)
LowLate  == Cardinality(empty_zone) < MinEmpty - 1
LowEarly == Cardinality(empty_zone) <= MinEmpty
Low == Cardinality(empty_zone) < MinEmpty
(* Mutation: the zone is called full with a slot to spare.                 *)
FullEarly(z) == write_ptr[z] + 1 >= TablesPerZone
Full(z) == write_ptr[z] >= TablesPerZone

(* zns_check_zone_write, then zone->write_ptr += nlb, for one table.       *)
ZnsWrite(a) ==
  /\ zns_err' = (zns_err \/ zone_wp[a[1]] # a[2])
  /\ zone_wp' = [zone_wp EXCEPT ![a[1]] = @ + 1]

-----------------------------------------------------------------------------
(* writeTable, for a memtable that is flushed or an output of a compaction: *)
(* the call, the loop that evicts zones while too few are empty, and the   *)
(* append to the current open zone.                                        *)
WriteTable(t) ==
  /\ pc = "idle"
  /\ phase \in {"serve", "merge"}
  /\ ~Stored(t)
  /\ pc' = "write"
  /\ writing' = t
  /\ UNCHANGED <<metas, maps, completeTable, pools, threads, device,
                 todo, victim, rewrite, to_zone, to_slot, moved, prev, compaction>>

(* Mutations: the test for a full zone is off by one; the new open zone    *)
(* stays in the pool of empty ones.                                        *)
AdvanceOpenZoneLate(z) ==
  \/ write_ptr[z] + 1 <= TablesPerZone /\ UNCHANGED <<full_zone, empty_zone, open_zone>>
  \/ /\ write_ptr[z] + 1 > TablesPerZone
     /\ full_zone' = full_zone \cup {z}
     /\ \E n \in empty_zone :
          empty_zone' = empty_zone \ {n} /\ open_zone' = [open_zone EXCEPT ![which_zone] = n]
AdvanceOpenZoneKeep(z) ==
  \/ write_ptr[z] + 1 < TablesPerZone /\ UNCHANGED <<full_zone, empty_zone, open_zone>>
  \/ /\ write_ptr[z] + 1 >= TablesPerZone
     /\ full_zone' = full_zone \cup {z}
     /\ \E n \in empty_zone :
          UNCHANGED empty_zone /\ open_zone' = [open_zone EXCEPT ![which_zone] = n]

(* The zone that takes the place of open_zone[which_zone] once z is full.  *)
AdvanceOpenZone(z) ==
  \/ /\ write_ptr[z] + 1 < TablesPerZone
     /\ UNCHANGED <<full_zone, empty_zone, open_zone>>
  \/ /\ write_ptr[z] + 1 >= TablesPerZone
     /\ full_zone' = full_zone \cup {z}
     /\ \E n \in empty_zone :
          /\ empty_zone' = empty_zone \ {n}
          /\ open_zone' = [open_zone EXCEPT ![which_zone] = n]

NextStream == (which_zone + 1) % OpenZones
(* Mutation: the task goes to a thread with the shortest queue.            *)
IdlestWorker == CHOOSE w \in Workers : \A v \in Workers : Len(tasks[w]) <= Len(tasks[v])
NextWorker == NextStream + 1

AppendTable ==
  LET z == open_zone[which_zone]
      a == <<z, write_ptr[z]>>
  IN /\ pc = "write"
     /\ ~Low
     /\ AdvanceOpenZone(z)
     /\ write_ptr' = [write_ptr EXCEPT ![z] = @ + 1]
     /\ valid_table_num' = [valid_table_num EXCEPT ![z] = @ + 1]
     /\ which_zone' = NextStream
     /\ Rebind(writing, NoAddr, a)
     /\ completeTable' = completeTable \cup {writing}
     /\ tasks' = [tasks EXCEPT ![NextWorker] = Append(@, [table |-> writing, addr |-> a])]
     /\ pc' = "idle"
     /\ writing' = NoTable
     /\ UNCHANGED <<deleted_table, reset_zone, running, device,
                    todo, victim, rewrite, to_zone, to_slot, moved, prev, compaction>>

(* A compaction of the tables S: each is going to be read, and removed.    *)
Compact(S) ==
  /\ pc = "idle"
  /\ phase = "serve"
  /\ S # {}
  /\ \A t \in S : Stored(t)
  /\ phase' = "traverse"
  /\ sortTable' = S
  /\ FileToRemove' = S
  /\ UNCHANGED <<metas, maps, completeTable, pools, threads, device, locals>>

(* readTable, which compaction calls (traverse), and getValue wait for the *)
(* table's future before they read.                                        *)
ReadTable(t) ==
  /\ pc = "idle"
  /\ phase = "traverse"
  /\ t \in sortTable
  /\ Await({t})
  /\ sortTable' = sortTable \ {t}
  /\ phase' = IF sortTable' = {} THEN "merge" ELSE "traverse"
  /\ UNCHANGED <<metas, maps, pools, threads, device, locals, FileToRemove>>

GetValue(t) ==
  /\ pc = "idle"
  /\ phase = "serve"
  /\ Stored(t)
  /\ t \in completeTable
  /\ Await({t})
  /\ UNCHANGED <<metas, maps, pools, threads, device, locals, compaction>>

(* Mutation: compaction clears its tables while it reads them.             *)
ClearsEarly == phase # "serve"
Clears == phase \in {"merge", "clear"}

(* deleteTable, of a table compaction has merged.                          *)
DeleteTable(t) ==
  LET a == mappingTable[t]
  IN /\ pc = "idle"
     /\ Clears
     /\ t \in FileToRemove
     /\ Stored(t)
     /\ Rebind(t, a, NoAddr)
     /\ valid_table_num' = [valid_table_num EXCEPT ![a[1]] = @ - 1]
     /\ deleted_table' = [deleted_table EXCEPT ![a[1]] = @ \cup {a[2]}]
     /\ reset_zone' = IF Full(a[1]) THEN reset_zone \cup {a[1]} ELSE reset_zone
     /\ FileToRemove' = FileToRemove \ {t}
     /\ phase' = IF FileToRemove' = {} THEN "serve" ELSE "clear"
     /\ UNCHANGED <<write_ptr, completeTable, open_zone, which_zone, empty_zone,
                    full_zone, threads, device, locals, sortTable>>

-----------------------------------------------------------------------------
(* resetZone(z, force).  ResetSkip: the early returns; ResetExit: the      *)
(* exit when a forced victim holds only live tables; ResetBegin: the zone  *)
(* is going to be reset, once the writes of its live tables have finished. *)
Reclaimable(z, force) ==
  /\ Full(z)
  /\ valid_table_num[z] # TablesPerZone
  /\ valid_table_num[z] <= SparseTables \/ force

ResetSkip(z) ==
  /\ ~Reclaimable(z, FALSE)
  /\ todo' = todo \ {z}
  /\ UNCHANGED <<metas, maps, completeTable, pools, threads, device,
                 pc, writing, victim, rewrite, to_zone, to_slot, moved, prev, compaction>>

ResetExit(z) ==
  /\ Full(z)
  /\ valid_table_num[z] = TablesPerZone
  /\ pc' = "exited"
  /\ UNCHANGED <<metas, maps, completeTable, pools, threads, device,
                 writing, todo, victim, rewrite, to_zone, to_slot, moved, prev, compaction>>

(* Mutation: the gathering loop stops before the last slot.                *)
LiveSlotsButLast(z) ==
  IF valid_table_num[z] = 0 THEN {} ELSE (Slots \ {TablesPerZone - 1}) \ deleted_table[z]
(* The slots resetZone gathers in rewrite_table.                           *)
LiveSlots(z) == IF valid_table_num[z] = 0 THEN {} ELSE Slots \ deleted_table[z]

ResetBegin(z, force) ==
  /\ Reclaimable(z, force)
  /\ Await({remappingTable[<<z, i>>] : i \in LiveSlots(z)})
  /\ pc' = "reset"
  /\ victim' = z
  /\ rewrite' = LiveSlots(z)
  /\ moved' = 0
  /\ prev' = 0
  /\ UNCHANGED <<metas, maps, pools, threads, device,
                 writing, todo, to_zone, to_slot, compaction>>

(* The relocation loop: take a zone from the pool, fill it slot by slot,   *)
(* hand it back or declare it full.                                        *)
RelocateOpen ==
  /\ pc = "reset"
  /\ rewrite # {}
  /\ to_zone = NoZone
  /\ \E z \in empty_zone :
       /\ empty_zone' = empty_zone \ {z}
       /\ to_zone' = z
       /\ to_slot' = write_ptr[z]
  /\ UNCHANGED <<metas, maps, completeTable, open_zone, which_zone, full_zone, reset_zone,
                 threads, device, pc, writing, todo, victim, rewrite, moved, prev, compaction>>

RelocateExit ==
  /\ pc = "reset"
  /\ rewrite # {}
  /\ to_zone = NoZone
  /\ empty_zone = {}
  /\ pc' = "exited"
  /\ UNCHANGED <<metas, maps, completeTable, pools, threads, device,
                 writing, todo, victim, rewrite, to_zone, to_slot, moved, prev, compaction>>

RelocateMove ==
  /\ pc = "reset"
  /\ to_zone # NoZone
  /\ to_slot < TablesPerZone
  /\ \E i \in rewrite :
       /\ \A j \in rewrite : i <= j
       /\ Rebind(remappingTable[<<victim, i>>], <<victim, i>>, <<to_zone, to_slot>>)
       /\ ZnsWrite(<<to_zone, to_slot>>)
       /\ rewrite' = rewrite \ {i}
       /\ to_slot' = to_slot + 1
       /\ moved' = moved + 1
  /\ UNCHANGED <<metas, completeTable, pools, threads,
                 pc, writing, todo, victim, to_zone, prev, compaction>>

(* Mutation: the next zone is credited with the tables of this one too.    *)
NextPrevStays == prev
NextPrev == moved

RelocateClose ==
  LET end == write_ptr[to_zone] + (moved - prev)
  IN /\ pc = "reset"
     /\ to_zone # NoZone
     /\ rewrite = {} \/ to_slot = TablesPerZone
     /\ write_ptr' = [write_ptr EXCEPT ![to_zone] = end]
     /\ valid_table_num' = [valid_table_num EXCEPT ![to_zone] = @ + (moved - prev)]
     /\ \/ /\ end >= TablesPerZone
           /\ full_zone' = full_zone \cup {to_zone}
           /\ prev' = NextPrev
           /\ UNCHANGED empty_zone
        \/ /\ end < TablesPerZone
           /\ empty_zone' = empty_zone \cup {to_zone}
           /\ UNCHANGED <<full_zone, prev>>
     /\ to_zone' = NoZone
     /\ to_slot' = 0
     /\ UNCHANGED <<deleted_table, maps, completeTable, open_zone, which_zone, reset_zone,
                    threads, device, pc, writing, todo, victim, rewrite, moved, compaction>>

(* femu_reset, which a zone that is not FULL ignores, and the zone's return to the pool. *)
ResetEnd ==
  /\ pc = "reset"
  /\ rewrite = {}
  /\ to_zone = NoZone
  /\ zone_wp' = [zone_wp EXCEPT ![victim] = IF @ >= TablesPerZone THEN 0 ELSE @]
  /\ write_ptr' = [write_ptr EXCEPT ![victim] = 0]
  /\ valid_table_num' = [valid_table_num EXCEPT ![victim] = 0]
  /\ deleted_table' = [deleted_table EXCEPT ![victim] = {}]
  /\ empty_zone' = empty_zone \cup {victim}
  /\ full_zone' = full_zone \ {victim}
  /\ pc' = IF victim \in todo THEN "try" ELSE "write"
  /\ todo' = todo \ {victim}
  /\ victim' = NoZone
  /\ moved' = 0
  /\ prev' = 0
  /\ UNCHANGED <<maps, completeTable, open_zone, which_zone, reset_zone, threads,
                 zns_err, writing, rewrite, to_zone, to_slot, compaction>>

-----------------------------------------------------------------------------
(* tryReset, called by the store at the end of a compaction and by         *)
(* evictZone; evictZone itself.                                            *)
BeginTry ==
  /\ pc' = "try"
  /\ todo' = reset_zone
  /\ UNCHANGED <<metas, maps, completeTable, pools, threads, device,
                 writing, victim, rewrite, to_zone, to_slot, moved, prev, compaction>>

TryReset == pc = "idle" /\ phase = "serve" /\ BeginTry

TryZone(z) ==
  /\ pc = "try"
  /\ z \in todo
  /\ ResetSkip(z) \/ ResetBegin(z, FALSE)

(* Mutation: tryReset does not clear the queue of zones.                   *)
TryEndKeepsQueue ==
  /\ pc = "try"
  /\ todo = {}
  /\ pc' = IF writing = NoTable THEN "idle" ELSE "write"
  /\ UNCHANGED <<metas, maps, completeTable, pools, threads, device,
                 writing, todo, victim, rewrite, to_zone, to_slot, moved, prev, compaction>>

TryEnd ==
  /\ pc = "try"
  /\ todo = {}
  /\ reset_zone' = {}
  /\ pc' = IF writing = NoTable THEN "idle" ELSE "write"
  /\ UNCHANGED <<metas, maps, completeTable, open_zone, which_zone, empty_zone, full_zone,
                 threads, device, writing, todo, victim, rewrite, to_zone, to_slot,
                 moved, prev, compaction>>

EvictTry == pc = "write" /\ Low /\ reset_zone # {} /\ BeginTry

EvictForce(z) ==
  /\ pc = "write"
  /\ Low
  /\ reset_zone = {}
  /\ z \in full_zone
  /\ \A y \in full_zone : valid_table_num[z] <= valid_table_num[y]
  /\ ResetExit(z) \/ ResetBegin(z, TRUE)

-----------------------------------------------------------------------------
(* A worker of the pool runs the femu_write at the head of its queue.      *)
BeginWrite(w) ==
  /\ pc # "exited"
  /\ w \notin running
  /\ tasks[w] # <<>>
  /\ running' = running \cup {w}
  /\ UNCHANGED <<metas, maps, completeTable, pools, tasks, device, locals, compaction>>

EndWrite(w) ==
  /\ pc # "exited"
  /\ w \in running
  /\ ZnsWrite(Head(tasks[w]).addr)
  /\ tasks' = [tasks EXCEPT ![w] = Tail(@)]
  /\ running' = running \ {w}
  /\ UNCHANGED <<metas, maps, completeTable, pools, locals, compaction>>

Exited == pc = "exited" /\ UNCHANGED vars

Client ==
  \/ \E t \in Tables : WriteTable(t) \/ ReadTable(t) \/ GetValue(t) \/ DeleteTable(t)
  \/ \E S \in SUBSET Tables : Compact(S)
  \/ TryReset

Reclaim ==
  \/ \E z \in Zones : TryZone(z) \/ EvictForce(z)
  \/ EvictTry
  \/ TryEnd
  \/ RelocateOpen
  \/ RelocateExit
  \/ RelocateMove
  \/ RelocateClose
  \/ ResetEnd

Worker(w) == BeginWrite(w) \/ EndWrite(w)

Next ==
  \/ Client
  \/ AppendTable
  \/ Reclaim
  \/ \E w \in Workers : Worker(w)
  \/ Exited

Spec == Init /\ [][Next]_vars

(* The main thread runs the operation it has begun and every worker drains *)
(* its queue; nothing obliges the store to call an operation.              *)
Fairness ==
  /\ WF_vars(AppendTable \/ Reclaim)
  /\ \A w \in Workers : WF_vars(Worker(w))

FairSpec == Spec /\ Fairness
-----------------------------------------------------------------------------
(***************************************************************************)
(* Properties.                                                             *)
(***************************************************************************)
TypeOK ==
  /\ write_ptr \in [Zones -> 0 .. TablesPerZone]
  /\ valid_table_num \in [Zones -> 0 .. TablesPerZone]
  /\ deleted_table \in [Zones -> SUBSET Slots]
  /\ mappingTable \in [Tables -> Addrs \cup {NoAddr}]
  /\ remappingTable \in [Addrs -> Tables \cup {NoTable}]
  /\ completeTable \in SUBSET Tables
  /\ open_zone \in [Streams -> Zones]
  /\ which_zone \in Streams
  /\ empty_zone \in SUBSET Zones
  /\ full_zone \in SUBSET Zones
  /\ reset_zone \in SUBSET Zones
  /\ tasks \in [Workers -> Seq(Tasks)]
  /\ running \in SUBSET Workers
  /\ zone_wp \in [Zones -> Nat]
  /\ zns_err \in BOOLEAN
  /\ pc \in {"idle", "write", "try", "reset", "exited"}
  /\ writing \in Tables \cup {NoTable}
  /\ todo \in SUBSET Zones
  /\ victim \in Zones \cup {NoZone}
  /\ rewrite \in SUBSET Slots
  /\ to_zone \in Zones \cup {NoZone}
  /\ to_slot \in 0 .. TablesPerZone
  /\ moved \in Nat
  /\ prev \in Nat
  /\ phase \in {"serve", "traverse", "merge", "clear"}
  /\ sortTable \in SUBSET Tables
  /\ FileToRemove \in SUBSET Tables

Opened == {open_zone[i] : i \in Streams}

(* Every zone is in exactly one place: open for appending, in the pool of  *)
(* empty zones, full, or in the hands of the relocation loop; and the full *)
(* ones are exactly those whose write pointer is at the end.               *)
ZonesAccounted ==
  /\ \A i, j \in Streams : open_zone[i] = open_zone[j] => i = j
  /\ Opened \cap empty_zone = {}
  /\ (Opened \cup empty_zone) \cap full_zone = {}
  /\ to_zone \notin Opened \cup empty_zone \cup full_zone
  /\ Zones = Opened \cup empty_zone \cup full_zone \cup ({to_zone} \ {NoZone})
  /\ full_zone = {z \in Zones : Full(z)}

(* A zone queued for reset, or in the copy of that queue tryReset walks,   *)
(* is full: resetZone never meets "The full zone is not in the full queue".*)
ResetQueueIsFull ==
  IF pc \in {"idle", "write"} THEN reset_zone \subseteq full_zone ELSE todo \subseteq full_zone

(* mappingTable and remappingTable are inverse to each other.              *)
MapsInverse ==
  /\ \A t \in Tables : Stored(t) => remappingTable[mappingTable[t]] = t
  /\ \A a \in Addrs : remappingTable[a] # NoTable => mappingTable[remappingTable[a]] = a

Occupied(z) == {i \in Slots : remappingTable[<<z, i>>] # NoTable}

(* The books of a zone that is not being relocated agree with the map:     *)
(* valid_table_num counts its live tables, and every slot that was written *)
(* holds a live table or is listed in deleted_table (so that "Read valid   *)
(* table wrong" is never reported).                                        *)
SlotsAccounted ==
  \A z \in Zones \ {victim, to_zone} :
    /\ valid_table_num[z] = Cardinality(Occupied(z))
    /\ Occupied(z) = {i \in Slots : i < write_ptr[z]} \ deleted_table[z]

(* The same books while the relocation loop has a zone's slots in its      *)
(* hands.                                                                  *)
Used(z) == IF z = to_zone THEN to_slot ELSE write_ptr[z]

RelocationAccounted ==
  /\ \A z \in Zones : \A i \in deleted_table[z] : i < write_ptr[z]
  /\ \A z \in Zones \ {victim} :
       /\ Occupied(z) = {i \in Slots : i < Used(z)} \ deleted_table[z]
       /\ valid_table_num[z] + (Used(z) - write_ptr[z]) = Cardinality(Occupied(z))
  /\ victim # NoZone => victim \in full_zone /\ Occupied(victim) = rewrite
  /\ to_zone # NoZone => write_ptr[to_zone] <= to_slot

(* The relocation loop credits each target with i - prev tables: those it  *)
(* has put there, and of none that went to a target before it.             *)
RelocationCredits ==
  /\ to_zone # NoZone => to_slot = write_ptr[to_zone] + (moved - prev)
  /\ to_zone = NoZone /\ rewrite # {} => moved = prev

(* What the main thread's locals mean at each position: with the types,    *)
(* the pools, the maps and the books it is inductive.                      *)
MainThread ==
  /\ pc \in {"idle", "write", "try"} => victim = NoZone /\ rewrite = {}
  /\ pc # "reset" => to_zone = NoZone
  /\ pc = "reset" => victim # NoZone
  /\ pc \in {"idle", "write"} => todo = {}
  /\ pc = "reset" /\ victim \notin todo => todo = {} /\ reset_zone = {} /\ writing # NoTable
  /\ pc = "write" => writing # NoTable
  /\ pc = "idle" => writing = NoTable
  /\ writing # NoTable => ~Stored(writing)
  /\ \A w \in running : tasks[w] # <<>>
  /\ RelocationCredits

(* The device never reports a write that is out of order, past the end of  *)
(* a zone, or to a full zone, although worker threads and the relocation   *)
(* loop of the main thread write to it concurrently.                       *)
NoZnsError == ~zns_err

(* A table whose future has been taken, or would be without waiting, is on *)
(* the device where the map says it is: readTable, getValue and resetZone  *)
(* read no slot that is still unwritten.  (The page after the slot, which  *)
(* getValue may read with it, is a matter of PageCache.)                   *)
ReadsHitWrittenSlots ==
  \A t \in Tables : Stored(t) /\ (t \notin completeTable \/ Ready(t)) =>
    mappingTable[t][2] < zone_wp[mappingTable[t][1]]

(* The assertion at the head of deleteTable never fails: no table that     *)
(* compaction may clear has a future left, since it has read them all, and *)
(* none of them is written again before.                                   *)
DeleteAssertion == Clears => FileToRemove \cap completeTable = {}

(* Two threads are never inside the device code of one zone: each running  *)
(* femu_write has its zone to itself, and the zone is neither a target of  *)
(* relocation nor the one being reset.                                     *)
ZoneOf(w) == Head(tasks[w]).addr[1]
NoZoneRace ==
  \A w \in running :
    /\ \A v \in running : ZoneOf(v) = ZoneOf(w) => v = w
    /\ ZoneOf(w) \notin empty_zone \cup {to_zone, victim}

(* If eviction starts while a zone's worth of empty zones is still left,   *)
(* relocation never meets "data size is more than ssd capacity".           *)
RelocationHasRoom ==
  MinEmpty >= TablesPerZone =>
    ~(pc = "reset" /\ rewrite # {} /\ to_zone = NoZone /\ empty_zone = {})

(* evictZone finds a full zone to evict (it dereferences full_zone.begin()). *)
EvictHasVictim == pc = "write" /\ Low => full_zone # {}

(* A call of writeTable returns, unless the store is found to be full: the *)
(* eviction loop makes progress and the futures it waits for are resolved. *)
WriteReturns == pc = "write" ~> pc \in {"idle", "exited"}

(* To its users the store is a space of slots: however appends, workers,   *)
(* relocation and resets interleave, each of their steps is one that       *)
(* TableSpace allows.  In particular no table is moved or deleted before   *)
(* it is on the device, and no zone is erased under a table.               *)
Space == INSTANCE TableSpace WITH
  place <- mappingTable, used <- [z \in Zones |-> Used(z)], written <- zone_wp
ImplementsTableSpace == Space!Spec
=============================================================================
