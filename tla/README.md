# A verification project for the LSM store on a ZNS SSD simulator

`src/` is a key-value store (a log-structured merge tree, C++) that keeps its
SSTables on a simulated SSD with zoned namespaces (C, derived from FEMU). The
modules here describe the store, the manager of its tables, the threads that
write them and the layout of the zones on the flash. TLC checks the modules on
small instances; TLAPS proves the safety of every part, and the refinements
between them, for every value of their constants.

## The system

| Part | Source | State | Operations | Talks to |
|---|---|---|---|---|
| LSM tree, `KVStore` | `LSM-Tree/kvstore.cc` | memtable, one set of tables per level, one counter per level | `put`, `get`, `del`, `compactionForLevel` | calls `SkipList`, `Table`, `MemoryManager` |
| Memtable, `SkipList` | `LSM-Tree/SkipList.cpp` | towers of nodes, size, key bounds, `memory`, timestamp | `get`, `put`, `clear` | owned by `KVStore` |
| SSTable, `Table` | `LSM-Tree/Table.cpp` | metadata, Bloom filter, offsets, the pairs themselves | two constructors, `getValue`, `traverse`, `clear` | calls `MemoryManager` |
| Table store, `MemoryManager` | `include/utils.{h,cpp}` | maps table <-> address, futures of pending writes, zone metadata, open, empty, full and to-be-reset zones | `writeTable`, `readTable`, `getValue`, `deleteTable`, `tryReset`, `evictZone`, `resetZone` | enqueues writes to `ThreadPool`; calls the device itself for reads, relocation and resets |
| Page cache, `LRUCache` | `include/cache.h` | list and map of page numbers | `get`, `put`, `del` | used by `getValue` and `deleteTable` |
| Pool of empty zones, `queue_cache` | `include/cache.h` | a queue per die group, a rotating pointer | `get`, `put`, `getsize` | used by `MemoryManager` |
| Writer threads, `ThreadPool` | `include/threadPool.h` | queue, mutex and condition variable per thread | `enqueue`, worker loop, destructor | runs `femu_write` |
| Reader threads, `ReadPool` | `readThreadPool.h` | one queue, mutex, condition variable | the same | created by the test driver, never given a task |
| Device interface | `femu/femu.c` | request counter | `femu_read`, `femu_write`, `femu_reset` | calls the FTL, then busy-waits for the latency |
| Zone layout, ZNS FTL | `femu/ftl.c` | per zone: write pointer, state, physical write pointer; per lun: when it is free | `zns_write`, `zns_read`, `zns_reset` | - |

One thread, the caller's, runs the tree and the table store. A full memtable
becomes a table: `writeTable` gives it an address in an open zone, notes a
future and returns; the write itself is a task of the thread of that open zone.
Whoever needs the table later waits for the future. When few zones are empty
`writeTable` first evicts one: its live tables are moved elsewhere by the
calling thread, which writes to the device while the other threads do, and the
zone is reset. The device checks that writes come at the zone's write pointer
but only reports an error; what order they come in is the business of the
threads and of the round-robin of open zones.

### What is hard

* **Concurrency.** Writer threads against relocation and reset; the condition
  variables of both pools; the time a lun is free, updated without a lock.
* **Ordering.** Writes to a zone must reach the device in address order
  although they are made by several threads; reads and resets must come after
  the writes they depend on; a merge must prefer the newer of two equal keys.
* **Long legal sequences.** Zones pass through four containers, tables through
  levels, numbers are reused, deletion marks are dropped at the bottom.
* **Stale state.** The page cache is keyed by device pages, which change hands
  when tables are deleted, relocated and zones reused.
* **Boundaries.** 5 % and 20 % thresholds, full zones, `size_t` arithmetic on
  sizes, key bounds after `clear`, pages shared by neighbouring slots, the end
  of a slot, the walk of a write pointer over channels, blocks and pages.

There is no crash recovery: nothing is persistent and the store starts empty.
`PROJECT.json` lists each hazard at its line with the properties that cover it.

### What makes each part correct

* Table store: no zone is lost or held twice; the two maps are inverse; the
  counters agree with the maps; the device sees no out-of-order write; a reset
  erases nothing that is live; reads address slots that have been written;
  eviction has a victim, room and an end.
* LSM tree: `get` returns what was last put; ranges of a level are disjoint;
  deeper means older; levels stay within bounds; the tree and the table store
  agree on which tables exist.
* Memtable and tables: all nodes of a tower agree; the flushed table has every
  pair, finds it, and reads nothing outside its slot; a merge keeps the newest
  pair of every key and loses none.
* Page cache: list and map agree; a page is cached only if it was read for the
  table that is there.
* Pool of empty zones: the queues hold each empty zone once, and are counted.
* Thread pools: no wakeup is lost; tasks run once and in order; the destructor
  runs what is queued and returns.
* Zone layout: reads find what writes put; zones are disjoint; a reset erases
  exactly its zone.

## Modules

| Module | Models | EXTENDS / INSTANCE |
|---|---|---|
| `TableSpace` | what the table store promises: slots, moves, erasures | |
| `MemoryManager` | `include/utils.{h,cpp}`, with the threads and the device as far as the table store sees them | instantiates `TableSpace`, which it implements |
| `MemoryManagerProofs` | theorems: its books, the order of device writes, the refinement of `TableSpace`, the room of relocation, the pool of empty zones | `PooledStore`, `Induction` |
| `QueueCache` | `queue_cache` of `include/cache.h`, as operators on a record | |
| `PooledStore` | the table store with its pool of empty zones | `MemoryManager`, `QueueCache` |
| `PageCache` | `LRUCache` of `include/cache.h`, `getValue`, `deleteTable` | `TableSpace` |
| `PageCacheProofs` | theorems: what may be cached, and for whom | `PageCache`, `Induction` |
| `TableSizes` | the sizes that several modules count with | |
| `Memtable` | the memtable as `KVStore` sees it, and `put`'s account of its size | `TableSizes` |
| `SkipList` | `LSM-Tree/SkipList.cpp` | `Compaction`, `TableLayout`; instantiates `Memtable`, which it implements |
| `SkipListProofs` | theorems: the towers, the refinement of `Memtable`, the room and the reads of tables | `SkipList`, `Induction` |
| `Packing` | pairs in key order, and how they fill tables | |
| `TableLayout` | `LSM-Tree/Table.cpp`: constructors, `search`, `getValue`, `traverse` | `TableSizes`, `Packing` |
| `Compaction` | what a compaction computes: `Merge`, `DropDeleted`, `Split` | `TableSizes`, `Packing` |
| `CompactionMerge` | the loops of `compactionForLevel` and `update` | `Compaction`, whose operators they compute |
| `CompactionMergeProofs` | theorems: the loops compute the operators | `CompactionMerge`, `Induction` |
| `KVStore` | `LSM-Tree/kvstore.cc` | `Compaction`, `Memtable`; instantiates `KeyValueMap`, which it implements |
| `KeyValueMap` | what a key-value store promises | |
| `KVStoreProofs` | theorems: what `Merge` and `Split` return, the shape of the tree, and that the store is a map | `KVStore`, `Induction` |
| `ThreadPool` | `include/threadPool.h` and `readThreadPool.h` | instantiates `TaskQueues`, which it implements |
| `ThreadPoolProofs` | theorems: no wakeup is lost, the destructor drains, a pool is its queues | `ThreadPool`, `TLAPS` |
| `TaskQueues` | what a pool promises | |
| `Ftl` | `femu/ftl.c` | |
| `FtlProofs` | theorems: where pages lie, and that reads find them | `Ftl`, `Induction` |
| `Induction` | lemmas: least elements and loops, which the proofs of recursive functions rest on; rows in key order, packing, sums, division | `Packing`, `WellFoundedInduction`, `TLAPS` |
| `MC...` | constants for TLC | each its module |

The abstract modules are the joints. `KVStore` stands on `Memtable`, `Merge`
and `Split`, which `SkipList` and `CompactionMerge` are shown to provide;
`PageCache` stands on `TableSpace`, which `MemoryManager` is shown to provide;
`MemoryManager` stands on workers that are task queues, which `ThreadPool` is
shown to provide.

### MemoryManager

The state is that of the class, field by field: `zone_metas` is three
functions (`write_ptr`, `valid_table_num`, `deleted_table`), the containers are
sets, a table's name stands for its `(level, num)`. Addresses are pairs of a
zone and a slot of `DEFAULT_SSTABLE_SIZE` bytes, which is the unit of every
write and of every change to a write pointer. `empty_zone` is a set and `get`
may return any member: the rotation of `queue_cache` is one of those choices,
as `PooledStore` shows.

`pc`, `writing`, `todo`, `victim`, `rewrite`, `to_zone`, `to_slot`, `moved` and
`prev` are the main thread's position and locals; the last two are `i` and `prev`
of `resetZone`, whose difference is what each zone relocation fills is credited
with. Where the code calls the device, or waits
for a future, a step ends, so that workers interleave: `writeTable` is
`WriteTable`, then the eviction loop (`EvictTry`, `EvictForce` and the steps of
`resetZone`), then `AppendTable`; `resetZone` is `ResetSkip`, `ResetExit` or
`ResetBegin`, the relocation `RelocateOpen`, `RelocateMove`, `RelocateClose` (or
`RelocateExit`), and `ResetEnd`. The two calls of `exit` lead to `pc =
"exited"`. `tryReset` walks a copy of the queue of zones (`todo`) because the
order in which an `unordered_set` is walked is not known. In a worker's queue
the head is the task it is running once the worker is in `running`; the pool
runs one task of a queue at a time, in order (that it does is what
`ThreadPool` shows). `zone_wp` and `zns_err` are the device's write pointer and
whether `zns_check_zone_write` has complained.

`completeTable` has an entry for every table whose future has not been taken.
The caller is the tree, and of `compactionForLevel` the order of its calls is kept:
`phase`, `sortTable` and `FileToRemove` are its position and what it has still to
read and to clear. `Compact(S)` picks the tables, each is read (`ReadTable`), then
outputs are written (`WriteTable`), then each is cleared (`DeleteTable`, as long as
`Clears` holds). That a deleted table has no future left, which `deleteTable` asserts, is not
a guard but what `DeleteAssertion` derives from that order; if the tables were cleared
as they are read (`ClearsEarly`) it fails.

`ReadsHitWrittenSlots` is about every read: of a table whose future has
been taken, which is read without a wait, and of one whose future is ready, which
is read after it. If the wait is left out (`AwaitNothing`) it fails.

`ImplementsTableSpace` is the refinement of `TableSpace`: a table is placed in
the next slot of some zone, becomes durable when the device has written it, may
move only when it is durable and its zone full, and a zone is erased only when
it is full, written and without tables. Steps that touch only queues, locals or
counters stutter.

### QueueCache and PooledStore

`queue_cache` is a record of its queues, `ptr` and `size`; `get` is split into
the queue it stops at (`Turn`), the zone (`Got`) and the pool left behind
(`AfterGet`). `PooledStore` conjoins each step of `MemoryManager` with what it
does to the pool: a step that takes a zone takes the one `get` returns, one
that gives back `to_zone` or the victim puts it in its queue. Its behaviours are
behaviours of `MemoryManager` by construction; `PoolMatches` says that the
queues never disagree with the set.

### PageCache

`cache` is the list, `map` the keys of the hash map; `Iterator` is what the map
holds for a key, the place of its node in the list. `VisitAll` and `DelAll` are
the loops over pages, recursive functions of the number of turns. `GetValue(t, l, r)` is the
whole call for a value on the pages `l` to `r` of the table, both loops and the
batches they collect; `r` may be the page after the slot, because the code
divides the end of the value, not its last byte. `Pages` are the pages of the device,
which the page after its last slot is not: a call that has to read that
page is `GetValueAborts`, the failed assertion of `zns_get_zone_by_lba`, and ends
the program (`aborted`). `DeleteTable` clears the slot and the page after it. `readFor` and `astray` are history: for which table a cached page
was read, and whether the table has moved since. A table starts with
`HeaderPages` pages of metadata and filter (64 pages: `InitialSize` is 1 MiB and
28 bytes) on which no value lies; this is why the shared page does no harm.

### SkipList and TableLayout

`levels` is the sequence of lists, top first, each a function from the keys of
its nodes to their values; `down` leads to the same key one level below, and
`Path` is the search that collects the nodes at which `put` goes down. A head
node's key is `UINT64_MAX`, as in the code. The tosses of a coin are a choice of
height. `Keep`, `Flush` and `InsertLate` are the parts of `KVStore::put` before
and after the flush, with the `size_t` arithmetic on `memory`.

`TableLayout` gives a table its bounds, filter bits and index. `FromMemtable`
moves each value and then takes its size, which is 0, as the code does;
`FromPairs` takes the size first. `Search` is the binary search, a recursive
function of the window that is left. Two facts about
the real constants enter as `SkipListAssumption`: no string is empty, and 64 MiB
have room for the index of as many pairs as `memory` admits, although it may
miss the bytes of one more, of any size. With the real constants the second
holds for values up to about 4 MB (a list of one-byte values could
outgrow the slot if a larger one were lost from `memory`); no caller in
the repository comes near.

### Compaction and CompactionMerge

`Merge` takes the newest pair of each key, `Split` cuts the result where the
next pair would not fit: `Opens` are the keys that start a table, by the bytes filled
up to the pair before (`Packing!Fill`), and the `i`-th table has the keys with `i` of those at or
below them. `CompactionMerge` is the code that does it: `Read` pops
the tables from the priority queue, `Heads` places the first iterators, `Emit`
is a turn of the loop over `minKey`, and the four `Update` actions are the four
ways through `update`, whose recursion and loop are both a change of `index` or
`iter`. An iterator that was never assigned is 0.

### KVStore

The memtable is that of `Memtable`; a level is a set of tables, a table its timestamp, number, key
range and pairs. A put that fits is one step; one that flushes is `PutFlush`,
one `Compact` per level, `CompactEnd` and `FinishPut`. `Compact` is a whole call
of `compactionForLevel` up to its recursive call: the choice of inputs, the
merge, the split into tables of bounded size (`NewTables`), the removal of the inputs, and
the numbers of the tables written and deleted at the `MemoryManager` (`files`).
When two inputs are equally old the merge order depends on the heap; `late`
ranges over the outcomes. `Emplace` keeps the rule of `std::set`: of two
tables that compare equal the first stays.

`db` and `tied` are history: what was last put, and whether a compaction has
ever merged equally old tables of two levels (the bug below).

### ThreadPool

Both pools are one module: `QueueOf` gives each thread its queue, one of its own
in `ThreadPool` and the same for all in `ReadPool`. Threads of different queues
share nothing but `stop`, so the instance has a queue of each kind. A step is the code between two
operations on shared state; a wait is a test (`Take`, `Return`, `Doze`), the
release of the mutex that puts the thread to sleep (`Sleep`) and the lock on
waking, and sleepers may wake spuriously. `enqueue` is the push under the mutex
and the `notify_one` after it; the destructor is `Stop`, one `NotifyAll` per
condition and `Join`.

### Ftl

The write pointer of each zone walks the channels of its group, the blocks of
the zone and the pages of the blocks. `NextPage` is that walk, which the code
has twice, `LocatePage` the closed form that reads start from, `ErasedBlks` and
`ErasedChs` the loops of `zns_reset`. `flash` says what each page would hold on a
device that programs and erases exactly the pages the code touches.

## Runs

`Zones`, `Tables`, thread and task names are model values. Every bound is in
the `.cfg`.

| Run | Question | Bounds | Distinct states |
|---|---|---|---|
| `store` | Do the invariants of the table store hold in every interleaving of two writer threads, compaction, eviction and relocation, and does it implement `TableSpace`? | 4 zones of 3 slots, 4 tables, 2 open zones, eviction below 2 empty zones; symmetric in zones and tables | 703 thousand |
| `store_progress` | With the real pool of zones: do its queues match the empty zones, does relocation find room, and does `writeTable` return? | 3 zones of 2 slots, 4 tables, 1 open zone, eviction below 2 empty zones, 3 queues, fairness; the device can fill | 134 thousand |
| `cache` | Which pages may be cached, and for whom? | 2 zones of 2 slots of 3 pages, 2 tables, a cache of 2 pages | 27 thousand |
| `merge` | Do the loops of a compaction compute `Merge` and `Split`, and end? | 3 tables with any of 3 keys, ties of age between levels, marks, the last level or not | 50 thousand |
| `memtable` | Does the list implement the memtable, and do its tables' reads stay in place? | 5 keys, one of them `UINT64_MAX`, strings of 3 sizes, 3 levels, 3 flushes, tables of 10 bytes | 14 thousand |
| `lsm` | Is the store a map to its callers and the tree in shape? | 3 keys on both sides of `SignedMax`, values of 2 sizes, marks of a third; level 0 holds 1 table, level 1 one, level 2 three; 4 flushes | 229 thousand |
| `pool` | Are the pools task queues, each served by its threads? | 3 threads on 2 queues, 3 tasks, any number of spurious wakeups, the destructor at any moment | 30 thousand |
| `ftl` | Do writes, reads and resets agree on the layout? | 8 zones of 8 pages on 4 channels in 2 groups and 2 luns, 4 of them written; writes of 1 and 3 pages at any time, reads of any length to one page more than a zone | 6.6 thousand |
| `cache_stale`, `cache_end`, `lsm_tie`, `pool_stop` | findings, below | as `cache`; 5 flushes; 2 threads, 1 task | - |

Why the bounds are enough. *store*: a zone of three slots can be empty, partly
written, full, full with deleted tables, and with two open zones the
round-robin, the reuse of a worker for another zone, relocation into a zone
that is partly filled, and eviction while writes
are pending all occur. A victim of two tables may
fill the target's last slot and want another zone. There is none then (two zones are open, and
one is the victim), so the run sees `i` and `prev` set for the second target and then the
`exit`; that every further target is credited right is `CreditsAreRight` for
any number of zones. The 20 % threshold of `resetZone` is represented by
`SparseTables = 1`, so that a reset on request, one that needs force (two live
tables) and the refusal (three) occur, and both calls of `exit`.
*store_progress*: the tables can fill the zones eviction leaves, and three queues
are empty, or the next, at different times. *cache*: a cache smaller than
a table's values, so that pages are pushed out during a call; neighbouring
slots in one zone and across zones. *merge*: three tables are what it takes for
a key to be displaced twice and for `update` to call itself; the values are
told apart by their table. *memtable*: the keys reach past `SignedMax`, the
strings make `memory` wrap, and a table can fill its slot to the byte. *lsm*:
three levels, so tables of a
level are inputs both as source and as target, the bottom level both exists and
is created, and marks pass a level that is not the last. *ftl*: every boundary
of the walk (channel, block, page, end of zone, end of lun) is crossed, by writes that
end on it and by writes that run over it; the zones that are written
(`WrittenZones`) are neighbours in number across a lun, in group, and in blocks.
The shipped configuration is the case of one group.

`Towers`, `RangeCovers`, `JoinDrains` and `FullWhenWritten` have their module's
`TypeOK` as a conjunct.

Deadlock is checked in every run. The states in which the program has ended
(`exit`, a failed assertion of the device, the destructor's return) stutter explicitly; the bound `MaxFlushes` of
`KVStore` disables puts that flush and leaves gets.

Definitions marked *Mutation* are slips the code could have had (a wait left
out, a bound off by one, the wrong end of a set). Each stands before the
definition it would replace; in its place TLC finds the property violated that
`PROJECT.json` names beside it, which shows that the run reaches the case the property
is about.

`ImplementsMap` holds, like `ReadYourWrites`, as long as no compaction has merged
equally old tables of two levels (`tied`); behaviours in which none ever does
are most of them, and the first finding is about the others.

**Fairness.** `WriteReturns` assumes that the main thread goes on with the call
it is in and that each worker drains its queue (weak fairness); the code has no
lock between them except the futures, and a busy wait in `dispatch_io` that
ends with the clock. Nothing obliges the caller to call. `ImplementsTaskQueues`
and `DestructorReturns` assume that a thread that can run does, that a thread
waiting for a mutex gets it in the end (strong fairness of `Lock`), and that
the main thread finishes `enqueue` and the destructor; no spurious wakeup is
ever relied on. `MergeEnds` assumes that a sequential loop goes on.

`RelocationHasRoom` has a premise, `MinEmpty >= TablesPerZone`: the shipped
constants satisfy it (52 zones are at least 5 % of 1024; 8 tables in a zone), and
`store_progress` instantiates it with equality. In `store` it is false, so that the loop
does run out of zones (`RelocateExit`).

## Findings

Each is a run that expects a violation, next to a passing run that shows the
same property where its cause is excluded.

1. **An old value can come back** (`lsm_tie`). The tables a compaction writes
   carry the timestamp of the newest input from the level above
   (`kvstore.cc:164`), so adjacent levels from 1 on may hold equally old tables. When
   they meet in a later merge, the order of the two tables, hence which value
   of a key survives, is decided by their smallest keys. `ReadYourWrites`
   (run `lsm`) shows that `get` is right until that happens, and `FilesMatch`
   likewise: on a tie `emplace` may also drop a table that has been written.
2. **Pages of deleted tables stay cached** (`cache_stale`). Relocation changes a
   table's address and leaves the pages cached at the old one;
   `deleteTable` clears the new one only. The next table in the old slot finds
   them, and `getValue` skips the device. `PagesAccounted` and `HitsAreOwn` (run
   `cache`) show that relocation is the only way to this.
3. **A read can run past the end of the device** (`cache_end`). `getValue` rounds the
   end of a value up to the next page also when it ends on a page boundary. After
   the device's last slot there is no such page, and the assertion of
   `zns_get_zone_by_lba` (`ftl.c:16`) stops the program. It takes a table that fills its
   slot to the byte, which `kvstore.cc:229` permits, in the last slot of the last
   zone. The properties of run `cache` hold up to that moment.
4. **The destructor of a pool may never return** (`pool_stop`): `stop` is set
   outside the mutex, so a thread between its test and its sleep misses the
   only notification.

Not a finding of a run, but worth knowing: `memory` is not the size of the table once the
memtable has been flushed. `clear` sets it to 10272, not `InitialSize`, and the put
that flushes subtracts the size of a value that is gone. As a `size_t` it may wrap,
after which a put flushes until a large enough value brings it back. The tables still fit
their slots (`InsideSlot`, run `memtable`), but only because the first
constructor of `Table` counts every value as one byte: it takes the size
after the move. Taking it before, without also correcting `memory`, would let a
table outgrow its slot; that is the mutation `KeptSize`.

## Proofs

The theorems hold for every value of the constants that satisfies the
module's assumption. `N` is the number of distinct states on which TLC found the
inductive invariant true, on the instance of the run named, before it was proved.

| Module | Theorem | States | |
|---|---|---|---|
| `MemoryManagerProofs` | `Invariance` | `Spec => []IInv` | `store`, N = 702 906 |
| | `TypeCorrect` | `TypeOK` | |
| | `ZonesArePartitioned` | `ZonesAccounted` | |
| | `ResetQueueCorrect` | `ResetQueueIsFull` | |
| | `MapsAreInverse` | `MapsInverse` | |
| | `BooksAgree` | `RelocationAccounted` and `SlotsAccounted` | |
| | `CreditsAreRight` | `RelocationCredits` | |
| | `DeleteNeverAsserts` | `DeleteAssertion` | |
| | `OrderInvariance` | `Spec => [](IInv /\ OrderInv)` | `store`, N = 702 906 |
| | `DeviceSeesNoError` | `NoZnsError` | |
| | `ZonesAreRaceFree` | `NoZoneRace` | |
| | `ReadsAreWritten` | `ReadsHitWrittenSlots` | |
| | `StoreImplementsTableSpace` | `ImplementsTableSpace` | |
| | `RoomInvariance` | `Spec => [](IInv /\ RoomInv)` | `store`, N = 702 906 |
| | `RelocationNeverStarves` | `RelocationHasRoom` | |
| | `EvictionFindsAVictim` | `EvictHasVictim` | |
| | `PoolHoldsEmptyZones` | `PoolMatches`, from `PooledSpec` | `store_progress`, N = 133 500 |
| | `PooledStoreIsAStore` | `PooledSpec => Spec` | |
| `ThreadPoolProofs` | `PoolInvariance` | `Spec => []PoolInv` | `pool`, N = 30 216 |
| | `NoWakeupLost` | `NoSleepOnWork` | |
| | `DestructorDrains` | `JoinDrains` | |
| | `PoolImplementsQueues` | the safety part of `ImplementsTaskQueues` | |
| `KVStoreProofs` | `Parts`, `Merged` | what `Split` and `Merge` return, for any tables | |
| | `StoreInvariance` | `Spec => []StoreInv` | `lsm`, N = 228 812; `lsm_tie`, N = 2 061 261 |
| | `RangesCoverKeys` | `RangeCovers` | |
| | `LevelsAreDisjoint` | `DisjointLevels` | |
| | `DeeperIsOlder` | `TimestampOrder` | |
| | `LevelsAreBounded` | `LevelBounds` | |
| | `MarksAreDropped` | `NoMarkAtBottom` | |
| | `TreeAndStoreAgree` | `FilesMatch` | |
| | `GetReturnsLatest` | `ReadYourWrites` | |
| | `StoreImplementsMap` | `ImplementsMap` | |
| `CompactionMergeProofs` | `HeadsFollowIterators` | `HeadsTracked` | `merge`, N = 49 852 |
| | `LoopsMerge` | `MergeIsRight` | |
| `SkipListProofs` | `ListsHoldTogether` | `Towers` | `memtable`, N = 13 991 |
| | `ListImplementsMemtable` | `ImplementsMemtable` | |
| | `TablesFitTheirSlot` | `InsideSlot` | |
| | `PairsAreReadable` | `PairsReadable` | |
| `PageCacheProofs` | `CacheInvariance` | `CacheSpec => []CacheInv` | `cache`, N = 26 770 |
| | `CacheIsConsistent` | `CacheConsistent` | |
| | `PagesAreAccounted` | `PagesAccounted` | |
| | `HitsBelongToTable` | `HitsAreOwn` | |
| | `VisitedPagesStay` | `RangeStays` | |
| `FtlProofs` | `ZonesFillUp` | `FullWhenWritten` | `ftl`, N = 6 561 |
| | `FlashIsRight` | `FlashHoldsZones` | |
| | `ReadsAreRight` | `ReadsFindPages` | |

### The table store: its books

`IInv` is the conjunction of `TypeOK`, `ZonesAccounted`, `ResetQueueIsFull`,
`MapsInverse`, `RelocationAccounted` and `MainThread`. None of the first four
is inductive alone: that a counter stays within its type needs that it counts
occupied slots, which needs the maps to be inverse, which needs the slot a
table is appended to be free, which needs `deleted_table` and `write_ptr` to
account for every slot. `SlotsAccounted` says so for zones at rest;
`RelocationAccounted` is its strengthening for the zone being emptied and the
zone being filled, and `MainThread` ties the main thread's locals to its
position. The proof has one lemma for each group of actions that changes the
same variables (append, delete, the steps of relocation, reset, the steps that
touch only threads or locals) and the cardinality facts they share.
`RelocateClose` credits `moved - prev` tables, which `RelocationCredits`, a conjunct of
`MainThread`, equates with the slots that were filled (`CloseEnd`).

`DeleteNeverAsserts` rests on `CompactionInv`: while a compaction reads, a table
it is going to clear that has a future is still to be read; and until it has cleared
them all its tables are stored, so that none is written, and gets a future, again.

### The table store: the order of device writes

A worker writes without looking at the zone, so `NoZnsError` is a statement about
what is queued. `OrderInv` says that the slots given out and not yet on the
device are exactly the queued ones (`QueuedIsUnwritten`, `UnwrittenIsQueued`),
that one worker has all of a zone's, in order (`QueuesInOrder`,
`OneWorkerPerZone`), and hence that the head of its queue is the zone's write
pointer (`HeadIsNext`). Two parts carry it through the steps that give a zone
away: while a zone is open its worker is that of the round-robin
(`OpenZonesHaveTheirWorker`), and a zone that goes back to the pool, is filled
by relocation or is reset has nothing queued (`QuietZones`). The last holds
because the main thread waits for the futures of all tables of the victim, so
`QueuedIsMapped` (a queued table has a future nobody has taken) and
`MovedIsAwaited` belong to the invariant. `StoreImplementsTableSpace` takes each
step to the step of `TableSpace` it is, or to a stutter.

### The table store: room

`RoomInv` counts. The free slots of the pool and of the zone relocation is
filling are at least `MinEmpty - 1` less what the relocation in progress has
moved: an append takes a zone only after the eviction loop has left enough of
them, a relocated table takes one slot, and the reset gives back a zone, which
is more than was spent because the victim holds fewer tables than slots. `EvictHasVictim` counts zones:
while none is full, all but the open ones are empty, which are at least `MinEmpty`.

### The pool of empty zones

`Matches(pool, empty_zone)` says that the queues hold the zones of the set, each once
and each in the queue of its index, and that `size` is the size of the set. `get`
keeps it (`GetMatches`) because turning the pointer through all the queues passes
every one of them (`RoundTrip`), so a pool with a zone is not empty at the queue
where `Turn` stops (`TurnFinds`); `put` keeps it because a zone that comes back was not in
the set, which `IInv` says of the zones being filled and reset. The
constructor's loop and the zones it opens are the start (`ConstructedMatches`,
`OpenedMatches`). A step of `PooledStore` is a step of `MemoryManager`, so `IInv` comes for
free, and `PooledStoreIsAStore` carries every theorem of this module over to the pooled
store. The proof assumes that zones are numbered from 0 and that the queues suffice
for their indices, which the constructor does not test (`ZonesAreNumbers`, `QueuesSuffice`).

### The thread pools

`PoolInv` adds to `NoSleepOnWork` that a thread which tests its predicate, or has tested
it and does not sleep yet, owns the mutex (`MutexHeld`, which the library's
`condition_variable` gives), that a condition has only
threads of its queue, that a thread about to sleep has seen its queue empty and
has held the mutex since, and that a thread that has returned has seen it empty
after `stop`. The step that needs all of them is `Sleep`: the thread joins the
sleepers of a queue that has no task, since whoever pushes one needs the mutex.

### The tree

`StoreInv` is the shape of the tree (`TreeInv`), the memtable's bounds
(`MemInv`: `memory` is not known, only that an empty memtable is one that no put
has filled since it was built, so that a table is never flushed without pairs),
the counters of the levels while a
compaction goes down (`Counted`), the numbers of the tables (`Numbered`,
`FilesMatch`) and what `get` returns, also between the steps of a put (`Reads`).

A compaction is described once by what it takes (`Chosen`: the oldest tables
above, all below that overlap), what it writes (`Rewritten`: tables with
disjoint ranges, numbers and the age of the newest input, made of the keys of the inputs, each
with the string of a newest input that holds it, deletion marks dropped at the
bottom), and how the levels change (`Changed`). `CompactChooses` and
`CompactRewrites` derive that from the code's definitions, by way of `Merged` and
`Parts`; everything else is proved from the description. `CompactSeparates`
needs that what overlaps is taken with `SignedMax` and 0 as the bounds of no
table; `CompactAges` needs that the oldest are taken, and that `moved` and `old`
are of adjacent levels, so that the age of the outputs fits between the levels.

For reads, `Finds(s, key)` says without `CHOOSE` what `get` finds: the string in
the newest table of the first level that has the key. `LookupFinds` shows that
`Lookup` returns it; `CompactKeepsFinds` that a compaction that merges no equally old tables of
two levels changes it for no key but one that is deleted. Disjointness makes the
holder in a level unique, and `TimestampOrder` makes the holder in the upper
level the newer one. `StoreImplementsMap` follows from the same lemma. The
premise `~tied` cannot be dropped (finding 1), and the invariant of the shape
holds without it.

### The merge of a compaction

`MergeInv` adds to the entries and heads of `minKey` (`Entries`, `Tracked`) three
statements about the loop as a whole. The newest pair of a key that remains to be written
is still ahead of its table's iterator (`NewestPending`): it is what makes the
entry that displaces another the right one. What has been written is
below what remains (`EmittedBelow`). And what has been written is, in
order, the part of the merged pairs with the keys that are no longer
ahead, cut as `Split` cuts all of them (`Output`): a prefix of `Split`, whose last part
is `newTable` and whose bytes are `size`. `OutputGrows` is the step of `Emit`,
by counting the openers among the keys written (`Counting`) and the bytes
the last table has filled (`KeyFills`). The invariant does not mention the heap
of the tables, only that some order agrees with their ages (`IsOrder`);
`MergeOfTables` then shows that what has been merged is `Merge` for one choice of
`late`, the choice that `KVStore` ranges over.

### The memtable and its tables

`Towers` is inductive by itself. A search stops on each level at the greatest
key up to the one put (`PathStops`), which is the same key on every level that has it,
and no level below lacks it (`StopsAtKey`); so the
nodes that `put` rewrites are those of one tower (`TowerOfKey`), and a new tower
extends every lower level. That no list is empty is what keeps a head, whose key
is `UINT64_MAX`, from being taken for the node of that key. `get` then reads the
lowest level (`GetReadsBottom`), and each step is one of `Memtable`.

`InsideSlot` needs to know what `memory` says of the pairs. `Accounted` states it: some
`base`, which is not negative or is short by no more than one pair, and the sum of
the bytes of the pairs together are at most `TableSize`, and `memory` is their
sum, wrapped around. The base is where the flush loses the size of a value
that is gone; a put within bounds keeps it (`KeepAccounts`), and a flush begins a
new one (`FlushAccounts`). The pair put late counts before it is in
the list (`Held`). From the sum, the number of pairs is bounded by the cheapest of them
(`PairsHaveRoom`), and the last conjunct of `SkipListAssumption` gives their index room.

`PairsReadable` rests on what each function of `Table.cpp` computes. `SearchFinds`: by
induction on the length of the window (`Span`), a search between two indices returns the
place of the key if it is there and 0 if not. `BoundsOK`: the
bounds kept across `clear` are around every key, although they start at
`SignedMax` and, after a clear, `SignedMax + 1`. `PartFits`: the bytes of a part of `Split`
are what `Fill` says at its last key, because the keys of a part
follow each other without an opener between (`FirstOpens`, `NextFollows`,
`PartFills`), and `Fill` never passes the room (`FillsRoom`). `RoundsUp`: the end of a
table that fits is rounded up to a page inside the slot, also when it is the end of the slot.

### The layout of the zones

`Place(z, n)` is where the `n`-th page of a zone lies, in closed form: digits of `n`
for the channel, the block and the page, and a row of blocks for the zone.
`PlaceInjective` shows that no two pages of any two zones share a place, by the
uniqueness of quotient and remainder (`DigitsUnique`, `ZoneNumber`); `NextIsPlace` that the walk
of the write pointer, with its three carries, goes from one place to the
next; `LocateIsPlace` and `ReadStepIsNext` the same of the read, also
across the end of a zone; `ErasedIsZone` that the two loops of a reset visit the places of the
zone and no others. `FtlInv` then says that every write pointer is at
its place (`PointersAgree`), that what is below it has been written
in place (`WrittenInPlace`) and what is above it erased (`RestErased`). The proof holds for every geometry that
`GeometryAssumption` admits: channels divide into groups, the blocks of a zone into the
channels of its group, those of a plane into the zones.

### The page cache

`CacheInv` is that the list holds each key of the map once (`LruOK`), that stored
tables have slots of their own (`SpaceInv`), and `PagesAccounted`.
`GetValue` and `DeleteTable` are whole loops, so their proofs are inductions over the
turns. `VisitInv` is the loop invariant of `getValue`: the pages visited are in
front of the list, newest first, as far as it can hold them, and whatever was
not cached before lies in a batch that will be read. `SlotsApart` is
the arithmetic of pages: the only page two slots share is the first of the
later, which is a header. `HitsAreOwn` follows from `PagesAccounted` and
`SlotsApart`; that every page read is one of `Pages` is the guard that separates `GetValue`
from the abort; `RangeStays` from the front of the list.

### Induction

What a loop or a recursive function computes is proved by the least counterexample: a
property that fails for a number fails for a least one (`Induction!LeastElement`,
from the well-foundedness of `<`). `LoopHasCourse` shows that a recursive function
over the turns of a loop has the values its definition says. The sections that
follow are shared by several proofs: the least and greatest of a set, ranks in an order, the
row of some pairs in key order (`Ordering`), `Fill` (`Filling`), sums over a
finite set (`IsSum`, stated of a function on its parts, since a fold cannot be
expanded), and division.

### Assumptions

Each is an `ASSUME` of the module that declares the constants, and TLC evaluates
it in the runs. The store of tables has enough zones for the open ones and
`MinEmpty` (1024 against 56), names are not numbers, and `RelocationHasRoom`
carries its premise in its statement. Each queue of a pool has a thread (the
constructors make them in pairs, or one queue and some threads). In the tree the keys are
finitely many naturals, a pair fits a table, and the empty string is not a
value, because `get` cannot tell it from nothing found; no bound of a level, size of a
string or number of flushes is fixed. The cache holds at least one page, a table
starts with at least one page of header and has at least one more, and zones are
numbered from 0. The keys of a memtable are numbers up to `UINT64_MAX`, its
sizes are below `Word`, every pair fits an empty table, and a slot has room for the
index as described above. The inputs of a merge are finite, in each level no two
are equally old (`Table::operator<` orders the set they are kept in), and each of their pairs fits
a table. The flash has the divisibilities named above.

### Left to TLC

* Liveness (`WriteReturns`, `MergeEnds`, the fair part of
  `ImplementsTaskQueues`): the prover has no fairness reasoning.
* The violations of the findings, which are counterexamples.

Every invariant of a passing run, and the safety part of every refinement, is
proved.

## Not modelled

* The latency of the luns (`ssd_advance_status`) and the lost updates of
  `next_lun_avail_time`: only the simulated time depends on them.
* The hash function: any function from keys to filter bits.
* The empty string as a value. `get` takes it for "not found" and goes on to older
  tables (`kvstore.cc:60`); a put of it over a flushed value has no effect. The
  callers in `main.cpp` and `test.h` put none.
* A pair larger than a table, for which `writeToFile` would build a table from
  no pairs, and the first put could flush an empty list; `StoreAssumption`,
  `SkipListAssumption` and `MergeAssumption` exclude it.
* `enqueue` on a pool that has been told to stop: one thread makes both calls.
* The mutex of `LRUCache`: only the caller's thread uses the cache.
* `main.cpp` and `test.h`, the benchmark, which calls the store from one thread.

## Plan

1. `LunTiming`: `ssd_advance_status` by several threads, with its lost updates.
2. A composition of `KVStore` and `MemoryManager` over the tables they share,
   so that `Compact` takes the tables `KVStore` chooses and not any.
