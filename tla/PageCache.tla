----------------------------- MODULE PageCache ------------------------------
(***************************************************************************)
(* The page cache of the table store: class LRUCache of include/cache.h as *)
(* MemoryManager::getValue fills it and deleteTable clears it              *)
(* (include/utils.cpp).  It holds the numbers of the device pages that     *)
(* need not be read again.                                                 *)
(*                                                                         *)
(* The cache is put on top of TableSpace, the abstract table store (which  *)
(* MemoryManager implements): tables are placed, moved and deleted and     *)
(* zones erased as the store may do it, and the cache sees only the calls  *)
(* of getValue and deleteTable.  Zones are numbered, and pages count on    *)
(* from one slot to the next and from one zone to the next.                *)
(***************************************************************************)
EXTENDS TableSpace, FiniteSets, Sequences, SequencesExt

CONSTANTS
  cap,           \* pages the cache may hold (64000)
  SlotPages,     \* DEFAULT_SSTABLE_SIZE / DEFAULT_PAGE_SIZE (4096)
  HeaderPages,   \* pages of a table before its first value: meta data and Bloom filter (64)
  NoTable, None  \* None: UINT64_MAX in batch_left

ASSUME CacheAssumption ==
  /\ IsFiniteSet(Zones) /\ Zones = 0 .. (Cardinality(Zones) - 1)
  /\ cap \in Nat \ {0}
  /\ SlotPages \in Nat \ {0}
  /\ HeaderPages \in 1 .. (SlotPages - 1)
  /\ NoTable \notin Tables
  /\ TablesPerZone \in Nat
  /\ NoAddr \notin Zones \X (0 .. TablesPerZone)
  /\ None \notin Nat

VARIABLES
  cache, map,   \* LRUCache: the list, most recent page first, and the keys of the hash map
  aborted,      \* has an assertion of the device stopped the program
  readFor,      \* history: for which table each cached page was read from the device
  astray        \* history: the cached pages whose table has been moved since

lru     == <<cache, map>>
history == <<readFor, astray>>
vars    == <<space, lru, aborted, history>>

(* The pages of the device: those for which zns_get_zone_by_lba finds a    *)
(* zone.                                                                   *)
Pages == 0 .. (Cardinality(Zones) * TablesPerZone * SlotPages - 1)

CacheInit ==
  /\ Init
  /\ cache = <<>> /\ map = {}
  /\ aborted = FALSE
  /\ readFor = [p \in Pages |-> NoTable]
  /\ astray = {}

-----------------------------------------------------------------------------
(* LRUCache, on a record of its list and map.  The map holds an iterator   *)
(* to the page's node in the list.                                         *)
Iterator(list, page) == CHOOSE i \in DOMAIN list : list[i] = page
Without(list, page) == RemoveAt(list, Iterator(list, page))

(* Mutation: a hit leaves the page where it is in the list.                *)
GetInPlace(c, page) == c
Get(c, page) == [c EXCEPT !.list = Cons(page, Without(@, page))]

Push(c, page, list, keys) == [c EXCEPT !.list = Cons(page, list), !.map = keys \cup {page}]

(* Mutation: the page that is pushed out stays in the map.                 *)
PutKeepsKey(c, page) ==
  IF page \in c.map THEN Push(c, page, Without(c.list, page), c.map)
  ELSE IF Len(c.list) = cap THEN Push(c, page, Front(c.list), c.map)
  ELSE Push(c, page, c.list, c.map)

Put(c, page) ==
  IF page \in c.map THEN Push(c, page, Without(c.list, page), c.map)
  ELSE IF Len(c.list) = cap THEN Push(c, page, Front(c.list), c.map \ {Last(c.list)})
  ELSE Push(c, page, c.list, c.map)

Del(c, page) ==
  IF page \in c.map THEN [c EXCEPT !.list = Without(@, page), !.map = @ \ {page}] ELSE c

-----------------------------------------------------------------------------
First(t) == (place[t][1] * TablesPerZone + place[t][2]) * SlotPages

(* One turn of getValue's loops over the pages of a value: a page that is  *)
(* cached ends the batch of pages to read, one that is not extends it.     *)
Visit(c, page) ==
  IF page \in c.map
  THEN IF c.left = None THEN Get(c, page)
       ELSE [Get(c, page) EXCEPT !.interval = Append(@, <<c.left, c.right>>), !.left = None]
  ELSE [Put(c, page) EXCEPT !.left = IF @ = None THEN page ELSE @, !.right = page]

Intervals(c) ==
  IF c.left = None THEN c.interval ELSE Append(c.interval, <<c.left, c.right>>)

Fetched(c) == UNION {i[1] .. i[2] : i \in ToSet(Intervals(c))}

(* n pages from page first on, one after the other, visited or deleted.    *)
VisitAll(start, first, n) ==
  LET at[i \in 0 .. n] == IF i = 0 THEN start ELSE Visit(at[i - 1], first + i - 1)
  IN at[n]

DelAll(start, first, n) ==
  LET at[i \in 0 .. n] == IF i = 0 THEN start ELSE Del(at[i - 1], first + i - 1)
  IN at[n]

(* getValue of a value on the pages l to r of table t; r is the page of    *)
(* the byte after the value, which may be the first page of the next slot. *)
(* The call waits for the table's future before it does anything.          *)
Looked(t, l, r) ==
  VisitAll([list |-> cache, map |-> map, left |-> None, right |-> None, interval |-> <<>>],
           First(t) + l, r - l + 1)

GetValue(t, l, r) ==
  LET c == Looked(t, l, r)
  IN /\ Durable(t)
     /\ Fetched(c) \subseteq Pages
     /\ cache' = c.list
     /\ map' = c.map
     /\ readFor' = [p \in Pages |-> IF p \notin c.map THEN NoTable
                                    ELSE IF p \in Fetched(c) THEN t ELSE readFor[p]]
     /\ astray' = (astray \cap c.map) \ Fetched(c)
     /\ UNCHANGED <<space, aborted>>

(* The slot is the device's last and its table fills it: femu_read runs    *)
(* past the end, and zns_read asserts that there is a zone.                *)
GetValueAborts(t, l, r) ==
  /\ Durable(t)
  /\ ~(Fetched(Looked(t, l, r)) \subseteq Pages)
  /\ aborted' = TRUE
  /\ UNCHANGED <<space, lru, history>>

(* deleteTable clears every page of the slot, and the one after it.        *)
(* Mutations: it stops one page, or two pages, short of that.              *)
ClearedUpTo == SlotPages - 1
ClearedSlot == SlotPages
Cleared     == SlotPages + 1

DeleteTable(t) ==
  LET c == DelAll([list |-> cache, map |-> map], First(t), Cleared)
  IN /\ Drop(t)
     /\ cache' = c.list
     /\ map' = c.map
     /\ readFor' = [p \in Pages |-> IF p \in c.map THEN readFor[p] ELSE NoTable]
     /\ astray' = astray \cap c.map
     /\ UNCHANGED aborted

(* writeTable, the workers and resetZone leave the cache alone.            *)
WriteTable(t) == \E z \in Zones : Place(t, z) /\ UNCHANGED <<lru, aborted, history>>
EndWrite(z)   == Finish(z) /\ UNCHANGED <<lru, aborted, history>>
EraseZone(z)  == Erase(z) /\ UNCHANGED <<lru, aborted, history>>

Relocate(t) ==
  /\ \E z \in Zones : Move(t, z)
  /\ astray' = astray \cup {p \in map : readFor[p] = t}
  /\ UNCHANGED <<lru, aborted, readFor>>

Read(t) ==
  \E l \in HeaderPages .. (SlotPages - 1) : \E r \in l .. SlotPages :
    GetValue(t, l, r) \/ GetValueAborts(t, l, r)

Aborted == aborted /\ UNCHANGED vars

CacheNext ==
  \/ /\ ~aborted
     /\ \/ \E t \in Tables : WriteTable(t) \/ Relocate(t) \/ DeleteTable(t) \/ Read(t)
        \/ \E z \in Zones : EndWrite(z) \/ EraseZone(z)
  \/ Aborted

CacheSpec == CacheInit /\ [][CacheNext]_vars
-----------------------------------------------------------------------------
(***************************************************************************)
(* Properties.                                                             *)
(***************************************************************************)
(* The list and the map of LRUCache hold the same pages, each once, and no *)
(* more than cap: an iterator of the map never points to a node that was   *)
(* erased.                                                                 *)
CacheConsistent ==
  /\ ToSet(cache) = map
  /\ Len(cache) = Cardinality(map)
  /\ Len(cache) <= cap

(* Whatever getValue puts in the cache it has read from the device; and    *)
(* what it read stays cached only as long as the table is where it was:    *)
(* deleteTable forgets all of it, the page after the slot included.  Only  *)
(* relocation (astray) leaves pages of no table behind.                    *)
PagesAccounted ==
  \A p \in map :
    /\ readFor[p] # NoTable
    /\ p \notin astray => Stored(readFor[p]) /\ p \in First(readFor[p]) .. First(readFor[p]) + SlotPages

(* Relocation apart, getValue never takes a page another table left in the *)
(* cache for its own: the pages of two tables only meet in a header.       *)
HitsAreOwn ==
  \A t \in Tables : Stored(t) =>
    \A p \in (First(t) + HeaderPages .. First(t) + SlotPages - 1) \cap (map \ astray) : readFor[p] = t

(* After getValue its pages are cached, if the cache can hold that many:   *)
(* a page it skips as cached is not pushed out by one it adds.             *)
RangeStays ==
  [][\A t \in Tables : Durable(t) => \A l \in HeaderPages .. (SlotPages - 1) : \A r \in l .. SlotPages :
       r - l < cap /\ ~(First(t) + l .. First(t) + r \subseteq map') => ~GetValue(t, l, r)]_vars

(* "For a deleted sstable the corresponding cache must be cleared"         *)
(* (utils.h:109): no page stays cached that was read for a table that is   *)
(* gone.                                                                   *)
DeletedUncached == \A p \in map : Stored(readFor[p])

(* "assert(zone_idx < n->num_zones)" (ftl.c:16): what getValue reads is on *)
(* the device.                                                             *)
ReadsOnDevice == ~aborted
=============================================================================
