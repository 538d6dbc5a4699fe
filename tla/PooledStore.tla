---------------------------- MODULE PooledStore -----------------------------
(***************************************************************************)
(* The table store with its pool: MemoryManager, whose empty_zone is a set *)
(* any member of which may be taken, composed with the queue_cache that    *)
(* decides which zone is next and how many there are (include/utils.cpp).  *)
(* Every step is a step of MemoryManager together with what it does to the *)
(* pool; a step that takes a zone takes the one get returns.               *)
(***************************************************************************)
EXTENDS MemoryManager, QueueCache

VARIABLE pool

pvars == <<vars, pool>>

ASSUME ZonesAreNumbers == Zones = 0 .. (total - 1)

(* The constructor opens the first OpenZones zones get returns.            *)
PooledInit ==
  LET opened[n \in 0 .. OpenZones] == IF n = 0 THEN Constructed ELSE AfterGet(opened[n - 1])
  IN /\ Init
     /\ open_zone = [i \in Streams |-> Got(opened[i])]
     /\ pool = opened[OpenZones]

Kept == UNCHANGED pool
Taken(z) == ~IsEmptyPool(pool) /\ z = Got(pool) /\ pool' = AfterGet(pool)
Returned(z) == pool' = AfterPut(pool, z)

PooledAppend ==
  /\ AppendTable
  /\ IF open_zone' = open_zone THEN Kept ELSE Taken(open_zone'[which_zone])

PooledClose ==
  /\ RelocateClose
  /\ IF to_zone \in empty_zone' THEN Returned(to_zone) ELSE Kept

PooledReclaim ==
  \/ \E z \in Zones : (TryZone(z) \/ EvictForce(z)) /\ Kept
  \/ (EvictTry \/ TryEnd \/ RelocateExit \/ RelocateMove) /\ Kept
  \/ RelocateOpen /\ Taken(to_zone')
  \/ PooledClose
  \/ ResetEnd /\ Returned(victim)

PooledWorker(w) == Worker(w) /\ Kept

PooledNext ==
  \/ (Client \/ Exited) /\ Kept
  \/ PooledAppend
  \/ PooledReclaim
  \/ \E w \in Workers : PooledWorker(w)

PooledSpec == PooledInit /\ [][PooledNext]_pvars

PooledFairness ==
  /\ WF_pvars(PooledAppend \/ PooledReclaim)
  /\ \A w \in Workers : WF_pvars(PooledWorker(w))

PooledFairSpec == PooledSpec /\ PooledFairness
-----------------------------------------------------------------------------
(* The queues hold exactly the empty zones, each in its own queue and only *)
(* once, and size counts them: the test for too few empty zones, the exit  *)
(* of the relocation loop and get itself agree on when the pool is empty.  *)
PoolMatches ==
  /\ \A q \in Queues : ToSet(pool.queues[q]) = {z \in empty_zone : Index(z) = q}
  /\ \A q \in Queues : Len(pool.queues[q]) = Cardinality(ToSet(pool.queues[q]))
  /\ pool.size = Cardinality(empty_zone)
=============================================================================
