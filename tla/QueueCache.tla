----------------------------- MODULE QueueCache -----------------------------
(***************************************************************************)
(* Class queue_cache of include/cache.h: the pool of empty zones.  There   *)
(* are two queues for every group of 2 * div zones, one for the even zones *)
(* and one for the odd; get takes the queues in turn, so that zones opened *)
(* one after the other lie on different dies.  An object of the class is a *)
(* record, and its methods are operators on it.                            *)
(***************************************************************************)
EXTENDS Integers, Sequences, SequencesExt

CONSTANTS total, div   \* the zones (1024), and meta[2] of get_zns_meta (128)

ASSUME PoolAssumption ==
  /\ total \in Nat \ {0} /\ div \in Nat \ {0}

Num == total \div div
Queues == 0 .. (Num - 1)
Index(zone) == ((zone \div 2) \div div) * 2 + (zone % 2)

ASSUME QueuesSuffice == \A zone \in 0 .. (total - 1) : Index(zone) \in Queues

(* The constructor puts the zones into their queues in ascending order.    *)
Constructed ==
  LET put[n \in 0 .. total] ==
        IF n = 0 THEN [q \in Queues |-> <<>>]
        ELSE [put[n - 1] EXCEPT ![Index(n - 1)] = Append(@, n - 1)]
  IN [queues |-> put[total], ptr |-> 0, size |-> total]

IsEmptyPool(c) == c.size = 0

(* get: the queue it takes from, the zone it returns, the pool it leaves.  *)
Turn(c) ==
  (c.ptr + Min({d \in Queues : c.queues[(c.ptr + d) % Num] # <<>>})) % Num
Got(c) == Head(c.queues[Turn(c)])

(* Mutation: the pointer is moved on before the zone is popped.            *)
AfterGetElsewhere(c) ==
  LET next == (Turn(c) + 1) % Num
  IN [queues |-> [c.queues EXCEPT ![next] = IF @ = <<>> THEN @ ELSE Tail(@)],
      ptr |-> next, size |-> c.size - 1]
AfterGet(c) ==
  [queues |-> [c.queues EXCEPT ![Turn(c)] = Tail(@)],
   ptr |-> (Turn(c) + 1) % Num, size |-> c.size - 1]

AfterPut(c, zone) ==
  [queues |-> [c.queues EXCEPT ![Index(zone)] = Append(@, zone)],
   ptr |-> c.ptr, size |-> c.size + 1]
=============================================================================
