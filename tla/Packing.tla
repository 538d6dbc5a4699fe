------------------------------ MODULE Packing -------------------------------
(***************************************************************************)
(* Pairs in the order of their keys, and how a loop that takes them in     *)
(* that order packs them into tables of room bytes, of which an empty one  *)
(* has start filled: a pair that has no room left opens the next table.    *)
(***************************************************************************)
EXTENDS Integers, FiniteSets, FiniteSetsExt

(* The pairs of kv whose keys are in S, in the order of their keys.        *)
InOrder(kv, S) ==
  [n \in 1 .. Cardinality(S) |->
     LET k == CHOOSE k \in S : Cardinality({j \in S : j < k}) = n - 1 IN <<k, kv[k]>>]

Before(w, k) == {j \in DOMAIN w : j < k}

(* What each pair leaves filled of its table; w[k] are the bytes of k's.   *)
Fill(w, start, room) ==
  LET fill[k \in DOMAIN w] ==
        LET bytes == IF Before(w, k) = {} THEN start ELSE fill[Max(Before(w, k))]
        IN IF bytes + w[k] > room THEN start + w[k] ELSE bytes + w[k]
  IN fill

(* The keys that open a table.                                             *)
Opening(w, start, room) ==
  LET fill == Fill(w, start, room)
  IN {k \in DOMAIN w : Before(w, k) = {} \/ fill[Max(Before(w, k))] + w[k] > room}
=============================================================================
