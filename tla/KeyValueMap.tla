---------------------------- MODULE KeyValueMap ----------------------------
(***************************************************************************)
(* What the store promises its callers (LSM-Tree/kvstore.cc: the comments  *)
(* of put, get and del): a map from keys to values, in which a key that    *)
(* was never put, or was deleted, has no value.                            *)
(***************************************************************************)
CONSTANTS Keys, Values, NoValue

VARIABLE contents

Init == contents = [k \in Keys |-> NoValue]

Put(k, v) == contents' = [contents EXCEPT ![k] = v]

Del(k) ==
  /\ contents[k] # NoValue
  /\ contents' = [contents EXCEPT ![k] = NoValue]

Next == \E k \in Keys : Del(k) \/ \E v \in Values : Put(k, v)

Spec == Init /\ [][Next]_contents
=============================================================================
