------------------------------ MODULE MCKVStore ------------------------------
(***************************************************************************)
(* Instances of KVStore for TLC.                                           *)
(***************************************************************************)
EXTENDS KVStore

CONSTANTS v1, v2

UnitSize  == [s \in Values \cup {DEL, Empty} |-> IF s = Empty THEN 0 ELSE 1]
MixedSize == (Empty :> 0) @@ (DEL :> 1) @@ [s \in Values |-> IF s = v2 THEN 3 ELSE 2]
=============================================================================
