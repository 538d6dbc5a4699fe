----------------------------- MODULE MCSkipList -----------------------------
(***************************************************************************)
(* An instance of SkipList for TLC: 7 is UINT64_MAX, the strings have 2, 3 *)
(* and 4 bytes, and the filter has false positives.                        *)
(***************************************************************************)
EXTENDS SkipList

CONSTANTS v2, v3, v4

Lengths == (Empty :> 0) @@ (v2 :> 2) @@ (v3 :> 3) @@ (v4 :> 4)
Hash == (1 :> {0, 1}) @@ (2 :> {1, 2}) @@ (3 :> {0, 2}) @@ (6 :> {3}) @@ (7 :> {0})
=============================================================================
