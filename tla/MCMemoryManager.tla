--------------------------- MODULE MCMemoryManager ---------------------------
(***************************************************************************)
(* Instances of MemoryManager for TLC.  Addresses are pairs and the code   *)
(* only compares zones and tables for equality, so both are symmetric.     *)
(***************************************************************************)
EXTENDS MemoryManager, TLC

Symmetry == Permutations(Zones) \cup Permutations(Tables)
=============================================================================
