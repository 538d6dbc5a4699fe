---------------------------- MODULE MCPageCache -----------------------------
(***************************************************************************)
(* Instances of PageCache for TLC.  Tables are symmetric.                  *)
(***************************************************************************)
EXTENDS PageCache

TwoZones == 0 .. 1
Symmetry == Permutations(Tables)
=============================================================================
