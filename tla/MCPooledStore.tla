--------------------------- MODULE MCPooledStore ----------------------------
(***************************************************************************)
(* Instances of PooledStore for TLC.                                       *)
(***************************************************************************)
EXTENDS PooledStore

NumberedZones == 0 .. (total - 1)
=============================================================================
