-------------------------------- MODULE MCFtl --------------------------------
(***************************************************************************)
(* Instances of Ftl for TLC.                                               *)
(***************************************************************************)
EXTENDS Ftl
=============================================================================
