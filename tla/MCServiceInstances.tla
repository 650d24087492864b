------------------------- MODULE MCServiceInstances -------------------------
(***************************************************************************)
(* Instances of ServiceInstances for TLC: the values are in the .cfg files. *)
(***************************************************************************)
EXTENDS ServiceInstances
=============================================================================
