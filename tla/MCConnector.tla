---------------------------- MODULE MCConnector -----------------------------
(***************************************************************************)
(* Instances of Connector for TLC: the values are in the .cfg files.       *)
(***************************************************************************)
EXTENDS Connector
=============================================================================
