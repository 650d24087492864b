---------------------------- MODULE MCCredentials ---------------------------
(***************************************************************************)
(* Instances of Credentials for TLC: the values are in the .cfg files.     *)
(***************************************************************************)
EXTENDS Credentials
=============================================================================
