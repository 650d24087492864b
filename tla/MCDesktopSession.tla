-------------------------- MODULE MCDesktopSession --------------------------
(***************************************************************************)
(* Instances of DesktopSession for TLC: the values are in the .cfg files.  *)
(***************************************************************************)
EXTENDS DesktopSession
=============================================================================
