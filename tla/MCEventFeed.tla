----------------------------- MODULE MCEventFeed -----------------------------
(***************************************************************************)
(* Instances of EventFeed for TLC: the values are in the .cfg files.       *)
(***************************************************************************)
EXTENDS EventFeed
=============================================================================
