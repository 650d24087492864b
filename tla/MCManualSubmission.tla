------------------------- MODULE MCManualSubmission -------------------------
(***************************************************************************)
(* Instances of ManualSubmission for TLC: the values are in the .cfg files. *)
(***************************************************************************)
EXTENDS ManualSubmission, TLC

Symmetry == Permutations(Requests) \cup Permutations(Notebooks) \cup Permutations(Keys)
=============================================================================
