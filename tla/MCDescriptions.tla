--------------------------- MODULE MCDescriptions ---------------------------
(***************************************************************************)
(* Instances of Descriptions for TLC: the values are in the .cfg files.    *)
(***************************************************************************)
EXTENDS Descriptions, TLC

Symmetry == Permutations(Requests) \cup Permutations(Texts)
=============================================================================
