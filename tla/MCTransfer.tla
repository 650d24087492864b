----------------------------- MODULE MCTransfer -----------------------------
(***************************************************************************)
(* Instances of ArtifactTransfer for TLC: the values are in the .cfg files. *)
(***************************************************************************)
EXTENDS ArtifactTransfer, TLC

Symmetry == Permutations(Uploads)
=============================================================================
