--------------------------- MODULE MCPublishFlow ---------------------------
(* PublishFlow with model values for TLC; see the .cfg files for the sizes. *)
EXTENDS PublishFlow, TLC

Symmetry == Permutations(Procs) \cup Permutations(Versions) \cup Permutations(Cksums)
=============================================================================
