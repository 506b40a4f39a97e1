----------------------------- MODULE MCFsIndex -----------------------------
(* FsIndex with model values for TLC; see the .cfg files for the sizes. *)
EXTENDS FsIndex, TLC

Symmetry == Permutations(Procs) \cup Permutations(Keys)
              \cup Permutations(Versions) \cup Permutations(Cksums)
=============================================================================
