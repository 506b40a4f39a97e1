------------------------------ MODULE MCFsAuth ------------------------------
(* FsAuth with model values for TLC; see the .cfg files for the sizes. *)
EXTENDS FsAuth, TLC

Symmetry == Permutations(Users) \cup Permutations(Tokens) \cup Permutations(Crates)
=============================================================================
