--------------------------- MODULE MCAccessLocks ---------------------------
(* AccessLocks with model values for TLC; see the .cfg files for the sizes. *)
EXTENDS AccessLocks, TLC

Symmetry == Permutations(Procs) \cup Permutations(Keys) \cup Permutations(Locks)
=============================================================================
