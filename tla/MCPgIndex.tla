----------------------------- MODULE MCPgIndex -----------------------------
(* PgIndex with model values for TLC: two crates that depend on each other  *)
(* and name two keywords in opposite orders, one of them with two versions. *)
EXTENDS PgIndex, TLC

CONSTANTS k1, k2, w1, w2, v1, v2, c1

Publication(k, v, ws, ds) == [kind |-> "publish", crate |-> k, vers |-> v, cksum |-> c1,
                              words |-> ws, deps |-> ds]

FewPublications == {Publication(k1, v1, <<w1, w2>>, <<k2>>),
                    Publication(k1, v2, <<w1>>, <<>>),
                    Publication(k2, v1, <<w2, w1>>, <<k1>>)}

Symmetry == Permutations(Procs)
=============================================================================
