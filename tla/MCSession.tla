----------------------------- MODULE MCSession -----------------------------
(* Session with model values for TLC.  The lengths of the tarballs are those *)
(* at which the parser decides, and one that takes two bytes to write.       *)
EXTENDS Session, TLC

Symmetry == Permutations(Users) \cup Permutations(Tokens)

MCDoc == [c \in Crates |-> <<7, 8>>]
MCTarballs == {<<>>, <<1>>, [i \in 1 .. 257 |-> 1]}
=============================================================================
