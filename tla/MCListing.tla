----------------------------- MODULE MCListing -----------------------------
(* Listing for TLC: /all at once, in pages of one crate and of none; a search  *)
(* for the second crate and one for a part of the directory's name.           *)
EXTENDS Listing

AllBackends == {"directory", "bucket", "postgres"}
OnlyDirectory == {"directory"}

WholeList == [kind |-> "list", page |-> None, per_page |-> 0]
Pages(n) == [kind |-> "list", page |-> 0, per_page |-> n]
Searches1 ==
  {[kind |-> "search", names |-> {2}, by_path |-> FALSE, per_page |-> None],
   [kind |-> "search", names |-> Crates, by_path |-> TRUE, per_page |-> 1]}
\* Files ignore pages.
FewQueries == [b \in Backends |-> {WholeList} \cup Searches1
                                    \cup IF b = "postgres" THEN {Pages(1), Pages(0)} ELSE {}]
OnlyWholeList == [b \in Backends |-> {WholeList}]
=============================================================================
