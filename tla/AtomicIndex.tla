---------------------------- MODULE AtomicIndex ----------------------------
(***************************************************************************)
(* What the trait IndexProvider promises of an index: "Operations performed *)
(* via this client MUST be atomic".  Publishing and yanking happen at once, *)
(* on the crate as it is at that moment.                                    *)
(***************************************************************************)
EXTENDS IndexFile

CONSTANT Keys   \* the crates

VARIABLE index  \* crate -> what the index knows of it

Init == index = [k \in Keys |-> NoFile]

publish(k, v, c) ==
  /\ ~Lists(index[k], v)
  /\ index' = [index EXCEPT ![k] = WithVersion(@, v, c)]

set_yanked(k, v, b) ==
  /\ Lists(index[k], v)
  /\ index' = [index EXCEPT ![k] = WithYanked(@, v, b)]

Next == \E k \in Keys, v \in Versions :
           \/ \E c \in Cksums : publish(k, v, c)
           \/ \E b \in BOOLEAN : set_yanked(k, v, b)

Spec == Init /\ [][Next]_index
-----------------------------------------------------------------------------
TypeOK == index \in [Keys -> Contents]

(***************************************************************************)
(* A version is published at most once, whatever was yanked in between.     *)
(***************************************************************************)
UniqueVersions == \A k \in Keys : UniqueIn(index[k])

(***************************************************************************)
(* What a user resolved against stays: no entry disappears, moves or        *)
(* changes its checksum.                                                    *)
(***************************************************************************)
EntriesImmutable == [][\A k \in Keys : Extends(index[k], index'[k])]_index
=============================================================================
