--------------------------- MODULE Listing_proofs ---------------------------
(***************************************************************************)
(* For any number of crates, versions, pages and queries, with files, a     *)
(* bucket or PostgreSQL, while others publish, with failing reads and       *)
(* crashes: an answer misses no crate, and shows nothing that is not in the *)
(* index.                                                                   *)
(***************************************************************************)
EXTENDS Listing, FiniteSetTheorems, TLAPS

\* The types of what is stored and of what is asked.
StorageOK == /\ backend \in Backends
             /\ index \in [Crates -> Counts]
             /\ dirs \subseteq Crates
             /\ temp \in [Crates -> Data \cup {None}]
             /\ left \in [Crates -> Data \cup {None}]
             /\ \A c \in Crates : (temp[c] # None \/ left[c] # None) => c \in dirs

ListingOK == /\ query \in Lists \cup Searches \cup {None}
             /\ state \in {"idle"} \cup Waiting \cup Answers
             /\ todo \subseteq Crates
             /\ keys \subseteq Keys
             /\ shown \subseteq Entries
             /\ since \in [Crates -> Counts]
             /\ passed \subseteq Crates
             /\ todo # {} => state = "walk"
             /\ query = None <=> state = "idle"

LEMMA TypeParts == TypeOK <=> StorageOK /\ ListingOK
  BY DEF TypeOK, StorageOK, ListingOK

\* A put under way writes the next version; other backends have none.
PutsFine ==
  \A c \in Crates : temp[c] # None =>
    /\ backend = "directory" /\ index[c] < NumVersions
    /\ temp[c].rest = "publish" => temp[c].versions = index[c] + 1

LEMMA DataTyped ==
  /\ \A n \in Counts : Complete(n) \in Data /\ Complete(n).rest = "publish"
                       /\ Complete(n).versions = n /\ Complete(n) \notin {Empty, Cut}
  /\ Empty \in Data /\ Empty.rest # "publish" /\ Cut \in Data /\ Cut.rest # "publish"
  /\ \A d \in Data : d.versions \in Counts /\ d # None
  /\ \A n \in Counts : \A d \in Beginnings(n) : d \in Data /\ d.rest # "publish"
<1>1. NumVersions \in Nat /\ 0 \in Counts
  BY NumbersAssumption DEF Counts
<1>2. Empty \in Data /\ Empty.rest # "publish" /\ Cut \in Data /\ Cut.rest # "publish"
  BY <1>1 DEF Empty, Cut, Data
<1>3. \A n \in Counts : Complete(n) \in Data /\ Complete(n).rest = "publish"
                        /\ Complete(n).versions = n
  BY DEF Complete, Data
<1>4. \A n \in Counts : Complete(n) \notin {Empty, Cut}
  BY <1>2, <1>3
<1>5. \A n \in Counts : \A d \in Beginnings(n) : d \in Data /\ d.rest # "publish"
  BY <1>1, <1>2 DEF Beginnings, Data, Counts
<1>6. \A d \in Data : d.versions \in Counts /\ d # None
  BY NoDataAssumption DEF Data
<1> QED
  BY <1>2, <1>3, <1>4, <1>5, <1>6

LEMMA NextCount ==
  ASSUME NEW n \in Counts, n < NumVersions
  PROVE  n + 1 \in Counts /\ n \in Nat
  BY NumbersAssumption DEF Counts

\* What a put does to the temporary file of a crate and to the index.
PutMoves(c) ==
  \/ /\ index[c] < NumVersions /\ temp' = [temp EXCEPT ![c] = Empty]
     /\ dirs' = dirs \cup {c} /\ UNCHANGED index
  \/ \E d \in Data : /\ d.rest = "publish" => d.versions = index[c] + 1
                     /\ temp[c] # None /\ temp' = [temp EXCEPT ![c] = d]
                     /\ UNCHANGED <<index, dirs>>
  \/ /\ temp[c] # None /\ temp' = [temp EXCEPT ![c] = None]
     /\ UNCHANGED dirs
     /\ UNCHANGED index \/ index' = [index EXCEPT ![c] = @ + 1]

LEMMA PutMoved ==
  ASSUME StorageOK, PutsFine, NEW c \in Crates, put_file(c)
  PROVE  PutMoves(c) /\ backend = "directory" /\ UNCHANGED <<backend, left>>
<1>0. backend = "directory" /\ UNCHANGED <<backend, left>>
  BY DEF put_file
<1>1. ASSUME temp[c] # None
      PROVE  index[c] \in Counts /\ index[c] + 1 \in Counts /\ temp[c] \in Data
  BY <1>1, NextCount DEF StorageOK, PutsFine
<1>2. ASSUME temp[c] = None, index[c] < NumVersions, Create(c)
      PROVE  PutMoves(c)
  BY <1>2 DEF Create, PutMoves
<1>3. ASSUME temp[c] = Empty, NEW d \in Beginnings(index[c] + 1), Write(c, d)
      PROVE  PutMoves(c)
  <2>1. temp[c] # None
    BY <1>3, DataTyped
  <2>2. d \in Data /\ d.rest # "publish"
    BY <1>1, <2>1, DataTyped
  <2> QED
    BY <1>3, <2>1, <2>2 DEF Write, PutMoves
<1>4. ASSUME temp[c] # None, Write(c, Complete(index[c] + 1))
      PROVE  PutMoves(c)
  BY <1>1, <1>4, DataTyped DEF Write, PutMoves
<1>5. ASSUME temp[c] # None, temp[c].rest = "publish", Persist(c)
      PROVE  PutMoves(c)
  BY <1>5 DEF Persist, PutMoves, PutsFine
<1>6. ASSUME temp[c] # None, Discard(c)
      PROVE  PutMoves(c)
  BY <1>6 DEF Discard, PutMoves
<1> QED
  BY <1>0, <1>2, <1>3, <1>4, <1>5, <1>6 DEF put_file

\* What a step does to the storage: a put, a publication, a crash, or nothing.
LEMMA StorageSteps ==
  ASSUME [Next]_vars
  PROVE  \/ \E c \in Crates : /\ put_file(c)
                              /\ UNCHANGED <<query, state, todo, shown, since, passed>>
         \/ \E c \in Crates : /\ Publish(c)
                              /\ UNCHANGED <<query, state, todo, shown, since, passed>>
         \/ Crash
         \/ UNCHANGED storage
<1>1. CASE UNCHANGED vars
  BY <1>1 DEF vars
<1>2. ASSUME \/ \E q \in Queries[backend] : Ask(q)
             \/ \E c \in Crates : Walk(c)
             \/ NoIndexDir \/ Walked \/ ListObjects \/ ListFails
             \/ \E k \in keys : Pull(k) \/ PullFails(k)
             \/ Pulled \/ ListRows \/ SearchRows \/ NextPage \/ Leave
      PROVE  UNCHANGED storage
  BY <1>2 DEF Ask, Walk, NoIndexDir, Walked, Pulling, ListObjects, ListFails, Pull,
     PullFails, Pulled, ListRows, SearchRows, NextPage, Leave
<1> QED
  BY <1>1, <1>2 DEF Next

LEMMA StorageStep ==
  ASSUME StorageOK, PutsFine, [Next]_vars
  PROVE  /\ StorageOK' /\ PutsFine'
         /\ \A c \in Crates : index[c] <= index'[c]
<1>0. NumVersions \in Nat /\ \A n \in Counts : n \in Nat /\ n <= NumVersions
  BY NumbersAssumption DEF Counts
<1> DEFINE Goal == /\ StorageOK' /\ PutsFine'
                   /\ \A c \in Crates : index[c] <= index'[c]
<1>1. ASSUME NEW c \in Crates, PutMoves(c), backend = "directory", UNCHANGED <<backend, left>>
      PROVE  Goal
  <2>1. CASE /\ index[c] < NumVersions /\ temp' = [temp EXCEPT ![c] = Empty]
             /\ dirs' = dirs \cup {c} /\ UNCHANGED index
    <3>1. Empty \in Data /\ Empty.rest # "publish"
      BY DataTyped
    <3> QED
      BY <1>0, <1>1, <2>1, <3>1 DEF StorageOK, PutsFine
  <2>2. ASSUME NEW d \in Data, d.rest = "publish" => d.versions = index[c] + 1,
               temp[c] # None, temp' = [temp EXCEPT ![c] = d], UNCHANGED <<index, dirs>>
        PROVE  Goal
    BY <1>0, <1>1, <2>2 DEF StorageOK, PutsFine
  <2>3. CASE /\ temp[c] # None /\ temp' = [temp EXCEPT ![c] = None]
             /\ UNCHANGED <<index, dirs>>
    BY <1>0, <1>1, <2>3 DEF StorageOK, PutsFine
  <2>4. CASE /\ temp[c] # None /\ temp' = [temp EXCEPT ![c] = None]
             /\ UNCHANGED dirs /\ index' = [index EXCEPT ![c] = @ + 1]
    <3>1. index[c] + 1 \in Counts
      BY <2>4, NextCount DEF StorageOK, PutsFine
    <3> QED
      BY <1>0, <1>1, <2>4, <3>1 DEF StorageOK, PutsFine
  <2> QED
    BY <1>1, <2>1, <2>2, <2>3, <2>4 DEF PutMoves
<1>2. ASSUME NEW c \in Crates, Publish(c) PROVE Goal
  <2>1. /\ backend # "directory" /\ index' = [index EXCEPT ![c] = @ + 1]
        /\ UNCHANGED <<backend, dirs, temp, left>> /\ index[c] \in Counts
        /\ index[c] + 1 \in Counts
    BY <1>2, NextCount DEF Publish, StorageOK
  <2> QED
    BY <1>0, <2>1 DEF StorageOK, PutsFine
<1>3. CASE Crash
  <2>1. /\ left' = [c \in Crates |-> IF temp[c] # None THEN temp[c] ELSE left[c]]
        /\ temp' = [c \in Crates |-> None] /\ UNCHANGED <<backend, index, dirs>>
    BY <1>3 DEF Crash
  <2> QED
    BY <1>0, <2>1 DEF StorageOK, PutsFine
<1>4. CASE UNCHANGED storage
  BY <1>0, <1>4 DEF storage, StorageOK, PutsFine
<1> QED
  BY <1>1, <1>2, <1>3, <1>4, StorageSteps, PutMoved

\* Between listings nothing is left of the last one.
Quiet == /\ state = "idle" => keys = {} /\ shown = {} /\ passed = {}
         /\ todo # {} => backend = "directory"
         /\ backend = "postgres" => state # "pull"

LEMMA ChosenFound ==
  ASSUME NEW found, NEW ks \in Chosen(found)
  PROVE  ks \subseteq found
  BY DEF Chosen, kSubset

\* The files chosen are read, and those passed over noted.
LEMMA PullsChosen ==
  ASSUME NEW found, NEW all, Pulling(found, all)
  PROVE  /\ keys' \subseteq found
         /\ passed' = passed \cup {k.crate : k \in {k \in all \ keys' : k.kind = "file"}}
         /\ state' = "pull" /\ UNCHANGED <<storage, query, todo, shown, since>>
  BY ChosenFound DEF Pulling

LEMMA ReadIsData ==
  ASSUME StorageOK, NEW k \in Keys, DataOf(k) # None
  PROVE  DataOf(k) \in Data
<1>1. k.crate \in Crates /\ k.kind \in Kinds
  BY DEF Keys
<1>2. index[k.crate] \in Counts /\ temp[k.crate] \in Data \cup {None}
      /\ left[k.crate] \in Data \cup {None}
  BY <1>1 DEF StorageOK
<1> QED
  BY <1>1, <1>2, DataTyped DEF DataOf, Kinds

LEMMA ForgetsAll ==
  ASSUME Forget
  PROVE  ListingOK' /\ Quiet'
<1>1. 0 \in Counts
  BY NumbersAssumption DEF Counts
<1>2. since' \in [Crates -> Counts]
  BY <1>1 DEF Forget
<1> QED
  BY <1>2 DEF Forget, ListingOK, Quiet

\* A publication changes only the names of the files still to be read.
LEMMA PutKeys ==
  ASSUME ListingOK, Quiet, NEW c \in Crates, put_file(c) \/ Publish(c)
  PROVE  /\ keys' \subseteq Keys
         /\ keys = {} => keys' = {}
         /\ \A d \in Crates : [crate |-> d, kind |-> "file"] \in keys =>
                              [crate |-> d, kind |-> "file"] \in keys'
<1>1. keys' = keys \/ keys' = Unnamed(c)
  BY DEF put_file, Publish
<1>2. CASE keys' = Unnamed(c)
  <2>1. \A k \in Keys : [k EXCEPT !.kind = "gone"] \in Keys
    BY DEF Keys, Kinds
  <2>2. Unnamed(c) \subseteq Keys
    BY <2>1 DEF Unnamed, ListingOK
  <2>3. ASSUME NEW d \in Crates, [crate |-> d, kind |-> "file"] \in keys
        PROVE  [crate |-> d, kind |-> "file"] \in Unnamed(c)
    <3>1. [crate |-> d, kind |-> "file"] # [crate |-> c, kind |-> "temp"]
      OBVIOUS
    <3> QED
      BY <2>3, <3>1 DEF Unnamed
  <2>4. keys = {} => Unnamed(c) = {}
    BY DEF Unnamed
  <2> QED
    BY <1>2, <2>2, <2>3, <2>4
<1> QED
  BY <1>1, <1>2 DEF ListingOK

LEMMA ListingStep ==
  ASSUME StorageOK, ListingOK, Quiet, [Next]_vars
  PROVE  ListingOK' /\ Quiet'
<1>1. ASSUME NEW c \in Crates, put_file(c) \/ Publish(c),
             UNCHANGED <<query, state, todo, shown, since, passed>>
      PROVE  ListingOK' /\ Quiet'
  <2>1. UNCHANGED backend
    BY <1>1 DEF put_file, Publish
  <2>2. keys' \subseteq Keys /\ (keys = {} => keys' = {})
    BY <1>1, PutKeys
  <2>3. ListingOK'
    BY <1>1, <2>2 DEF ListingOK
  <2> QED
    BY <1>1, <2>1, <2>2, <2>3 DEF Quiet
<1>2. ASSUME NEW q \in Queries[backend], Ask(q)
      PROVE  ListingOK' /\ Quiet'
  <2>1. q \in Lists \cup Searches /\ q # None
    BY QueriesAssumption, NoneAssumption DEF StorageOK
  <2> QED
    BY <1>2, <2>1 DEF Ask, storage, StorageOK, ListingOK, Quiet, Waiting
<1>3. ASSUME NEW c \in Crates, Walk(c)
      PROVE  ListingOK' /\ Quiet'
  <2>1. FilesOf(c) \subseteq Keys
    BY DEF FilesOf, Keys, Kinds
  <2> QED
    BY <1>3, <2>1 DEF Walk, storage, ListingOK, Quiet
<1>4. CASE NoIndexDir \/ ListFails \/ Pulled
  BY <1>4 DEF NoIndexDir, ListFails, Pulled, storage, ListingOK, Quiet, Answers, Waiting
<1>5. ASSUME NEW found, NEW all, found \subseteq Keys, all \subseteq Keys, todo = {},
             backend # "postgres", state = "walk", Pulling(found, all)
      PROVE  ListingOK' /\ Quiet'
  <2>1. /\ keys' \subseteq Keys /\ state' = "pull" /\ UNCHANGED <<storage, query, todo, shown, since>>
        /\ passed' = passed \cup {k.crate : k \in {k \in all \ keys' : k.kind = "file"}}
    BY <1>5, PullsChosen
  <2>2. passed' \subseteq Crates
    BY <1>5, <2>1 DEF ListingOK, Keys
  <2> QED
    BY <1>5, <2>1, <2>2 DEF storage, ListingOK, Quiet, Waiting
<1>6. CASE Walked
  BY <1>5, <1>6 DEF Walked, ListingOK
<1>7. CASE ListObjects
  <2> DEFINE all == {[crate |-> c, kind |-> "file"] : c \in Published}
             first == {k \in all :
                         Cardinality({j \in all : j.crate <= k.crate}) <= ObjectLimit}
  <2>1. all \subseteq Keys /\ first \subseteq all
    BY DEF Keys, Kinds, Published
  <2>2. /\ backend = "bucket" /\ state = "walk" /\ todo = {}
        /\ Pulling({k \in first : Retained(query, k)}, {k \in all : Retained(query, k)})
    BY <1>7 DEF ListObjects, Quiet
  <2> HIDE DEF all, first
  <2>3. /\ {k \in first : Retained(query, k)} \subseteq Keys
        /\ {k \in all : Retained(query, k)} \subseteq Keys
    BY <2>1
  <2> QED
    BY <1>5, <2>2, <2>3
<1>8. ASSUME NEW k \in keys, Pull(k)
      PROVE  ListingOK' /\ Quiet'
  <2>1. k \in Keys /\ k.crate \in Crates /\ k.kind \in Kinds
    BY DEF ListingOK, Keys
  <2>2. CASE shown' = shown
    BY <1>8, <2>2 DEF Pull, storage, ListingOK, Quiet, Answers, Waiting
  <2>3. CASE shown' # shown
    <3>1. DataOf(k) # None /\ UNCHANGED state
          /\ shown' = shown \cup {[crate |-> k.crate, kind |-> k.kind,
                                   versions |-> DataOf(k).versions]}
      BY <1>8, <2>3 DEF Pull
    <3>2. DataOf(k).versions \in Counts
      BY <2>1, <3>1, ReadIsData, DataTyped
    <3>3. shown' \subseteq Entries
      BY <2>1, <3>1, <3>2 DEF ListingOK, Entries
    <3> QED
      BY <1>8, <3>1, <3>3 DEF Pull, storage, ListingOK, Quiet
  <2> QED
    BY <2>2, <2>3
<1>9. ASSUME NEW k \in keys, PullFails(k)
      PROVE  ListingOK' /\ Quiet'
  <2>1. k.crate \in Crates
    BY DEF ListingOK, Keys
  <2> QED
    BY <1>9, <2>1 DEF PullFails, storage, ListingOK, Quiet
<1>10. ASSUME NEW cs, cs \subseteq Crates, ShowRows(cs)
       PROVE  shown' \subseteq Entries
  BY <1>10 DEF ShowRows, Entries, ListingOK, StorageOK
<1>11. Published \subseteq Crates
  BY DEF Published
<1>12. CASE ListRows
  <2>1. shown' \subseteq Entries
    BY <1>10, <1>11, <1>12 DEF ListRows, Page, ListingOK
  <2> QED
    BY <1>12, <2>1 DEF ListRows, storage, ListingOK, Quiet, Answers
<1>13. CASE SearchRows
  <2>1. shown' \subseteq Entries /\ passed' \subseteq Crates
    BY <1>10, <1>11, <1>13 DEF SearchRows, kSubset, ListingOK
  <2> QED
    BY <1>13, <2>1 DEF SearchRows, storage, ListingOK, Quiet, Answers
<1>14. CASE NextPage
  <2>1. query \in Lists /\ query.page \in Nat
    BY <1>14 DEF NextPage, ListingOK, Lists, Searches
  <2>2. query' \in Lists /\ query' # None
    BY <1>14, <2>1, NoneAssumption DEF NextPage, Lists
  <2> QED
    BY <1>14, <2>2 DEF NextPage, storage, ListingOK, Quiet, Waiting
<1>15. CASE Leave \/ Crash
  BY <1>15, ForgetsAll DEF Leave, Crash
<1>16. CASE UNCHANGED vars
  BY <1>16 DEF vars, storage, ListingOK, Quiet
<1> QED
  BY <1>1, <1>2, <1>3, <1>4, <1>6, <1>7, <1>8, <1>9, <1>12, <1>13, <1>14, <1>15, <1>16
     DEF Next

\* A crate never loses a version while a listing is under way.
Grown == \A c \in Crates : since[c] <= index[c]

LEMMA CurrentStep ==
  ASSUME StorageOK, ListingOK, Quiet, Grown, ShownIsCurrent, ListingOK',
         \A c \in Crates : index[c] <= index'[c] /\ index'[c] \in Nat, [Next]_vars
  PROVE  Grown' /\ ShownIsCurrent'
<1> DEFINE New == shown' \ shown
<1>1. \A n \in Counts : n \in Nat
  BY NumbersAssumption DEF Counts
<1>2. \A c \in Crates : index[c] \in Nat /\ since[c] \in Nat
  BY <1>1 DEF StorageOK, ListingOK
<1>3. \A e \in shown : e.crate \in Crates /\ e.versions \in Nat
  BY <1>1 DEF ListingOK, Entries
<1>4. ASSUME UNCHANGED since,
             \A e \in shown' \ shown : e.kind \in {"file", "row"} =>
                e.crate \in Crates /\ e.versions = index[e.crate]
      PROVE  Grown' /\ ShownIsCurrent'
  BY <1>2, <1>3, <1>4 DEF Grown, ShownIsCurrent
<1>5. ASSUME NEW q \in Queries[backend], Ask(q)
      PROVE  Grown' /\ ShownIsCurrent'
  BY <1>2, <1>5 DEF Ask, Quiet, storage, Grown, ShownIsCurrent
<1>6. ASSUME Forget
      PROVE  Grown' /\ ShownIsCurrent'
  BY <1>2, <1>6 DEF Forget, Grown, ShownIsCurrent
<1>7. ASSUME NEW k \in keys, Pull(k)
      PROVE  Grown' /\ ShownIsCurrent'
  <2>1. k.crate \in Crates
    BY DEF ListingOK, Keys
  <2>2. UNCHANGED since /\
        (shown' = shown \/ shown' = shown \cup {[crate |-> k.crate, kind |-> k.kind,
                                                versions |-> DataOf(k).versions]})
    BY <1>7 DEF Pull
  <2>3. k.kind = "file" => DataOf(k).versions = index[k.crate]
    BY DEF DataOf, Complete
  <2>4. k.kind # "row"
    BY DEF ListingOK, Keys, Kinds
  <2> QED
    BY <1>4, <2>1, <2>2, <2>3, <2>4
<1>8. ASSUME NEW cs, cs \subseteq Crates, ShowRows(cs), UNCHANGED since
      PROVE  Grown' /\ ShownIsCurrent'
  BY <1>4, <1>8 DEF ShowRows
<1>9. Published \subseteq Crates
  BY DEF Published
<1>10. CASE ListRows
  <2>1. shown' = shown \/ \E cs \in SUBSET Crates : ShowRows(cs)
    BY <1>9, <1>10 DEF ListRows, Page
  <2>2. UNCHANGED since
    BY <1>10 DEF ListRows
  <2> QED
    BY <1>4, <1>8, <2>1, <2>2
<1>11. CASE SearchRows
  <2>1. \E cs \in SUBSET Crates : ShowRows(cs)
    BY <1>9, <1>11 DEF SearchRows, kSubset
  <2>2. UNCHANGED since
    BY <1>11 DEF SearchRows
  <2> QED
    BY <1>8, <2>1, <2>2
<1>12. ASSUME \/ \E c \in Crates : Walk(c)
              \/ NoIndexDir \/ Walked \/ ListObjects \/ ListFails
              \/ \E k \in keys : PullFails(k)
              \/ Pulled \/ NextPage \/ UNCHANGED vars
       PROVE  Grown' /\ ShownIsCurrent'
  <2>1. UNCHANGED <<shown, since>>
    BY <1>12, PullsChosen DEF Walk, NoIndexDir, Walked, ListObjects, ListFails,
       PullFails, Pulled, NextPage, vars
  <2> QED
    BY <1>4, <2>1
<1>13. ASSUME UNCHANGED <<query, state, todo, shown, since, passed>>
       PROVE  Grown' /\ ShownIsCurrent'
  BY <1>4, <1>13
<1> QED
  BY <1>5, <1>6, <1>7, <1>10, <1>11, <1>12, <1>13 DEF Next, Leave, Crash

FileKey(c) == [crate |-> c, kind |-> "file"]

\* Crate c is to be shown and is not yet.
Sought(c) == /\ state # "idle" /\ c \notin passed
             /\ since[c] > 0 /\ Matches(query, c) /\ ~ShownAsOf(c)

\* In an index of files, it is still to be found, or to be read.
FilesSought ==
  backend # "postgres" => \A c \in Crates : Sought(c) =>
    /\ state = "walk" /\ backend = "directory" => c \in todo \/ FileKey(c) \in keys
    /\ state = "pull" => FileKey(c) \in keys
    /\ state # "Ok"

\* What is sought was sought before the step, unless it has just been asked for.
LEMMA SoughtBefore ==
  ASSUME NEW c \in Crates, Sought(c)', UNCHANGED <<query, since>>, state # "idle",
         shown \subseteq shown', passed \subseteq passed'
  PROVE  Sought(c)
  BY DEF Sought, ShownAsOf, Matches

\* Its file exists, and search keeps it.
LEMMA SoughtExists ==
  ASSUME StorageOK, ListingOK, Grown, NEW c \in Crates, Sought(c)
  PROVE  /\ index[c] > 0 /\ since[c] <= index[c] /\ c \in Published
         /\ Retained(query, FileKey(c)) /\ FileKey(c) \in FilesOf(c)
<1>1. index[c] \in Nat /\ since[c] \in Nat /\ since[c] > 0 /\ since[c] <= index[c]
  BY NumbersAssumption DEF StorageOK, ListingOK, Counts, Grown, Sought
<1>2. index[c] > 0
  BY <1>1
<1>3. Retained(query, FileKey(c))
  BY DEF Retained, FileKey, Sought, Matches
<1>4. FileKey(c) \in FilesOf(c)
  BY <1>2 DEF FileKey, FilesOf, Kinds
<1> QED
  BY <1>1, <1>2, <1>3, <1>4 DEF Published

\* When the files to be read are chosen, it is among them, or passed over.
LEMMA SoughtChosen ==
  ASSUME NEW found, NEW all, Pulling(found, all), state # "idle",
         NEW c \in Crates, Sought(c)', FileKey(c) \in all
  PROVE  FileKey(c) \in keys'
<1>1. c \notin passed'
  BY DEF Sought
<1>2. FileKey(c).kind = "file" /\ FileKey(c).crate = c
  BY DEF FileKey
<1> QED
  BY <1>1, <1>2, PullsChosen

LEMMA FilesStep ==
  ASSUME StorageOK, ListingOK, Quiet, Grown, FilesSought, [Next]_vars
  PROVE  FilesSought'
<1> DEFINE Goal(c) ==
      /\ (state = "walk" /\ backend = "directory" => c \in todo \/ FileKey(c) \in keys)'
      /\ (state = "pull" => FileKey(c) \in keys)'
      /\ (state # "Ok")'
<1> SUFFICES ASSUME backend' # "postgres", NEW c \in Crates, Sought(c)'
             PROVE  Goal(c)
  BY DEF FilesSought
<1>0. UNCHANGED backend
  BY StorageSteps DEF put_file, Publish, Crash, storage
<1>1. ASSUME NEW d \in Crates, put_file(d) \/ Publish(d),
             UNCHANGED <<query, state, todo, shown, since, passed>>
      PROVE  Goal(c)
  <2>1. Sought(c)
    BY <1>1 DEF Sought, ShownAsOf, Matches
  <2>2. FileKey(c) \in keys => FileKey(c) \in keys'
    BY <1>1, PutKeys DEF FileKey
  <2> QED
    BY <1>0, <1>1, <2>1, <2>2 DEF FilesSought
<1>2. ASSUME NEW q \in Queries[backend], Ask(q)
      PROVE  Goal(c)
  BY <1>0, <1>2 DEF Ask
<1>3. ASSUME NEW d \in Crates, Walk(d)
      PROVE  Goal(c)
  <2>1. Sought(c)
    BY <1>3, SoughtBefore DEF Walk
  <2>2. c \in todo \/ FileKey(c) \in keys
    BY <1>3, <2>1 DEF Walk, FilesSought
  <2>3. FileKey(c) \in FilesOf(c) /\ Retained(query, FileKey(c))
    BY <2>1, SoughtExists
  <2> QED
    BY <1>3, <2>2, <2>3 DEF Walk
<1>4. CASE NoIndexDir \/ ListFails
  BY <1>4 DEF NoIndexDir, ListFails
<1>5. CASE Walked
  <2>1. Sought(c)
    BY <1>5, PullsChosen, SoughtBefore DEF Walked
  <2>2. FileKey(c) \in keys
    BY <1>0, <1>5, <2>1 DEF Walked, FilesSought
  <2> QED
    BY <1>5, <2>2, PullsChosen, SoughtChosen DEF Walked
<1>6. CASE ListObjects
  <2> DEFINE all == {[crate |-> d, kind |-> "file"] : d \in Published}
             first == {k \in all :
                         Cardinality({j \in all : j.crate <= k.crate}) <= ObjectLimit}
             found == {k \in first : Retained(query, k)}
             kept == {k \in all : Retained(query, k)}
  <2>1. state = "walk" /\ Pulling(found, kept)
    BY <1>6 DEF ListObjects
  <2>2. ASSUME Sought(c) PROVE FileKey(c) \in kept
    <3>1. c \in Published /\ Retained(query, FileKey(c))
      BY <2>2, SoughtExists
    <3> QED
      BY <3>1 DEF FileKey
  <2> HIDE DEF found, kept
  <2>3. Sought(c)
    BY <2>1, PullsChosen, SoughtBefore
  <2> QED
    BY <2>1, <2>2, <2>3, PullsChosen, SoughtChosen
<1>7. ASSUME NEW k \in keys, Pull(k)
      PROVE  Goal(c)
  <2>1. /\ UNCHANGED <<query, since, passed>> /\ state = "pull" /\ keys' = keys \ {k}
        /\ state' \in {"pull", "panic"} /\ shown \subseteq shown'
    BY <1>7 DEF Pull
  <2>2. Sought(c)
    BY <2>1, SoughtBefore
  <2>3. FileKey(c) \in keys
    BY <1>0, <2>1, <2>2 DEF FilesSought
  <2>4. FileKey(c) # k
    <3> SUFFICES ASSUME FileKey(c) = k PROVE FALSE
      OBVIOUS
    <3>1. k.crate = c /\ DataOf(k) = Complete(index[c])
      BY DEF FileKey, DataOf
    <3>2. DataOf(k) \notin {None, Cut, Empty} /\ DataOf(k).versions = index[c]
      BY <3>1, DataTyped DEF StorageOK
    <3> DEFINE e == [crate |-> c, kind |-> k.kind, versions |-> index[c]]
    <3>3. e \in shown'
      BY <1>7, <3>1, <3>2 DEF Pull
    <3>4. e.crate = c /\ since'[c] <= e.versions
      BY <2>1, <2>2, SoughtExists
    <3> HIDE DEF e
    <3>5. ShownAsOf(c)'
      BY <3>3, <3>4 DEF ShownAsOf
    <3> QED
      BY <3>5 DEF Sought
  <2> QED
    BY <2>1, <2>3, <2>4
<1>8. ASSUME NEW k \in keys, PullFails(k)
      PROVE  Goal(c)
  <2>1. Sought(c)
    BY <1>8, SoughtBefore DEF PullFails
  <2>2. FileKey(c) \in keys
    BY <1>0, <1>8, <2>1 DEF PullFails, FilesSought
  <2>3. FileKey(c) # k
    BY <1>8 DEF PullFails, FileKey, Sought
  <2> QED
    BY <1>8, <2>2, <2>3 DEF PullFails
<1>9. CASE Pulled
  <2>1. Sought(c)
    BY <1>9, SoughtBefore DEF Pulled
  <2> QED
    BY <1>0, <1>9, <2>1 DEF Pulled, FilesSought
<1>10. CASE ListRows \/ SearchRows
  BY <1>0, <1>10 DEF ListRows, SearchRows
<1>11. CASE NextPage
  <2>1. Sought(c)
    BY <1>11 DEF NextPage, Sought, ShownAsOf, Matches
  <2> QED
    BY <1>0, <1>11, <2>1 DEF NextPage, FilesSought
<1>12. CASE Leave \/ Crash
  BY <1>12 DEF Leave, Crash, Forget, Sought
<1>13. CASE UNCHANGED vars
  <2>1. Sought(c)
    BY <1>13 DEF vars, storage, Sought, ShownAsOf, Matches
  <2> QED
    BY <1>0, <1>13, <2>1 DEF vars, storage, FilesSought
<1> QED
  BY <1>1, <1>2, <1>3, <1>4, <1>5, <1>6, <1>7, <1>8, <1>9, <1>10, <1>11, <1>12, <1>13
     DEF Next

Paged == query.kind = "list" /\ query.page # None

\* In the database, it comes after the pages read so far.
RowsSought ==
  backend = "postgres" => \A c \in Crates : Sought(c) =>
    /\ state = "walk" /\ Paged => query.page * query.per_page <= Rank(Published, c)
    /\ state = "Ok" => Paged /\ (query.page + 1) * query.per_page <= Rank(Published, c)

LEMMA RankCounts ==
  ASSUME NEW cs \in SUBSET Crates, NEW c \in Crates
  PROVE  /\ Rank(cs, c) \in Nat
         /\ c \in cs => Rank(cs, c) < Cardinality(cs)
         /\ \A ds \in SUBSET Crates : cs \subseteq ds => Rank(cs, c) <= Rank(ds, c)
<1>0. IsFiniteSet(Crates) /\ Crates \subseteq Nat
  BY FS_Interval, NumbersAssumption DEF Crates
<1> DEFINE Earlier(s) == {d \in s : Before(d, c)}
<1>1. \A s \in SUBSET Crates : IsFiniteSet(s) /\ Cardinality(s) \in Nat /\ IsFiniteSet(Earlier(s))
  BY <1>0, FS_Subset, FS_CardinalityType
<1>2. Rank(cs, c) \in Nat
  BY <1>1, FS_CardinalityType DEF Rank
<1>3. ASSUME c \in cs PROVE Rank(cs, c) < Cardinality(cs)
  <2>1. c \notin Earlier(cs)
    BY <1>0 DEF Before
  <2>2. Earlier(cs) \subseteq cs /\ Earlier(cs) # cs
    BY <1>3, <2>1
  <2>3. Cardinality(Earlier(cs)) < Cardinality(cs)
    BY <1>1, <2>2, FS_Subset, FS_CardinalityType
  <2> QED
    BY <2>3 DEF Rank
<1>4. ASSUME NEW ds \in SUBSET Crates, cs \subseteq ds
      PROVE  Rank(cs, c) <= Rank(ds, c)
  <2>1. Earlier(cs) \subseteq Earlier(ds) /\ IsFiniteSet(Earlier(ds))
    BY <1>1, <1>4
  <2>2. Cardinality(Earlier(cs)) <= Cardinality(Earlier(ds))
    BY <2>1, FS_Subset
  <2> QED
    BY <2>2 DEF Rank
<1> QED
  BY <1>2, <1>3, <1>4

\* Crates published meanwhile only push others back.
LEMMA RankGrows ==
  ASSUME StorageOK, \A c \in Crates : index[c] <= index'[c] /\ index'[c] \in Nat,
         NEW c \in Crates
  PROVE  /\ Rank(Published, c) \in Nat /\ Rank(Published', c) \in Nat
         /\ Rank(Published, c) <= Rank(Published', c)
<1>1. \A d \in Crates : index[d] \in Nat
  BY NumbersAssumption DEF StorageOK, Counts
<1>2. Published \in SUBSET Crates /\ Published' \in SUBSET Crates /\ Published \subseteq Published'
  BY <1>1 DEF Published
<1> QED
  BY <1>2, RankCounts

\* What is shown of the database is no longer sought.
LEMMA RowsShown ==
  ASSUME StorageOK, ListingOK, Grown, NEW cs, ShowRows(cs), NEW c \in cs, c \in Crates,
         Sought(c), UNCHANGED since
  PROVE  ShownAsOf(c)'
<1> DEFINE e == [crate |-> c, kind |-> "row", versions |-> index[c]]
<1>1. e \in shown'
  BY DEF ShowRows
<1>2. e.crate = c /\ since'[c] <= e.versions
  BY SoughtExists
<1> HIDE DEF e
<1> QED
  BY <1>1, <1>2 DEF ShownAsOf

LEMMA RowsStep ==
  ASSUME StorageOK, ListingOK, Quiet, Grown, RowsSought, [Next]_vars,
         \A c \in Crates : index[c] <= index'[c] /\ index'[c] \in Nat
  PROVE  RowsSought'
<1> DEFINE Goal(c) ==
      /\ (state = "walk" /\ Paged => query.page * query.per_page <= Rank(Published, c))'
      /\ (state = "Ok" => Paged /\ (query.page + 1) * query.per_page <= Rank(Published, c))'
<1> SUFFICES ASSUME backend' = "postgres", NEW c \in Crates, Sought(c)'
             PROVE  Goal(c)
  BY DEF RowsSought
<1>0. UNCHANGED backend
  BY StorageSteps DEF put_file, Publish, Crash, storage
<1>r. /\ Rank(Published, c) \in Nat /\ Rank(Published', c) \in Nat
      /\ Rank(Published, c) <= Rank(Published', c)
  BY RankGrows
<1>p. state # "idle" /\ Paged =>
        query.page \in Nat /\ query.per_page \in Nat /\ query \in Lists
  BY NoneAssumption DEF Paged, ListingOK, Lists, Searches
<1>m. \A a, b \in Nat : a * b \in Nat /\ (a + 1) * b \in Nat
  OBVIOUS
<1>1. ASSUME UNCHANGED <<query, state, shown, since, passed>>
      PROVE  Goal(c)
  <2>1. Sought(c)
    BY <1>1 DEF Sought, ShownAsOf, Matches
  <2>2. Paged' <=> Paged
    BY <1>1 DEF Paged
  <2>3. /\ state = "walk" /\ Paged => query.page * query.per_page <= Rank(Published, c)
        /\ state = "Ok" => Paged /\ (query.page + 1) * query.per_page <= Rank(Published, c)
    BY <1>0, <2>1 DEF RowsSought
  <2>4. Paged => /\ query.page * query.per_page \in Nat
                 /\ (query.page + 1) * query.per_page \in Nat
    BY <1>p, <1>m, <2>1 DEF Sought
  <2> QED
    BY <1>1, <1>r, <2>2, <2>3, <2>4
<1>2. ASSUME NEW q \in Queries[backend], Ask(q)
      PROVE  Goal(c)
  <2>1. state' = "walk" /\ query' = q
    BY <1>2 DEF Ask
  <2>2. Paged' => q.page = 0 /\ q.per_page \in Nat
    BY <2>1, QueriesAssumption DEF Paged, StorageOK, Lists, Searches
  <2> QED
    BY <1>r, <2>1, <2>2
<1>3. CASE NoIndexDir \/ ListFails
  BY <1>3 DEF NoIndexDir, ListFails
<1>4. CASE \/ \E d \in Crates : Walk(d)
           \/ Walked \/ ListObjects
           \/ \E k \in keys : Pull(k) \/ PullFails(k)
           \/ Pulled
  BY <1>0, <1>4 DEF Walk, Walked, ListObjects, Pull, PullFails, Pulled, Quiet
<1>5. CASE ListRows
  <2>1. /\ state = "walk" /\ query.kind = "list" /\ UNCHANGED <<query, since, passed, index>>
        /\ shown \subseteq shown' /\ state' \in {"Ok", "panic"}
    BY <1>5 DEF ListRows, ShowRows, storage
  <2>2. Sought(c)
    BY <2>1, SoughtBefore
  <2>3. c \in Published /\ ~ShownAsOf(c)'
    BY <2>2, SoughtExists DEF Sought
  <2>4. Published' = Published /\ (Paged' <=> Paged)
    BY <2>1 DEF Published, Paged
  <2>5. CASE ~Paged
    BY <1>5, <2>1, <2>2, <2>3, <2>5, RowsShown DEF ListRows, Paged
  <2>6. CASE Paged /\ state' = "Ok"
    <3>1. ShowRows(Page(Published, query.per_page, query.page))
      BY <1>5, <2>6 DEF ListRows, Paged
    <3>2. c \notin Page(Published, query.per_page, query.page)
      BY <2>1, <2>2, <2>3, <3>1, RowsShown
    <3>3. query.page * query.per_page <= Rank(Published, c)
      BY <1>0, <2>1, <2>2, <2>6 DEF RowsSought
    <3>4. ~(Rank(Published, c) < (query.page + 1) * query.per_page)
      BY <2>3, <3>2, <3>3 DEF Page
    <3>5. (query.page + 1) * query.per_page \in Nat
      BY <1>p, <1>m, <2>1, <2>6
    <3>6. (query.page + 1) * query.per_page <= Rank(Published, c)
      BY <1>r, <3>4, <3>5
    <3> QED
      BY <2>1, <2>4, <2>6, <3>6
  <2> QED
    BY <2>1, <2>5, <2>6
<1>6. CASE SearchRows
  <2> DEFINE found == {d \in Published : Matches(query, d)}
  <2>1. PICK cs \in SUBSET found : ShowRows(cs) /\ passed' = passed \cup (found \ cs)
    BY <1>6 DEF SearchRows, kSubset
  <2>2. UNCHANGED <<query, since>> /\ state = "walk" /\ shown \subseteq shown'
    BY <1>6, <2>1 DEF SearchRows, ShowRows
  <2>3. Sought(c)
    BY <2>1, <2>2, SoughtBefore
  <2>4. c \in found
    BY <2>3, SoughtExists DEF Sought
  <2>5. c \in cs
    BY <2>1, <2>4 DEF Sought
  <2> QED
    BY <2>1, <2>2, <2>3, <2>5, RowsShown DEF Sought
<1>7. CASE NextPage
  <2>1. /\ state = "Ok" /\ state' = "walk" /\ UNCHANGED <<shown, since, passed, index>>
        /\ Paged /\ query' = [query EXCEPT !.page = @ + 1]
    BY <1>7 DEF NextPage, storage, Paged
  <2>2. query'.page = query.page + 1 /\ query'.per_page = query.per_page
        /\ query'.kind = query.kind
    BY <1>p, <2>1 DEF Lists
  <2>3. Sought(c)
    BY <2>1, <2>2 DEF Sought, ShownAsOf, Matches, Paged
  <2>4. (query.page + 1) * query.per_page <= Rank(Published, c)
    BY <1>0, <2>1, <2>3 DEF RowsSought
  <2>5. Published' = Published
    BY <2>1 DEF Published
  <2> QED
    BY <2>1, <2>2, <2>4, <2>5
<1>8. CASE Leave \/ Crash
  BY <1>8 DEF Leave, Crash, Forget, Sought
<1> QED
  BY <1>1, <1>2, <1>3, <1>4, <1>5, <1>6, <1>7, <1>8 DEF Next, vars

\* The inductive invariant.
IInv == StorageOK /\ ListingOK /\ PutsFine /\ Quiet /\ Grown
        /\ ShownIsCurrent /\ FilesSought /\ RowsSought

LEMMA InitIInv == Init => IInv
<1> SUFFICES ASSUME Init PROVE IInv
  OBVIOUS
<1>1. 0 \in Counts
  BY NumbersAssumption DEF Counts
<1>2. index \in [Crates -> Counts] /\ since \in [Crates -> Counts]
  BY <1>1 DEF Init
<1>3. StorageOK /\ ListingOK
  BY <1>2 DEF Init, StorageOK, ListingOK
<1>4. PutsFine /\ Quiet /\ ShownIsCurrent /\ FilesSought /\ RowsSought
  BY DEF Init, PutsFine, Quiet, ShownIsCurrent, FilesSought, RowsSought, Sought
<1>5. Grown
  BY DEF Init, Grown
<1> QED
  BY <1>3, <1>4, <1>5 DEF IInv

LEMMA IInvStep == IInv /\ [Next]_vars => IInv'
<1> SUFFICES ASSUME IInv, [Next]_vars PROVE IInv'
  OBVIOUS
<1>1. StorageOK' /\ PutsFine' /\ \A c \in Crates : index[c] <= index'[c]
  BY StorageStep DEF IInv
<1>2. \A c \in Crates : index[c] <= index'[c] /\ index'[c] \in Nat
  BY <1>1, NumbersAssumption DEF StorageOK, Counts
<1>3. ListingOK' /\ Quiet'
  BY ListingStep DEF IInv
<1>4. Grown' /\ ShownIsCurrent'
  BY <1>2, <1>3, CurrentStep DEF IInv
<1>5. FilesSought'
  BY FilesStep DEF IInv
<1>6. RowsSought'
  BY <1>2, RowsStep DEF IInv
<1> QED
  BY <1>1, <1>3, <1>4, <1>5, <1>6 DEF IInv

LEMMA Inductive == Spec => []IInv
  BY InitIInv, IInvStep, PTL DEF Spec

\* Behind the pages that all crates fill there is none.
LEMMA NothingSought == IInv => NothingMissed
<1> SUFFICES ASSUME IInv, state = "Ok", Exhausted, NEW c \in Crates \ passed,
                    since[c] > 0, Matches(query, c)
             PROVE  ShownAsOf(c)
  BY DEF NothingMissed
<1> SUFFICES ASSUME Sought(c) PROVE FALSE
  BY DEF Sought
<1>1. backend = "postgres" /\ Paged /\ (query.page + 1) * query.per_page <= Rank(Published, c)
  BY DEF IInv, FilesSought, RowsSought
<1>2. query \in Lists /\ query.page \in Nat /\ query.per_page \in Nat
  BY <1>1, NoneAssumption DEF Paged, IInv, ListingOK, Lists, Searches
<1>3. (query.page + 1) * query.per_page \in Nat
  BY <1>2
<1>4. Cardinality(Published) <= (query.page + 1) * query.per_page
  BY <1>1 DEF Exhausted, Paged
<1>5. Published \in SUBSET Crates /\ c \in Published
  BY SoughtExists DEF IInv, Published
<1>6. Rank(Published, c) \in Nat /\ Rank(Published, c) < Cardinality(Published)
  BY <1>5, RankCounts
<1>7. Cardinality(Published) \in Nat
  <2>1. IsFiniteSet(Crates)
    BY FS_Interval, NumbersAssumption DEF Crates
  <2>2. IsFiniteSet(Published)
    BY <1>5, <2>1, FS_Subset
  <2> QED
    BY <2>2, FS_CardinalityType
<1> QED
  BY <1>1, <1>3, <1>4, <1>6, <1>7

\* The types of the listing, the put under way and what is kept of both.
THEOREM TypeCorrect == Spec => []TypeOK
<1>1. IInv => TypeOK
  BY TypeParts DEF IInv
<1> QED
  BY <1>1, Inductive, PTL

\* However publications interleave with it, and whichever files are renamed
\* while it is read, a finished answer shows every crate looked for that existed
\* before, unless its file failed or lies beyond a limit (FsIndex's list and
\* search, and the pages of the PostgreSQL index).
THEOREM AnswersMissNothing == Spec => []NothingMissed
  BY NothingSought, Inductive, PTL

\* And what it shows of a file or of the database is no older than the question
\* and no newer than the index.
THEOREM AnswersAreCurrent == Spec => []ShownIsCurrent
<1>1. IInv => ShownIsCurrent
  BY DEF IInv
<1> QED
  BY <1>1, Inductive, PTL
=============================================================================
