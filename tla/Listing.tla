------------------------------ MODULE Listing ------------------------------
(***************************************************************************)
(* /all and the search: list and search of the file index, which read the   *)
(* directory (or list the bucket) and then the files, all without locks,    *)
(* while put_file writes temporary files beside them; and of the            *)
(* PostgreSQL index, which ask the database once and cut pages in memory.   *)
(* A client may read page after page.                                       *)
(***************************************************************************)
EXTENDS Naturals, FiniteSets, FiniteSetsExt

CONSTANTS NumCrates,     \* crates, numbered in the order of their names
          NumVersions,   \* versions of a crate, in the order of publication
          Backends,      \* the backends to start with
          ObjectLimit,   \* objects in one answer to list_objects (1000)
          DefaultLimit, MaxLimit,   \* results of a search (10 and 100)
          MaxPage,       \* bound: pages a client reads
          Queries,       \* bound: what is asked, by backend
          MaxLeft,       \* bound: temporary files left behind
          Faults,        \* may calls to the storage fail and the server die?
          None

Crates == 1 .. NumCrates

\* Requests for /all, without or with pages, and searches for a part of names,
\* which may also be a part of the names of the directories.
Lists == [kind : {"list"}, page : {None} \cup Nat, per_page : Nat]
Searches == [kind : {"search"}, names : SUBSET Crates, by_path : BOOLEAN,
             per_page : {None} \cup Nat]

ASSUME NoneAssumption == None \notin Lists \cup Searches \cup Nat
ASSUME LimitsAssumption == {ObjectLimit, DefaultLimit, MaxLimit} \subseteq Nat \ {0}
\* A client that wants pages begins with the first.
ASSUME QueriesAssumption ==
  \A b \in Backends : \A q \in Queries[b] :
    \/ q \in Lists /\ q.page \in {None, 0}
    \/ q \in Searches
ASSUME NumbersAssumption == NumCrates \in Nat /\ NumVersions \in Nat
ASSUME BackendsAssumption == Backends \subseteq {"directory", "bucket", "postgres"}

VARIABLES backend,   \* which index the server was built with
          index,     \* by crate, how many versions it has
          dirs,      \* the crates whose directory exists
          temp,      \* the temporary file of the put under way, by crate
          left,      \* a temporary file that nobody will remove any more
          query,     \* what was asked
          state,     \* where the listing is, or its answer
          todo,      \* crates whose directories are still to be read
          keys,      \* index_keys: the files still to be read
          shown,     \* the entries of the answer, over all pages read so far
          since,     \* history: the index when the listing began
          passed     \* history: crates whose file was given up or cut off
storage == <<backend, index, dirs, temp, left>>
vars == <<storage, query, state, todo, keys, shown, since, passed>>

Counts == 0 .. NumVersions

\* What a file holds: some versions, and the Publish line, nothing, or a line
\* that breaks off.
Data == [versions : Counts, rest : {"publish", "nothing", "cut"}]
ASSUME NoDataAssumption == None \notin Data

Empty == [versions |-> 0, rest |-> "nothing"]
Complete(n) == [versions |-> n, rest |-> "publish"]
Cut == [versions |-> 0, rest |-> "cut"]

\* A directory, and a file that has lost its name since, can be listed but not read.
Kinds == {"file", "temp", "left", "dir", "gone"}
Keys == [crate : Crates, kind : Kinds]
Entries == [crate : Crates, kind : Kinds \cup {"row"}, versions : Counts]

Waiting == {"walk", "pull"}
Answers == {"Ok", "NotFound", "ServiceError", "panic"}

TypeOK == /\ backend \in Backends
          /\ index \in [Crates -> Counts]
          /\ dirs \subseteq Crates
          /\ temp \in [Crates -> Data \cup {None}]
          /\ left \in [Crates -> Data \cup {None}]
          /\ query \in Lists \cup Searches \cup {None}
          /\ state \in {"idle"} \cup Waiting \cup Answers
          /\ todo \subseteq Crates
          /\ keys \subseteq Keys
          /\ shown \subseteq Entries
          /\ since \in [Crates -> Counts]
          /\ passed \subseteq Crates
          /\ \A c \in Crates : (temp[c] # None \/ left[c] # None) => c \in dirs
          /\ todo # {} => state = "walk"
          /\ query = None <=> state = "idle"

Init == /\ backend \in Backends
        /\ index = [c \in Crates |-> 0]
        /\ dirs = {}
        /\ temp = [c \in Crates |-> None]
        /\ left = [c \in Crates |-> None]
        /\ query = None /\ state = "idle"
        /\ todo = {} /\ keys = {} /\ shown = {} /\ passed = {}
        /\ since = index

Published == {c \in Crates : index[c] > 0}
-----------------------------------------------------------------------------
\* Publications, one at a time for each crate (its lock is held).

\* A put to a bucket, and a commit, take effect at once.
Publish(c) ==
  /\ backend # "directory"
  /\ index[c] < NumVersions
  /\ index' = [index EXCEPT ![c] = @ + 1]
  /\ UNCHANGED <<backend, dirs, temp, left, keys>>

\* Mistake: the directory is not created before its first file.
Create_NoDir(c) == temp' = [temp EXCEPT ![c] = Empty] /\ UNCHANGED <<index, dirs>>

\* put_file, on the thread of another request: an empty temporary file,
Create(c) == /\ temp' = [temp EXCEPT ![c] = Empty]
             /\ dirs' = dirs \cup {c}
             /\ UNCHANGED index

\* Mistake: the file itself is written, not a temporary one.
Write_InPlace(c, d) == /\ index' = [index EXCEPT ![c] = d.versions]
                       /\ temp' = [temp EXCEPT ![c] = Complete(index[c] + 1)]
                       /\ UNCHANGED dirs

\* which is filled,
Write(c, d) == temp' = [temp EXCEPT ![c] = d] /\ UNCHANGED <<index, dirs>>

\* and takes the place of the old one,
Persist(c) == /\ index' = [index EXCEPT ![c] = temp[c].versions]
              /\ temp' = [temp EXCEPT ![c] = None]
              /\ UNCHANGED dirs

\* or is removed after an error.
Discard(c) == temp' = [temp EXCEPT ![c] = None] /\ UNCHANGED <<index, dirs>>

\* The keys of a listing under way, when the temporary file loses its name.
Unnamed(c) ==
  {IF k = [crate |-> c, kind |-> "temp"] THEN [k EXCEPT !.kind = "gone"] ELSE k : k \in keys}

Beginnings(n) == {[versions |-> i, rest |-> "nothing"] : i \in 1 .. n} \cup {Cut}

put_file(c) ==
  /\ backend = "directory"
  /\ \/ /\ \/ temp[c] = None /\ index[c] < NumVersions /\ Create(c)
           \/ temp[c] = Empty /\ \E d \in Beginnings(index[c] + 1) : Write(c, d)
           \/ temp[c] # None /\ temp[c].rest # "publish" /\ Write(c, Complete(index[c] + 1))
        /\ UNCHANGED keys
     \/ /\ \/ temp[c] # None /\ temp[c].rest = "publish" /\ Persist(c)
           \/ temp[c] # None /\ Faults /\ Discard(c)
        /\ keys' = Unnamed(c)
  /\ UNCHANGED <<backend, left>>
-----------------------------------------------------------------------------
\* search of the API: Option<usize>::map_or(10, |x| x.max(100)).
Limit(per_page) ==
  IF per_page = None THEN DefaultLimit
  ELSE IF per_page > MaxLimit THEN per_page ELSE MaxLimit

Matches(q, c) == q.kind = "list" \/ c \in q.names

\* list keeps all keys (those of directories lead to nothing and are left out
\* here).  search keeps the keys whose path contains the query: files, and, when
\* the directory's name contains it, directories and temporary files as well.
Retained(q, k) == IF q.kind = "list" THEN k.kind # "dir"
                  ELSE k.crate \in q.names /\ (k.kind = "file" \/ q.by_path)

Ask(q) ==
  /\ state = "idle"
  /\ query' = q
  /\ since' = index
  /\ state' = "walk"
  /\ todo' = IF backend = "directory" THEN Crates ELSE {}
  /\ UNCHANGED <<storage, keys, shown, passed>>

\* Files are found in a directory as append_dir comes to it.
FilesOf(c) == {[crate |-> c, kind |-> k] : k \in
                 {k \in Kinds : \/ k = "file" /\ index[c] > 0
                                \/ k = "temp" /\ temp[c] # None
                                \/ k = "left" /\ left[c] # None
                                \/ k = "dir" /\ c \in dirs}}

Walk(c) ==
  /\ backend = "directory" /\ state = "walk" /\ c \in todo
  /\ todo' = todo \ {c}
  /\ keys' = keys \cup {k \in FilesOf(c) : Retained(query, k)}
  /\ UNCHANGED <<storage, query, state, shown, since, passed>>

\* The index directory does not exist before the first publication.
NoIndexDir ==
  /\ backend = "directory" /\ state = "walk" /\ todo = Crates /\ dirs = {}
  /\ state' = "NotFound" /\ todo' = {}
  /\ UNCHANGED <<storage, query, keys, shown, since, passed>>

\* What is read: all keys, or as many as a search may return.
Chosen(found) ==
  IF query.kind = "list" \/ Cardinality(found) <= Min({Limit(query.per_page), MaxLimit})
  THEN {found} ELSE kSubset(Min({Limit(query.per_page), MaxLimit}), found)

Pulling(found, all) ==
  /\ \E ks \in Chosen(found) :
       /\ keys' = ks
       /\ passed' = passed \cup {k.crate : k \in {k \in all \ ks : k.kind = "file"}}
  /\ state' = "pull"
  /\ UNCHANGED <<storage, query, todo, shown, since>>

Walked == /\ backend = "directory" /\ state = "walk" /\ todo = {}
          /\ Pulling(keys, keys)

\* list_objects answers once, with the first objects in the order of keys.
ListObjects ==
  /\ backend = "bucket" /\ state = "walk"
  /\ LET all == {[crate |-> c, kind |-> "file"] : c \in Published}
         first == {k \in all :
                     Cardinality({j \in all : j.crate <= k.crate}) <= ObjectLimit}
     IN Pulling({k \in first : Retained(query, k)}, {k \in all : Retained(query, k)})

ListFails ==
  /\ Faults /\ state = "walk"
  /\ state' = "ServiceError" /\ todo' = {} /\ keys' = {}
  /\ UNCHANGED <<storage, query, shown, since, passed>>

\* The contents of a file now, None if there is none to read.
DataOf(k) == CASE k.kind = "file" -> Complete(index[k.crate])
               [] k.kind = "temp" -> temp[k.crate]
               [] k.kind = "left" -> left[k.crate]
               [] k.kind \in {"dir", "gone"} -> None

\* A task of the JoinSet reads a file; list looks at the name of the first
\* version when there is no Publish line, search leaves such a file out.
Pull(k) ==
  /\ state = "pull" /\ k \in keys
  /\ keys' = keys \ {k}
  /\ LET d == DataOf(k)
     IN IF d \in {None, Cut} THEN UNCHANGED <<shown, state>>
        ELSE IF d = Empty
             THEN /\ UNCHANGED shown
                  /\ state' = IF query.kind = "list" THEN "panic" ELSE state
             ELSE /\ shown' = shown \cup {[crate |-> k.crate, kind |-> k.kind,
                                           versions |-> d.versions]}
                  /\ UNCHANGED state
  /\ UNCHANGED <<storage, query, todo, since, passed>>

\* An error is logged, and the file left out.
PullFails(k) ==
  /\ Faults /\ state = "pull" /\ k \in keys
  /\ keys' = keys \ {k}
  /\ passed' = IF k.kind = "file" THEN passed \cup {k.crate} ELSE passed
  /\ UNCHANGED <<storage, query, state, todo, shown, since>>

Pulled == /\ state = "pull" /\ keys = {}
          /\ state' = "Ok"
          /\ UNCHANGED <<storage, query, todo, keys, shown, since, passed>>
-----------------------------------------------------------------------------
\* Mistake: the crates with the most versions come first.
Before_ByVersions(d, c) == index[d] > index[c] \/ (index[d] = index[c] /\ d < c)

\* rows.sort_unstable_by_key(name): d comes before c.
Before(d, c) == d < c

\* How many of cs come before c.
Rank(cs, c) == Cardinality({d \in cs : Before(d, c)})

\* rows.chunks(n).nth(page)
Page(cs, n, page) ==
  {c \in cs : page * n <= Rank(cs, c) /\ Rank(cs, c) < (page + 1) * n}

ShowRows(cs) ==
  shown' = shown \cup {[crate |-> c, kind |-> "row", versions |-> index[c]] : c \in cs}

\* One query answers, and its rows are cut to the page; chunks(0) panics.
ListRows ==
  /\ backend = "postgres" /\ state = "walk" /\ query.kind = "list"
  /\ IF query.page = None THEN ShowRows(Published) /\ state' = "Ok"
     ELSE IF query.per_page = 0 THEN state' = "panic" /\ UNCHANGED shown
     ELSE ShowRows(Page(Published, query.per_page, query.page)) /\ state' = "Ok"
  /\ UNCHANGED <<storage, query, todo, keys, since, passed>>

\* The most depended upon first: any order, for dependencies are left out here.
SearchRows ==
  /\ backend = "postgres" /\ state = "walk" /\ query.kind = "search"
  /\ LET found == {c \in Published : Matches(query, c)}
         limit == Min({Limit(query.per_page), Cardinality(found)})
     IN \E cs \in kSubset(limit, found) :
          /\ ShowRows(cs)
          /\ passed' = passed \cup (found \ cs)
  /\ state' = "Ok"
  /\ UNCHANGED <<storage, query, todo, keys, since>>

\* The client asks for the next page.
NextPage ==
  /\ state = "Ok" /\ query.kind = "list" /\ query.page # None
  /\ query.page < MaxPage
  /\ query' = [query EXCEPT !.page = @ + 1]
  /\ state' = "walk"
  /\ todo' = IF backend = "directory" THEN Crates ELSE {}
  /\ UNCHANGED <<storage, keys, shown, since, passed>>

Forget == /\ query' = None /\ state' = "idle"
          /\ todo' = {} /\ keys' = {} /\ shown' = {} /\ passed' = {}
          /\ since' = [c \in Crates |-> 0]

\* The client has its answer, or disconnects before: the tasks are aborted.
Leave == state # "idle" /\ Forget /\ UNCHANGED storage

\* The server dies and starts again: temporary files stay behind, at most
\* one for each crate.
Crash == /\ Faults
         /\ \A c \in Crates : temp[c] = None \/ left[c] = None
         /\ Cardinality({c \in Crates : temp[c] # None \/ left[c] # None}) <= MaxLeft
         /\ left' = [c \in Crates |-> IF temp[c] # None THEN temp[c] ELSE left[c]]
         /\ temp' = [c \in Crates |-> None]
         /\ UNCHANGED <<backend, index, dirs>>
         /\ Forget

Next == \/ /\ \E c \in Crates : put_file(c) \/ Publish(c)
           /\ UNCHANGED <<query, state, todo, shown, since, passed>>
        \/ \E q \in Queries[backend] : Ask(q)
        \/ \E c \in Crates : Walk(c)
        \/ NoIndexDir \/ Walked \/ ListObjects \/ ListFails
        \/ \E k \in keys : Pull(k) \/ PullFails(k)
        \/ Pulled \/ ListRows \/ SearchRows \/ NextPage \/ Leave \/ Crash

Spec == Init /\ [][Next]_vars
-----------------------------------------------------------------------------
\* All pages have been read, as far as there are crates to fill them.
Exhausted == \/ query.kind = "search"
             \/ query.page = None
             \/ (query.page + 1) * query.per_page >= Cardinality(Published)

\* Crate c is shown with all the versions it had when the listing began.
ShownAsOf(c) == \E e \in shown : e.crate = c /\ since[c] <= e.versions

(***************************************************************************)
(* An answer shows every crate that existed when it was asked for, and that *)
(* is looked for, with the versions it had, unless its file could not be    *)
(* read or lies beyond a limit: neither puts under way, which rename files  *)
(* while the directory is read, nor publications between two pages hide it. *)
(***************************************************************************)
NothingMissed ==
  state = "Ok" /\ Exhausted =>
    \A c \in Crates \ passed :
      since[c] > 0 /\ Matches(query, c) => ShownAsOf(c)

(***************************************************************************)
(* What is shown of a crate, if it does not come from a temporary file, is  *)
(* what the index held at some time since the listing began: nothing older  *)
(* and nothing that is not published.                                       *)
(***************************************************************************)
ShownIsCurrent ==
  \A e \in shown : e.kind \in {"file", "row"} =>
    since[e.crate] <= e.versions /\ e.versions <= index[e.crate]

(***************************************************************************)
(* "If no pagination is provided, all crates should be returned."           *)
(* (IndexProvider::list, index/mod.rs)                                      *)
(***************************************************************************)
AllListed ==
  (state \in Answers /\ query.kind = "list" /\ query.page = None) =>
    \A c \in Crates : since[c] > 0 => state = "Ok" /\ ShownAsOf(c)
=============================================================================
