------------------------------ MODULE PgIndex ------------------------------
(***************************************************************************)
(* The index kept in PostgreSQL (freighter-pg-index).  A publication is one *)
(* READ COMMITTED transaction of many statements, with the upload of the    *)
(* tarball (end_step) before its commit; everything else is one statement.  *)
(* A transaction holds what it inserts, and the row of its crate, until it  *)
(* ends; whoever wants to insert the same waits.  A statement sees what was *)
(* committed when it STARTED, also after it has waited.                     *)
(***************************************************************************)
EXTENDS IndexFile, FiniteSets

CONSTANTS Procs,       \* the requests being served concurrently
          Keys,        \* crate names
          Words,       \* keywords and categories
          Publications,  \* bound: the publications that may be requested
          Faults,      \* may the database or the storage fail?
          NoOp         \* no request

ASSUME PublicationsAssumption ==
  Publications \subseteq [kind : {"publish"}, crate : Keys, vers : Versions, cksum : Cksums,
                          words : Seq(Words), deps : Seq(Keys)]
ASSUME FaultsAssumption == Faults \in BOOLEAN

VARIABLES rows,     \* crate -> its crate_versions; and the version that the
                    \* description in the row of the crate was taken from
          known,    \* the rows of crates
          words,    \* the rows of keywords
          tags,     \* crate -> its crate_keywords
          pc,       \* where each request is
          op,       \* what it was asked
          todo,     \* what it still has to insert: keywords, then crates
          got,      \* the keywords it found (crate_keywords in publish)
          stuck,    \* does its statement wait for another transaction, and was
                    \* the entry "present" or "absent" when it started?
          held,     \* the entries of unique indexes, and rows, it holds
          res,      \* what it will answer
          latest,   \* history: crate -> keywords of the last publication
          ended,    \* history: releases whose end_step succeeded
          acked     \* history: releases whose publication returned Ok
db == <<rows, known, words, tags>>
local == <<pc, op, todo, got, stuck, held, res>>
history == <<latest, ended, acked>>
vars == <<db, local, history>>

Releases == [crate : Keys, vers : Versions, cksum : Cksums]
Yanks == [kind : {"yank"}, crate : Keys, vers : Versions, yanked : BOOLEAN]
Sparse == [kind : {"sparse"}, crate : Keys]
Confirm == [kind : {"confirm"}, crate : Keys, vers : Versions]
Ops == Publications \cup Yanks \cup Sparse \cup Confirm

ASSUME NoOpAssumption == NoOp \notin Ops

\* What only one transaction can insert at a time.
Entries == [kind : {"crate"}, name : Keys] \cup [kind : {"word"}, name : Words]
             \cup [kind : {"version"}, name : Keys, vers : Versions]

States == {"idle", "crate", "tags", "words", "version", "deps", "end_step",
           "commit",                              \* publish
           "yank", "confirm", "sparse", "versions",   \* the other operations
           "done"}
Results == {"none", "Ok", "Conflict", "NotFound", "ServiceError"}

SetOf(s) == {s[i] : i \in DOMAIN s}

Named(kind, names) == [i \in DOMAIN names |-> [kind |-> kind, name |-> names[i]]]

TypeOK == /\ rows \in [Keys -> Contents]
          /\ known \subseteq Keys /\ words \subseteq Words
          /\ tags \in [Keys -> SUBSET Words]
          /\ pc \in [Procs -> States]
          /\ op \in [Procs -> Ops \cup {NoOp}]
          /\ todo \in [Procs -> Seq(Entries)]
          /\ got \in [Procs -> SUBSET Words]
          /\ stuck \in [Procs -> {"no", "absent", "present"}]
          /\ held \in [Procs -> SUBSET Entries]
          /\ res \in [Procs -> Results]
          /\ latest \in [Keys -> SUBSET Words]
          /\ ended \subseteq Releases /\ acked \subseteq Releases
          /\ \A p \in Procs :
               /\ op[p] = NoOp <=> pc[p] = "idle"
               /\ stuck[p] # "no" => pc[p] \in {"words", "deps"} /\ todo[p] # <<>>
               /\ held[p] # {} => op[p] \in Publications /\ pc[p] # "done"

Init == /\ rows = [k \in Keys |-> NoFile]
        /\ known = {} /\ words = {}
        /\ tags = [k \in Keys |-> {}]
        /\ pc = [p \in Procs |-> "idle"]
        /\ op = [p \in Procs |-> NoOp]
        /\ todo = [p \in Procs |-> <<>>]
        /\ got = [p \in Procs |-> {}]
        /\ stuck = [p \in Procs |-> "no"]
        /\ held = [p \in Procs |-> {}]
        /\ res = [p \in Procs |-> "none"]
        /\ latest = [k \in Keys |-> {}]
        /\ ended = {} /\ acked = {}

\* The version that publication o releases.
ReleaseOf(o) == [crate |-> o.crate, vers |-> o.vers, cksum |-> o.cksum]

Goto(p, s) == pc' = [pc EXCEPT ![p] = s]

CrateEntry(p) == [kind |-> "crate", name |-> op[p].crate]
VersionEntry(p) == [kind |-> "version", name |-> op[p].crate, vers |-> op[p].vers]

\* No other transaction holds entry e.
Free(p, e) == \A q \in Procs \ {p} : e \notin held[q]

\* Entry e was committed.
Exists(e) == \/ e.kind = "crate" /\ e.name \in known
             \/ e.kind = "word" /\ e.name \in words
             \/ e.kind = "version" /\ Lists(rows[e.name], e.vers)

\* Mistake: a transaction that is over keeps its locks.
Ending_KeepsLocks(p) == held' = held

\* The transaction of p is over, and what it held is free.
Ending(p) == held' = [held EXCEPT ![p] = {}]

Answer(p, r) == /\ Goto(p, "done")
                /\ res' = [res EXCEPT ![p] = r]
                /\ todo' = [todo EXCEPT ![p] = <<>>]
                /\ got' = [got EXCEPT ![p] = {}]
                /\ stuck' = [stuck EXCEPT ![p] = "no"]
                /\ Ending(p)
                /\ UNCHANGED op

Abort(p, r) == Answer(p, r) /\ UNCHANGED <<db, history>>

\* pool.get, and for publish the start of the transaction.
Begin(p, o) ==
  /\ pc[p] = "idle"
  /\ op' = [op EXCEPT ![p] = o]
  /\ Goto(p, IF o.kind = "publish" THEN "crate" ELSE o.kind)
  /\ UNCHANGED <<db, todo, got, stuck, held, res, history>>
-----------------------------------------------------------------------------
(* publish *)

\* Mistake: get-or-insert-crate does nothing on conflict, and locks no row.
CrateRow_DoNothing(p) == IF Exists(CrateEntry(p)) THEN {} ELSE {CrateEntry(p)}

\* get-or-insert-crate.sql: insert the row, or lock it by an update; wait for
\* whoever has it.  update-crate.sql writes the row that is held then.
CrateRow(p) == {CrateEntry(p)}

GetOrInsertCrate(p) ==
  /\ pc[p] = "crate"
  /\ \A e \in CrateRow(p) : Free(p, e)
  /\ held' = [held EXCEPT ![p] = @ \cup CrateRow(p)]
  /\ Goto(p, "tags")
  /\ UNCHANGED <<db, op, todo, got, stuck, res, history>>

\* get-crate-keywords.sql.
GetTags(p) ==
  /\ pc[p] = "tags"
  /\ got' = [got EXCEPT ![p] = tags[op[p].crate]]
  /\ todo' = [todo EXCEPT ![p] = Named("word", op[p].words)]
  /\ Goto(p, "words")
  /\ UNCHANGED <<db, op, stuck, held, res, history>>

\* A keyword that the crate has is passed over; otherwise insert-keyword.sql, or
\* insert-dependency.sql: "on conflict do nothing" waits for a transaction that
\* is inserting the entry, or is updating the row of the crate.
Insert(p) ==
  /\ pc[p] \in {"words", "deps"} /\ todo[p] # <<>> /\ stuck[p] = "no"
  /\ LET e == Head(todo[p])
         has == e.kind = "word" /\ e.name \in got[p]
     IN IF has \/ Free(p, e)
        THEN /\ held' = [held EXCEPT ![p] = IF has \/ Exists(e) THEN @ ELSE @ \cup {e}]
             /\ todo' = [todo EXCEPT ![p] = Tail(@)]
             /\ UNCHANGED stuck
        ELSE /\ stuck' = [stuck EXCEPT ![p] = IF Exists(e) THEN "present" ELSE "absent"]
             /\ UNCHANGED <<held, todo>>
  /\ UNCHANGED <<db, pc, op, got, res, history>>

\* The other transaction has ended.  If it committed the entry, nothing is
\* inserted, and the select sees its row only if it was there when the statement
\* started: otherwise query_one finds none, or an id is null.
Resume(p) ==
  /\ stuck[p] # "no"
  /\ LET e == Head(todo[p])
     IN /\ Free(p, e)
        /\ IF stuck[p] = "absent" /\ Exists(e) THEN Abort(p, "ServiceError")
           ELSE /\ held' = [held EXCEPT ![p] = IF Exists(e) THEN @ ELSE @ \cup {e}]
                /\ todo' = [todo EXCEPT ![p] = Tail(@)]
                /\ stuck' = [stuck EXCEPT ![p] = "no"]
                /\ UNCHANGED <<db, pc, op, got, res, history>>

\* remove-crate-keyword.sql for what is found but no longer wanted; it takes
\* effect with the commit, see NewTags.
Prune(p) ==
  /\ pc[p] = "words" /\ todo[p] = <<>>
  /\ Goto(p, "version")
  /\ UNCHANGED <<db, op, todo, got, stuck, held, res, history>>

\* Mistake: there is no unique constraint on the versions of a crate.
Refused_Never(p) == FALSE

\* unique (crate, version) is violated.
Refused(p) == Exists(VersionEntry(p))

\* insert-version.sql.
InsertVersion(p) ==
  /\ pc[p] = "version"
  /\ Free(p, VersionEntry(p))
  /\ IF Refused(p) THEN Abort(p, "Conflict")
     ELSE /\ held' = [held EXCEPT ![p] = @ \cup {VersionEntry(p)}]
          /\ todo' = [todo EXCEPT ![p] = Named("crate", op[p].deps)]
          /\ Goto(p, "deps")
          /\ UNCHANGED <<db, op, got, stuck, res, history>>

\* Mistake: the transaction is committed without waiting for end_step.
AfterStatements_Commit == "commit"

AfterStatements == "end_step"

\* insert-features.sql adds rows of the new version alone.
InsertFeatures(p) ==
  /\ pc[p] = "deps" /\ todo[p] = <<>>
  /\ Goto(p, AfterStatements)
  /\ UNCHANGED <<db, op, todo, got, stuck, held, res, history>>

EndStep(p) ==
  /\ pc[p] = "end_step"
  /\ ended' = ended \cup {ReleaseOf(op[p])}
  /\ Goto(p, "commit")
  /\ UNCHANGED <<db, op, todo, got, stuck, held, res, latest, acked>>

\* The keywords of the crate after the statements of publication p.
NewTags(p) == (tags[op[p].crate] \ (got[p] \ SetOf(op[p].words)))
                \cup (SetOf(op[p].words) \ got[p])

\* All the statements of p take effect.
Committed(p) ==
  /\ rows' = [rows EXCEPT ![op[p].crate] = WithVersion(@, op[p].vers, op[p].cksum)]
  /\ tags' = [tags EXCEPT ![op[p].crate] = NewTags(p)]
  /\ known' = known \cup {e.name : e \in {x \in held[p] : x.kind = "crate"}}
  /\ words' = words \cup {e.name : e \in {x \in held[p] : x.kind = "word"}}
  /\ latest' = [latest EXCEPT ![op[p].crate] = SetOf(op[p].words)]
  /\ UNCHANGED ended

\* Mistake: Ok is answered before the commit is known to have succeeded.
CommitAnswer_Unawaited(applied) == {"Ok"}

\* A commit that took effect may still be reported as failed.
CommitAnswer(applied) ==
  {r \in {"Ok", "ServiceError"} : (r = "Ok" => applied) /\ (r # "Ok" => Faults)}

Commit(p) ==
  /\ pc[p] = "commit"
  /\ \E applied \in BOOLEAN : \E r \in CommitAnswer(applied) :
       /\ applied \/ Faults
       /\ IF applied THEN Committed(p) ELSE UNCHANGED <<db, latest, ended>>
       /\ Answer(p, r)
       /\ acked' = IF r = "Ok" THEN acked \cup {ReleaseOf(op[p])} ELSE acked
-----------------------------------------------------------------------------
(* The other operations *)

\* set-yank.sql: the version is updated, whatever its status was.
Yanked(p) ==
  /\ rows' = [rows EXCEPT ![op[p].crate] = WithYanked(@, op[p].vers, op[p].yanked)]
  /\ UNCHANGED <<known, words, tags, history>>

Yank(p) ==
  /\ pc[p] = "yank"
  /\ IF Lists(rows[op[p].crate], op[p].vers)
     THEN Yanked(p) /\ (Answer(p, "Ok") \/ (Faults /\ Answer(p, "ServiceError")))
     ELSE Abort(p, "Conflict")

\* confirm-existence.sql.
ConfirmExistence(p) ==
  /\ pc[p] = "confirm"
  /\ Abort(p, IF Lists(rows[op[p].crate], op[p].vers) THEN "Ok" ELSE "NotFound")

\* sparse-index/get-crate.sql, then the versions, features and dependencies.
GetCrate(p) ==
  /\ pc[p] = "sparse"
  /\ IF op[p].crate \in known
     THEN /\ Goto(p, "versions")
          /\ UNCHANGED <<db, op, todo, got, stuck, held, res, history>>
     ELSE Abort(p, "NotFound")

GetVersions(p) == pc[p] = "versions" /\ Abort(p, "Ok")
-----------------------------------------------------------------------------
\* Any statement, the end_step and the commit may fail without effect.  An
\* error of insert-version is always taken for a conflict.
Fail(p) ==
  /\ Faults
  /\ pc[p] \notin {"idle", "done"}
  /\ Abort(p, IF pc[p] = "version" THEN "Conflict" ELSE "ServiceError")

\* The transactions that p waits for.
WaitsFor(p) ==
  {q \in Procs \ {p} :
     \/ pc[p] = "crate" /\ CrateEntry(p) \in held[q]
     \/ pc[p] = "version" /\ VersionEntry(p) \in held[q]
     \/ stuck[p] # "no" /\ Head(todo[p]) \in held[q]}

\* PostgreSQL aborts a transaction that waits for itself.
Deadlock(p) ==
  /\ \E S \in SUBSET Procs :
       /\ p \in S
       /\ \A q \in S : WaitsFor(q) \cap S # {} /\ \E r \in S : q \in WaitsFor(r)
  /\ Abort(p, IF pc[p] = "version" THEN "Conflict" ELSE "ServiceError")

Forget(p) == /\ Goto(p, "idle")
             /\ op' = [op EXCEPT ![p] = NoOp]
             /\ todo' = [todo EXCEPT ![p] = <<>>]
             /\ got' = [got EXCEPT ![p] = {}]
             /\ stuck' = [stuck EXCEPT ![p] = "no"]
             /\ res' = [res EXCEPT ![p] = "none"]
             /\ Ending(p)

Return(p) == /\ pc[p] = "done"
             /\ Forget(p)
             /\ UNCHANGED <<db, history>>

\* The client disconnects, and the transaction is dropped: it rolls back, or a
\* statement that was sent takes effect.
Cancel(p) ==
  /\ pc[p] \notin {"idle", "done"}
  /\ \/ UNCHANGED <<db, history>>
     \/ pc[p] = "commit" /\ Committed(p) /\ UNCHANGED acked
     \/ pc[p] = "yank" /\ Lists(rows[op[p].crate], op[p].vers) /\ Yanked(p)
  /\ Forget(p)

Next == \E p \in Procs : \/ \E o \in Ops : Begin(p, o)
                         \/ GetOrInsertCrate(p) \/ GetTags(p)
                         \/ Insert(p) \/ Resume(p) \/ Prune(p)
                         \/ InsertVersion(p) \/ InsertFeatures(p)
                         \/ EndStep(p) \/ Commit(p)
                         \/ Yank(p) \/ ConfirmExistence(p)
                         \/ GetCrate(p) \/ GetVersions(p)
                         \/ Return(p)
                         \/ Fail(p)
                         \/ Deadlock(p)
                         \/ Cancel(p)

Spec == Init /\ [][Next]_vars
-----------------------------------------------------------------------------
(***************************************************************************)
(* The keywords and categories of a crate are those of the publication that *)
(* was committed last: two publications that compare and prune them at the  *)
(* same time never mix their lists.                                         *)
(***************************************************************************)
TagsOfNewest == \A k \in Keys : tags[k] = latest[k]

(***************************************************************************)
(* "end_step is a future to run ... before any transactional commits have   *)
(* occurred" (index/mod.rs): whatever is listed has its tarball stored.     *)
(***************************************************************************)
ListedAfterEndStep ==
  \A k \in Keys : \A i \in DOMAIN rows[k].versions :
    [crate |-> k, vers |-> rows[k].versions[i].vers,
     cksum |-> rows[k].versions[i].cksum] \in ended

(***************************************************************************)
(* A publication that was acknowledged stays in the index with the checksum *)
(* it was acknowledged for.                                                 *)
(***************************************************************************)
AckedStay ==
  \A a \in acked : \E i \in DOMAIN rows[a.crate].versions :
    /\ rows[a.crate].versions[i].vers = a.vers
    /\ rows[a.crate].versions[i].cksum = a.cksum

(***************************************************************************)
(* "In the event of a conflict, IndexError::Conflict should be returned by  *)
(* an operation" (index/mod.rs): without faults, no operation answers       *)
(* ServiceError, whatever else is going on in the database.                 *)
(***************************************************************************)
ConflictReported == ~Faults => \A p \in Procs : res[p] # "ServiceError"

Atomic == INSTANCE AtomicIndex WITH index <- rows

(***************************************************************************)
(* The transactions amount to atomic operations on the index: one row per   *)
(* version, in the order of the commits, and the description of the crate   *)
(* taken from the newest version.                                           *)
(***************************************************************************)
ImplementsAtomicIndex == Atomic!Spec
=============================================================================
