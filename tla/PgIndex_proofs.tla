--------------------------- MODULE PgIndex_proofs ---------------------------
(***************************************************************************)
(* For any number of requests, crates, versions, keywords and dependencies, *)
(* with and without faults: the transactions of the PostgreSQL index amount *)
(* to an atomic index, and never mix the keywords of two publications.      *)
(***************************************************************************)
EXTENDS PgIndex, IndexFile_proofs

\* The places at which a publication has the row of its crate, has seen the
\* keywords of the crate, and has inserted its version.
HasCrate == {"tags", "words", "version", "deps", "end_step", "commit"}
HasTags == {"words", "version", "deps", "end_step", "commit"}
HasVersion == {"deps", "end_step", "commit"}

\* Each request is at a place of the operation that it was asked for.
PlacesMatch ==
  \A p \in Procs :
    /\ pc[p] \in HasCrate \cup {"crate"} => op[p] \in Publications
    /\ pc[p] = "yank" => op[p] \in Yanks

TypeInv == TypeOK /\ PlacesMatch

LEMMA OpsTyped ==
  /\ \A o \in Publications : /\ o \in Ops /\ o.kind = "publish" /\ o.crate \in Keys
                             /\ o.vers \in Versions /\ o.cksum \in Cksums
                             /\ o.words \in Seq(Words) /\ o.deps \in Seq(Keys)
                             /\ ReleaseOf(o) \in Releases
  /\ \A o \in Yanks : /\ o \in Ops /\ o.kind = "yank" /\ o.crate \in Keys
                      /\ o.vers \in Versions /\ o.yanked \in BOOLEAN
  /\ \A o \in Ops : /\ o.kind = "publish" => o \in Publications
                    /\ o.kind = "yank" => o \in Yanks
                    /\ o.kind \in {"publish", "yank", "sparse", "confirm"}
  /\ NoOp \notin Publications /\ NoOp \notin Yanks
<1>1. \A o \in Publications : o \in [kind : {"publish"}, crate : Keys, vers : Versions,
                                     cksum : Cksums, words : Seq(Words), deps : Seq(Keys)]
  BY PublicationsAssumption
<1>2. \A o \in Publications : /\ o.kind = "publish" /\ o.crate \in Keys
                              /\ o.vers \in Versions /\ o.cksum \in Cksums
                              /\ o.words \in Seq(Words) /\ o.deps \in Seq(Keys)
                              /\ ReleaseOf(o) \in Releases
  BY <1>1 DEF ReleaseOf, Releases
<1> QED
  BY <1>2, NoOpAssumption DEF Ops, Yanks, Sparse, Confirm

LEMMA NamedTyped ==
  /\ \A s \in Seq(Words) : Named("word", s) \in Seq(Entries)
  /\ \A s \in Seq(Keys) : Named("crate", s) \in Seq(Entries)
<1>1. ASSUME NEW s \in Seq(Words) PROVE Named("word", s) \in Seq(Entries)
  <2>1. \A i \in 1 .. Len(s) : [kind |-> "word", name |-> s[i]] \in Entries
    BY DEF Entries
  <2>2. DOMAIN s = 1 .. Len(s) /\ Len(s) \in Nat
    OBVIOUS
  <2> QED
    BY <2>1, <2>2 DEF Named
<1>2. ASSUME NEW s \in Seq(Keys) PROVE Named("crate", s) \in Seq(Entries)
  <2>1. \A i \in 1 .. Len(s) : [kind |-> "crate", name |-> s[i]] \in Entries
    BY DEF Entries
  <2>2. DOMAIN s = 1 .. Len(s) /\ Len(s) \in Nat
    OBVIOUS
  <2> QED
    BY <2>1, <2>2 DEF Named
<1> QED
  BY <1>1, <1>2

\* The entries that publications insert first and last.
LEMMA EntriesTyped ==
  ASSUME NEW p \in Procs, op[p] \in Publications
  PROVE  CrateEntry(p) \in Entries /\ VersionEntry(p) \in Entries
  BY OpsTyped DEF CrateEntry, VersionEntry, Entries

LEMMA SetOfTyped == \A s \in Seq(Words) : SetOf(s) \subseteq Words
  BY DEF SetOf

LEMMA EntryTyped ==
  ASSUME NEW f \in Contents, NEW i \in DOMAIN f.versions
  PROVE  f.versions[i].vers \in Versions /\ f.versions[i].cksum \in Cksums
<1>1. f.versions \in Seq(CrateVersion)
  BY DEF Contents
<1>2. f.versions[i] \in CrateVersion
  BY <1>1
<1> QED
  BY <1>2 DEF CrateVersion
-----------------------------------------------------------------------------
\* Request p is answered or forgotten.
Leaves(p) == \E s \in {"idle", "done"} : pc' = [pc EXCEPT ![p] = s]

\* What a step does to the tables: nothing, a commit or a yank.
LEMMA DbSteps ==
  ASSUME [Next]_vars
  PROVE  /\ \/ UNCHANGED <<db, latest>>
            \/ \E p \in Procs : pc[p] = "commit" /\ Committed(p) /\ Leaves(p)
            \/ \E p \in Procs : /\ pc[p] = "yank" /\ Lists(rows[op[p].crate], op[p].vers)
                                /\ Yanked(p)
         /\ \/ UNCHANGED ended
            \/ \E p \in Procs : /\ pc[p] = "end_step"
                                /\ ended' = ended \cup {ReleaseOf(op[p])}
         /\ \/ UNCHANGED acked
            \/ \E p \in Procs : /\ pc[p] = "commit" /\ Committed(p)
                                /\ acked' = acked \cup {ReleaseOf(op[p])}
<1> USE DEF history
<1>1. ASSUME NEW p \in Procs, Commit(p)
      PROVE  /\ UNCHANGED <<db, latest>> \/ Committed(p)
             /\ UNCHANGED ended /\ pc[p] = "commit" /\ Leaves(p)
             /\ \/ UNCHANGED acked
                \/ Committed(p) /\ acked' = acked \cup {ReleaseOf(op[p])}
  <2>0. PICK applied \in BOOLEAN :
          \E r \in CommitAnswer(applied) :
            /\ IF applied THEN Committed(p) ELSE UNCHANGED <<db, latest, ended>>
            /\ acked' = IF r = "Ok" THEN acked \cup {ReleaseOf(op[p])} ELSE acked
    BY <1>1 DEF Commit
  <2>1. PICK r \in CommitAnswer(applied) :
          /\ IF applied THEN Committed(p) ELSE UNCHANGED <<db, latest, ended>>
          /\ acked' = IF r = "Ok" THEN acked \cup {ReleaseOf(op[p])} ELSE acked
    BY <2>0
  <2>2. r = "Ok" => applied
    BY DEF CommitAnswer
  <2>3. Committed(p) => UNCHANGED ended
    BY DEF Committed
  <2> QED
    BY <1>1, <2>1, <2>2, <2>3 DEF Commit, Answer, Goto, Leaves
<1>2. ASSUME NEW p \in Procs, Yank(p)
      PROVE  /\ UNCHANGED history /\ pc[p] = "yank"
             /\ UNCHANGED db \/ (Yanked(p) /\ Lists(rows[op[p].crate], op[p].vers))
  BY <1>2 DEF Yank, Abort, Yanked
<1>3. ASSUME NEW p \in Procs, Cancel(p)
      PROVE  /\ UNCHANGED <<ended, acked>>
             /\ \/ UNCHANGED <<db, latest>>
                \/ pc[p] = "commit" /\ Committed(p) /\ Leaves(p)
                \/ pc[p] = "yank" /\ Lists(rows[op[p].crate], op[p].vers) /\ Yanked(p)
  BY <1>3 DEF Cancel, Committed, Yanked, Forget, Goto, Leaves
<1>4. ASSUME NEW p \in Procs, EndStep(p)
      PROVE  /\ UNCHANGED <<db, latest, acked>> /\ pc[p] = "end_step"
             /\ ended' = ended \cup {ReleaseOf(op[p])}
  BY <1>4 DEF EndStep
<1>5. ASSUME NEW p \in Procs, NEW r, Abort(p, r) PROVE UNCHANGED <<db, history>>
  BY <1>5 DEF Abort
<1>6. ASSUME NEW p \in Procs,
             \/ \E o \in Ops : Begin(p, o)
             \/ GetOrInsertCrate(p) \/ GetTags(p) \/ Insert(p) \/ Resume(p) \/ Prune(p)
             \/ InsertVersion(p) \/ InsertFeatures(p) \/ ConfirmExistence(p)
             \/ GetCrate(p) \/ GetVersions(p) \/ Return(p) \/ Fail(p) \/ Deadlock(p)
      PROVE  UNCHANGED <<db, history>>
  BY <1>5, <1>6 DEF Begin, GetOrInsertCrate, GetTags, Insert, Resume, Prune,
     InsertVersion, InsertFeatures, ConfirmExistence, GetCrate, GetVersions, Return,
     Fail, Deadlock
<1>7. CASE UNCHANGED vars
  BY <1>7 DEF vars
<1> QED
  BY <1>1, <1>2, <1>3, <1>4, <1>6, <1>7 DEF Next
-----------------------------------------------------------------------------
\* The types of what is local to requests, and of the tables and histories.
LocalOK == /\ pc \in [Procs -> States]
           /\ op \in [Procs -> Ops \cup {NoOp}]
           /\ todo \in [Procs -> Seq(Entries)]
           /\ got \in [Procs -> SUBSET Words]
           /\ stuck \in [Procs -> {"no", "absent", "present"}]
           /\ held \in [Procs -> SUBSET Entries]
           /\ res \in [Procs -> Results]
           /\ \A p \in Procs :
                /\ op[p] = NoOp <=> pc[p] = "idle"
                /\ stuck[p] # "no" => pc[p] \in {"words", "deps"} /\ todo[p] # <<>>
                /\ held[p] # {} => op[p] \in Publications /\ pc[p] # "done"
           /\ PlacesMatch

DbOK == /\ rows \in [Keys -> Contents]
        /\ known \subseteq Keys /\ words \subseteq Words
        /\ tags \in [Keys -> SUBSET Words]
        /\ latest \in [Keys -> SUBSET Words]
        /\ ended \subseteq Releases /\ acked \subseteq Releases

LEMMA TypeParts == TypeInv <=> DbOK /\ LocalOK
  BY DEF TypeInv, TypeOK, DbOK, LocalOK

\* A request that leaves, with an answer or without.
LEMMA LeaveTyped ==
  ASSUME LocalOK, NEW p \in Procs, pc[p] # "idle",
         Forget(p) \/ \E r \in Results : Answer(p, r)
  PROVE  LocalOK'
<1>1. CASE Forget(p)
  BY <1>1, OpsTyped DEF Forget, Ending, Goto, LocalOK, PlacesMatch, States, Results, HasCrate
<1>2. ASSUME NEW r \in Results, Answer(p, r) PROVE LocalOK'
  BY <1>2, OpsTyped DEF Answer, Ending, Goto, LocalOK, PlacesMatch, States, Results, HasCrate
<1> QED
  BY <1>1, <1>2

\* One entry that a statement waits for or inserts is done with.
LEMMA TailTyped ==
  ASSUME NEW s \in Seq(Entries), s # <<>>
  PROVE  Head(s) \in Entries /\ Tail(s) \in Seq(Entries)
  OBVIOUS

LEMMA LocalStep == TypeInv /\ [Next]_vars => LocalOK'
<1> SUFFICES ASSUME TypeInv, [Next]_vars PROVE LocalOK'
  OBVIOUS
<1>a. LocalOK /\ DbOK
  BY TypeParts
<1> USE DEF LocalOK, PlacesMatch, States, HasCrate, Goto
<1>1. ASSUME NEW p \in Procs, NEW o \in Ops, Begin(p, o) PROVE LocalOK'
  <2>1. /\ pc' = [pc EXCEPT ![p] = IF o.kind = "publish" THEN "crate" ELSE o.kind]
        /\ op' = [op EXCEPT ![p] = o] /\ UNCHANGED <<todo, got, stuck, held, res>>
        /\ pc[p] = "idle"
    BY <1>1 DEF Begin
  <2>2. /\ o.kind = "publish" => o \in Publications
        /\ o.kind = "yank" => o \in Yanks
        /\ o.kind \in {"publish", "yank", "sparse", "confirm"}
        /\ o # NoOp
    BY OpsTyped, NoOpAssumption
  <2>3. held[p] = {} /\ stuck[p] = "no"
    BY <1>a, <2>1, OpsTyped
  <2> QED
    BY <1>a, <2>1, <2>2, <2>3
<1>2. ASSUME NEW p \in Procs, GetOrInsertCrate(p) PROVE LocalOK'
  <2>1. op[p] \in Publications /\ CrateEntry(p) \in Entries
    BY <1>2, <1>a, EntriesTyped DEF GetOrInsertCrate
  <2>2. held' = [held EXCEPT ![p] = @ \cup {CrateEntry(p)}]
    BY <1>2 DEF GetOrInsertCrate, CrateRow
  <2> QED
    BY <1>2, <1>a, <2>1, <2>2 DEF GetOrInsertCrate
<1>3. ASSUME NEW p \in Procs, GetTags(p) PROVE LocalOK'
  <2>1. /\ op[p] \in Publications
        /\ tags[op[p].crate] \subseteq Words
        /\ Named("word", op[p].words) \in Seq(Entries)
    BY <1>3, <1>a, OpsTyped, NamedTyped DEF GetTags, DbOK
  <2> QED
    BY <1>3, <1>a, <2>1 DEF GetTags
<1>4. ASSUME NEW p \in Procs, Insert(p) PROVE LocalOK'
  <2> DEFINE e == Head(todo[p])
  <2>1. /\ pc[p] \in {"words", "deps"} /\ todo[p] # <<>> /\ UNCHANGED <<pc, op, got, res>>
        /\ \/ /\ held' = held \/ held' = [held EXCEPT ![p] = @ \cup {e}]
              /\ todo' = [todo EXCEPT ![p] = Tail(@)] /\ UNCHANGED stuck /\ stuck[p] = "no"
           \/ /\ stuck' = [stuck EXCEPT ![p] = "present"] \/ stuck' = [stuck EXCEPT ![p] = "absent"]
              /\ UNCHANGED <<held, todo>>
    BY <1>4, <1>a DEF Insert
  <2>2. e \in Entries /\ Tail(todo[p]) \in Seq(Entries) /\ op[p] \in Publications
    BY <1>a, <2>1, TailTyped
  <2>3. CASE /\ stuck' = [stuck EXCEPT ![p] = "present"] \/ stuck' = [stuck EXCEPT ![p] = "absent"]
             /\ UNCHANGED <<held, todo>>
    BY <1>a, <2>1, <2>3
  <2> HIDE DEF e
  <2>4. CASE /\ held' = held \/ held' = [held EXCEPT ![p] = @ \cup {e}]
             /\ todo' = [todo EXCEPT ![p] = Tail(@)] /\ UNCHANGED stuck /\ stuck[p] = "no"
    <3>1. held' \in [Procs -> SUBSET Entries]
      <4>1. held \in [Procs -> SUBSET Entries] /\ e \in Entries
        BY <1>a, <2>2
      <4>2. CASE held' = held
        BY <4>1, <4>2
      <4>3. CASE held' = [held EXCEPT ![p] = @ \cup {e}]
        BY <4>1, <4>3
      <4> QED
        BY <2>4, <4>2, <4>3
    <3>2. todo' \in [Procs -> Seq(Entries)]
      BY <1>a, <2>2, <2>4
    <3>3. \A q \in Procs : /\ stuck'[q] # "no" => q # p /\ stuck[q] # "no" /\ todo'[q] = todo[q]
                          /\ q # p => held'[q] = held[q]
      BY <1>a, <2>4
    <3> QED
      BY <1>a, <2>1, <2>2, <2>4, <3>1, <3>2, <3>3
  <2> QED
    BY <2>1, <2>3, <2>4
<1>5. ASSUME NEW p \in Procs, Resume(p), ~Abort(p, "ServiceError") PROVE LocalOK'
  <2> DEFINE e == Head(todo[p])
  <2>1. /\ stuck[p] # "no"
        /\ held' = [held EXCEPT ![p] = @] \/ held' = [held EXCEPT ![p] = @ \cup {e}]
        /\ todo' = [todo EXCEPT ![p] = Tail(@)]
        /\ stuck' = [stuck EXCEPT ![p] = "no"]
        /\ UNCHANGED <<pc, op, got, res>>
    BY <1>5 DEF Resume
  <2>2. /\ pc[p] \in {"words", "deps"} /\ todo[p] # <<>> /\ op[p] \in Publications
        /\ todo[p] \in Seq(Entries)
    BY <1>a, <2>1
  <2>3. e \in Entries /\ Tail(todo[p]) \in Seq(Entries)
    BY <2>2, TailTyped
  <2> HIDE DEF e
  <2>4. held' \in [Procs -> SUBSET Entries]
    <3>1. held \in [Procs -> SUBSET Entries] /\ e \in Entries
      BY <1>a, <2>3
    <3>2. CASE held' = [held EXCEPT ![p] = @]
      BY <3>1, <3>2
    <3>3. CASE held' = [held EXCEPT ![p] = @ \cup {e}]
      BY <3>1, <3>3
    <3> QED
      BY <2>1, <3>2, <3>3
  <2>5. todo' \in [Procs -> Seq(Entries)] /\ stuck' \in [Procs -> {"no", "absent", "present"}]
    BY <1>a, <2>1, <2>3
  <2>6. \A q \in Procs : /\ stuck'[q] # "no" => stuck[q] # "no" /\ todo'[q] = todo[q]
                        /\ q # p => held'[q] = held[q]
    BY <1>a, <2>1
  <2> QED
    BY <1>a, <2>1, <2>2, <2>4, <2>5, <2>6
<1>6. ASSUME NEW p \in Procs, Prune(p) \/ InsertFeatures(p) PROVE LocalOK'
  BY <1>6, <1>a DEF Prune, InsertFeatures, AfterStatements
<1>7. ASSUME NEW p \in Procs, InsertVersion(p), ~Abort(p, "Conflict") PROVE LocalOK'
  <2>1. /\ pc[p] = "version" /\ held' = [held EXCEPT ![p] = @ \cup {VersionEntry(p)}]
        /\ todo' = [todo EXCEPT ![p] = Named("crate", op[p].deps)]
        /\ pc' = [pc EXCEPT ![p] = "deps"] /\ UNCHANGED <<op, got, stuck, res>>
    BY <1>7 DEF InsertVersion
  <2>2. /\ op[p] \in Publications /\ stuck[p] = "no" /\ VersionEntry(p) \in Entries
        /\ Named("crate", op[p].deps) \in Seq(Entries)
    BY <1>a, <2>1, OpsTyped, NamedTyped, EntriesTyped
  <2> QED
    BY <1>a, <2>1, <2>2
<1>8. ASSUME NEW p \in Procs, EndStep(p) PROVE LocalOK'
  BY <1>8, <1>a DEF EndStep
<1>9. ASSUME NEW p \in Procs, GetCrate(p), ~Abort(p, "NotFound") PROVE LocalOK'
  <2>1. /\ pc[p] = "sparse" /\ pc' = [pc EXCEPT ![p] = "versions"]
        /\ UNCHANGED <<op, todo, got, stuck, held, res>>
    BY <1>9 DEF GetCrate
  <2> QED
    BY <1>a, <2>1
<1>10. ASSUME NEW p \in Procs, pc[p] # "idle",
              Forget(p) \/ \E r \in Results : Answer(p, r) \/ Abort(p, r)
       PROVE  LocalOK'
  BY <1>10, <1>a, LeaveTyped DEF Abort
<1>11. ASSUME NEW p \in Procs, Commit(p) PROVE LocalOK'
  BY <1>10, <1>11 DEF Commit, CommitAnswer, Results
<1>12. ASSUME NEW p \in Procs, Yank(p) \/ ConfirmExistence(p) \/ GetVersions(p)
       PROVE  LocalOK'
  BY <1>10, <1>12 DEF Yank, ConfirmExistence, GetVersions, Results
<1>13. ASSUME NEW p \in Procs, Return(p) \/ Cancel(p) PROVE LocalOK'
  BY <1>10, <1>13 DEF Return, Cancel
<1>14. ASSUME NEW p \in Procs, Fail(p) PROVE LocalOK'
  BY <1>10, <1>14 DEF Fail, Results
<1>15. ASSUME NEW p \in Procs, Deadlock(p) PROVE LocalOK'
  <2>1. pc[p] # "idle"
    <3>1. PICK q \in Procs : q \in WaitsFor(p)
      BY <1>15 DEF Deadlock, WaitsFor
    <3>2. pc[p] = "crate" \/ pc[p] = "version" \/ stuck[p] # "no"
      BY <3>1 DEF WaitsFor
    <3> QED
      BY <1>a, <3>2
  <2> QED
    BY <1>10, <1>15, <2>1 DEF Deadlock, Results
<1>16. ASSUME NEW p \in Procs,
              \/ Resume(p) /\ Abort(p, "ServiceError")
              \/ InsertVersion(p) /\ Abort(p, "Conflict")
              \/ GetCrate(p) /\ Abort(p, "NotFound")
       PROVE  LocalOK'
  BY <1>10, <1>16, <1>a DEF Resume, InsertVersion, GetCrate, Results
<1>17. CASE UNCHANGED vars
  BY <1>17, <1>a DEF vars, local
<1> QED
  BY <1>1, <1>2, <1>3, <1>4, <1>5, <1>6, <1>7, <1>8, <1>9, <1>11, <1>12, <1>13, <1>14,
     <1>15, <1>16, <1>17 DEF Next

LEMMA DbStep == TypeInv /\ [Next]_vars => DbOK'
<1> SUFFICES ASSUME TypeInv, [Next]_vars PROVE DbOK'
  OBVIOUS
<1>a. LocalOK /\ DbOK
  BY TypeParts
<1>1. ASSUME NEW p \in Procs, pc[p] \in {"commit", "end_step"}
      PROVE  op[p] \in Publications /\ ReleaseOf(op[p]) \in Releases
  BY <1>a, <1>1, OpsTyped DEF LocalOK, PlacesMatch, HasCrate
<1>2. ended' \subseteq Releases /\ acked' \subseteq Releases
  BY <1>a, <1>1, DbSteps DEF DbOK
<1>3. ASSUME NEW p \in Procs, pc[p] = "commit", Committed(p) PROVE DbOK'
  <2>1. /\ op[p] \in Publications /\ op[p].crate \in Keys
        /\ op[p].vers \in Versions /\ op[p].cksum \in Cksums
        /\ SetOf(op[p].words) \subseteq Words
    BY <1>1, <1>3, OpsTyped, SetOfTyped
  <2>2. WithVersion(rows[op[p].crate], op[p].vers, op[p].cksum) \in Contents
    BY <1>a, <2>1, WithVersionContents DEF DbOK
  <2>3. NewTags(p) \subseteq Words
    BY <1>a, <2>1 DEF NewTags, DbOK
  <2>4. /\ {e.name : e \in {x \in held[p] : x.kind = "crate"}} \subseteq Keys
        /\ {e.name : e \in {x \in held[p] : x.kind = "word"}} \subseteq Words
    BY <1>a DEF LocalOK, Entries
  <2> HIDE DEF WithVersion, NewTags, SetOf
  <2> QED
    BY <1>2, <1>3, <1>a, <2>1, <2>2, <2>3, <2>4 DEF Committed, DbOK
<1>4. ASSUME NEW p \in Procs, pc[p] = "yank", Yanked(p) PROVE DbOK'
  <2>1. op[p].crate \in Keys /\ op[p].vers \in Versions /\ op[p].yanked \in BOOLEAN
    BY <1>4, <1>a, OpsTyped DEF LocalOK, PlacesMatch
  <2>2. WithYanked(rows[op[p].crate], op[p].vers, op[p].yanked) \in Contents
    BY <1>a, <2>1, WithYankedContents DEF DbOK
  <2> HIDE DEF WithYanked
  <2> QED
    BY <1>2, <1>4, <1>a, <2>1, <2>2 DEF Yanked, history, DbOK
<1>5. CASE UNCHANGED <<db, latest>>
  BY <1>2, <1>5, <1>a DEF db, DbOK
<1> QED
  BY <1>3, <1>4, <1>5, DbSteps

LEMMA TypeStep == TypeInv /\ [Next]_vars => TypeInv'
<1>1. (DbOK /\ LocalOK)' => TypeInv'
  BY DEF TypeInv, TypeOK, DbOK, LocalOK, PlacesMatch, CrateEntry
<1> QED
  BY <1>1, LocalStep, DbStep

LEMMA TypeInit == Init => TypeInv
<1> SUFFICES ASSUME Init PROVE DbOK /\ LocalOK
  BY TypeParts
<1> QED
  BY NoFileFine DEF Init, DbOK, LocalOK, PlacesMatch, States, Results, HasCrate

(***************************************************************************)
(* Every variable keeps its type; only the statements of a publication wait *)
(* for an entry, and only an open transaction of one holds any.             *)
(***************************************************************************)
THEOREM TypeCorrect == Spec => []TypeOK
<1>1. Spec => []TypeInv
  BY TypeInit, TypeStep, PTL DEF Spec
<1> QED
  BY <1>1, PTL DEF TypeInv
-----------------------------------------------------------------------------
\* No entry is held by two transactions.
HeldApart == \A p, q \in Procs : p # q => held[p] \cap held[q] = {}

\* What a publication has inserted or locked, it holds.
EntriesHeld ==
  \A p \in Procs : /\ pc[p] \in HasCrate => CrateEntry(p) \in held[p]
                   /\ pc[p] \in HasVersion => VersionEntry(p) \in held[p]

LockInv == TypeInv /\ HeldApart /\ EntriesHeld

\* How a step of p changes what p holds: not at all, by one entry that was
\* free, or because p leaves.
Holds(p) ==
  \/ UNCHANGED held
  \/ \E e : (\A q \in Procs \ {p} : e \notin held[q])
            /\ held' = [held EXCEPT ![p] = @ \cup {e}]
  \/ held' = [held EXCEPT ![p] = {}] /\ pc'[p] \in {"idle", "done"}

\* Where a step of p takes p, as far as its locks are concerned.
Moves(p) ==
  /\ \E s \in States : pc' = [pc EXCEPT ![p] = s]
  /\ \A q \in Procs \ {p} : op'[q] = op[q]
  /\ \/ pc'[p] \notin HasCrate
     \/ op'[p] = op[p] /\ pc[p] \in HasCrate
        /\ (pc'[p] \in HasVersion => pc[p] \in HasVersion)
     \/ op'[p] = op[p] /\ CrateEntry(p) \in held'[p] /\ pc'[p] \notin HasVersion
     \/ op'[p] = op[p] /\ pc[p] \in HasCrate
        /\ held' = [held EXCEPT ![p] = @ \cup {VersionEntry(p)}]

LEMMA LeaveMoves ==
  ASSUME TypeInv, NEW p \in Procs, pc[p] # "idle",
         Forget(p) \/ \E r \in Results : Answer(p, r) \/ Abort(p, r)
  PROVE  Holds(p) /\ Moves(p)
  BY DEF TypeInv, TypeOK, Forget, Abort, Answer, Ending, Goto, Holds, Moves, States, HasCrate

LEMMA StepMoves ==
  ASSUME TypeInv, [Next]_vars
  PROVE  (\E p \in Procs : Holds(p) /\ Moves(p)) \/ UNCHANGED vars
<1> SUFFICES ASSUME NEW p \in Procs,
                    \/ \E o \in Ops : Begin(p, o)
                    \/ GetOrInsertCrate(p) \/ GetTags(p) \/ Insert(p) \/ Resume(p)
                    \/ Prune(p) \/ InsertVersion(p) \/ InsertFeatures(p) \/ EndStep(p)
                    \/ Commit(p) \/ Yank(p) \/ ConfirmExistence(p) \/ GetCrate(p)
                    \/ GetVersions(p) \/ Return(p) \/ Fail(p) \/ Deadlock(p) \/ Cancel(p)
             PROVE  Holds(p) /\ Moves(p)
  BY DEF Next
<1> USE DEF Goto
<1>a. /\ pc \in [Procs -> States] /\ held \in [Procs -> SUBSET Entries]
      /\ op \in [Procs -> Ops \cup {NoOp}]
  BY DEF TypeInv, TypeOK
<1>1. ASSUME NEW o \in Ops, Begin(p, o) PROVE Holds(p) /\ Moves(p)
  <2>1. /\ pc' = [pc EXCEPT ![p] = IF o.kind = "publish" THEN "crate" ELSE o.kind]
        /\ op' = [op EXCEPT ![p] = o] /\ UNCHANGED held
    BY <1>1 DEF Begin
  <2>2. o.kind \in {"publish", "yank", "sparse", "confirm"}
    BY OpsTyped
  <2> QED
    BY <1>a, <2>1, <2>2 DEF Holds, Moves, States, HasCrate
<1>2. CASE GetOrInsertCrate(p)
  <2>1. /\ \A q \in Procs \ {p} : CrateEntry(p) \notin held[q]
        /\ held' = [held EXCEPT ![p] = @ \cup {CrateEntry(p)}]
        /\ pc' = [pc EXCEPT ![p] = "tags"] /\ UNCHANGED op
    BY <1>2 DEF GetOrInsertCrate, CrateRow, Free
  <2>2. CrateEntry(p) \in held'[p]
    BY <1>a, <2>1
  <2> QED
    BY <1>a, <2>1, <2>2 DEF Holds, Moves, States, HasVersion
<1>3. CASE GetTags(p) \/ Prune(p) \/ InsertFeatures(p) \/ EndStep(p)
  BY <1>3, <1>a DEF GetTags, Prune, InsertFeatures, EndStep, AfterStatements,
     Holds, Moves, States, HasCrate, HasVersion
<1>4. CASE Insert(p)
  <2>1. pc[p] \in {"words", "deps"} /\ UNCHANGED <<pc, op>>
    BY <1>4 DEF Insert
  <2>2. Holds(p)
    <3> DEFINE e == Head(todo[p])
    <3>1. \/ UNCHANGED held
          \/ Free(p, e) /\ held' = [held EXCEPT ![p] = @ \cup {e}]
          \/ held' = [held EXCEPT ![p] = @]
      BY <1>4 DEF Insert
    <3>2. held' = [held EXCEPT ![p] = @] => UNCHANGED held
      BY <1>a
    <3> HIDE DEF e
    <3> QED
      BY <3>1, <3>2 DEF Free, Holds
  <2> QED
    BY <1>a, <2>1, <2>2 DEF Moves, HasCrate
<1>5. CASE Resume(p)
  <2>1. pc[p] \in {"words", "deps"}
    BY <1>5 DEF Resume, TypeInv, TypeOK
  <2>2. CASE Abort(p, "ServiceError")
    BY <2>1, <2>2, LeaveMoves DEF Results
  <2>3. CASE ~Abort(p, "ServiceError")
    <3>1. UNCHANGED <<pc, op>>
      BY <1>5, <2>3 DEF Resume
    <3>2. Holds(p)
      <4> DEFINE e == Head(todo[p])
      <4>1. /\ Free(p, e)
            /\ \/ held' = [held EXCEPT ![p] = @ \cup {e}]
               \/ held' = [held EXCEPT ![p] = @]
        BY <1>5, <2>3 DEF Resume
      <4>2. held' = [held EXCEPT ![p] = @] => UNCHANGED held
        BY <1>a
      <4> HIDE DEF e
      <4> QED
        BY <4>1, <4>2 DEF Free, Holds
    <3> QED
      BY <1>a, <2>1, <3>1, <3>2 DEF Moves, HasCrate
  <2> QED
    BY <2>2, <2>3
<1>6. CASE InsertVersion(p)
  <2>1. CASE Abort(p, "Conflict")
    BY <1>6, <2>1, LeaveMoves DEF InsertVersion, Results
  <2>2. CASE ~Abort(p, "Conflict")
    <3>1. /\ pc[p] = "version" /\ pc' = [pc EXCEPT ![p] = "deps"] /\ UNCHANGED op
          /\ held' = [held EXCEPT ![p] = @ \cup {VersionEntry(p)}]
          /\ \A q \in Procs \ {p} : VersionEntry(p) \notin held[q]
      BY <1>6, <2>2 DEF InsertVersion, Free
    <3> QED
      BY <1>a, <3>1 DEF Holds, Moves, States, HasCrate
  <2> QED
    BY <2>1, <2>2
<1>7. CASE GetCrate(p)
  <2>1. CASE Abort(p, "NotFound")
    BY <1>7, <2>1, LeaveMoves DEF GetCrate, Results
  <2>2. CASE ~Abort(p, "NotFound")
    BY <1>7, <1>a, <2>2 DEF GetCrate, Holds, Moves, States, HasCrate
  <2> QED
    BY <2>1, <2>2
<1>8. CASE Deadlock(p)
  <2>1. PICK q \in Procs : q \in WaitsFor(p)
    BY <1>8 DEF Deadlock, WaitsFor
  <2>2. pc[p] # "idle"
    BY <2>1 DEF WaitsFor, TypeInv, TypeOK
  <2> QED
    BY <1>8, <2>2, LeaveMoves DEF Deadlock, Results
<1>9. CASE Commit(p) \/ Yank(p)
  BY <1>9, LeaveMoves DEF Commit, CommitAnswer, Yank, Results
<1>10. CASE ConfirmExistence(p) \/ GetVersions(p) \/ Return(p) \/ Fail(p) \/ Cancel(p)
  BY <1>10, LeaveMoves DEF ConfirmExistence, GetVersions, Return, Fail, Cancel, Results
<1> QED
  BY <1>1, <1>2, <1>3, <1>4, <1>5, <1>6, <1>7, <1>8, <1>9, <1>10

LEMMA LockStep == LockInv /\ [Next]_vars => LockInv'
<1> SUFFICES ASSUME LockInv, [Next]_vars PROVE HeldApart' /\ EntriesHeld'
  BY TypeStep DEF LockInv
<1>a. /\ pc \in [Procs -> States] /\ held \in [Procs -> SUBSET Entries]
      /\ op \in [Procs -> Ops \cup {NoOp}]
  BY DEF LockInv, TypeInv, TypeOK
<1>1. ASSUME NEW p \in Procs, Holds(p), Moves(p) PROVE HeldApart' /\ EntriesHeld'
  <2>1. /\ \A q \in Procs \ {p} : held'[q] = held[q] /\ pc'[q] = pc[q] /\ op'[q] = op[q]
        /\ held[p] \subseteq held'[p] \/ pc'[p] \in {"idle", "done"}
        /\ \A q \in Procs \ {p} : held'[p] \cap held[q] = {}
    BY <1>1, <1>a DEF Holds, Moves, LockInv, HeldApart
  <2>2. HeldApart'
    BY <2>1 DEF LockInv, HeldApart
  <2>3. ASSUME NEW q \in Procs, q # p
        PROVE  /\ pc'[q] \in HasCrate => CrateEntry(q)' \in held'[q]
               /\ pc'[q] \in HasVersion => VersionEntry(q)' \in held'[q]
    BY <2>1, <2>3 DEF LockInv, EntriesHeld, CrateEntry, VersionEntry
  <2>4. /\ pc'[p] \in HasCrate => CrateEntry(p)' \in held'[p]
        /\ pc'[p] \in HasVersion => VersionEntry(p)' \in held'[p]
    <3>1. op'[p] = op[p] => CrateEntry(p)' = CrateEntry(p) /\ VersionEntry(p)' = VersionEntry(p)
      BY DEF CrateEntry, VersionEntry
    <3>2. \A s \in HasVersion : s \in HasCrate
      BY DEF HasCrate, HasVersion
    <3>3. "idle" \notin HasCrate /\ "done" \notin HasCrate
      BY DEF HasCrate
    <3>4. CASE pc'[p] \notin HasCrate
      BY <3>2, <3>4
    <3>5. CASE /\ op'[p] = op[p] /\ pc[p] \in HasCrate /\ pc'[p] \in HasCrate
               /\ pc'[p] \in HasVersion => pc[p] \in HasVersion
      BY <2>1, <3>1, <3>3, <3>5 DEF LockInv, EntriesHeld
    <3>6. CASE op'[p] = op[p] /\ CrateEntry(p) \in held'[p] /\ pc'[p] \notin HasVersion
      BY <3>1, <3>6
    <3>7. CASE /\ op'[p] = op[p] /\ pc[p] \in HasCrate
               /\ held' = [held EXCEPT ![p] = @ \cup {VersionEntry(p)}]
      <4>1. VersionEntry(p) \in held'[p] /\ CrateEntry(p) \in held'[p]
        BY <1>a, <3>7 DEF LockInv, EntriesHeld
      <4> QED
        BY <3>1, <3>7, <4>1
    <3> QED
      BY <1>1, <3>4, <3>5, <3>6, <3>7 DEF Moves
  <2>5. EntriesHeld'
    BY <2>3, <2>4 DEF EntriesHeld
  <2> QED
    BY <2>2, <2>5
<1>2. CASE UNCHANGED vars
  <2>1. UNCHANGED <<pc, op, held>>
    BY <1>2 DEF vars, local
  <2>2. HeldApart'
    BY <2>1 DEF LockInv, HeldApart
  <2>3. \A q \in Procs : /\ CrateEntry(q)' = CrateEntry(q)
                          /\ VersionEntry(q)' = VersionEntry(q)
    BY <2>1 DEF CrateEntry, VersionEntry
  <2> QED
    BY <2>1, <2>2, <2>3 DEF LockInv, EntriesHeld
<1>3. (\E p \in Procs : Holds(p) /\ Moves(p)) \/ UNCHANGED vars
  BY StepMoves DEF LockInv
<1> QED
  BY <1>1, <1>2, <1>3

\* Whoever has the row of a crate is the only one.
LEMMA OnePublisher ==
  ASSUME LockInv, NEW p \in Procs, NEW q \in Procs, p # q,
         pc[p] \in HasCrate, pc[q] \in HasCrate
  PROVE  op[p].crate # op[q].crate
<1>1. CrateEntry(p) \in held[p] /\ CrateEntry(q) \in held[q]
  BY DEF LockInv, EntriesHeld
<1>2. op[p].crate = op[q].crate => CrateEntry(p) = CrateEntry(q)
  BY DEF CrateEntry
<1> QED
  BY <1>1, <1>2 DEF LockInv, HeldApart
-----------------------------------------------------------------------------
\* What a publication has seen of its crate is still so: nobody else commits
\* to the crate while it has the row.
SeenCurrent ==
  \A p \in Procs : /\ pc[p] \in HasTags => got[p] = tags[op[p].crate]
                   /\ pc[p] \in HasVersion => ~Lists(rows[op[p].crate], op[p].vers)
                   /\ pc[p] = "commit" => ReleaseOf(op[p]) \in ended

RowsFine == \A k \in Keys : UniqueIn(rows[k]) /\ PublishLineIn(rows[k])

DataInv == SeenCurrent /\ RowsFine /\ TagsOfNewest /\ ListedAfterEndStep /\ AckedStay

IInv == LockInv /\ DataInv

\* What a commit makes of its crate.
LEMMA CommitEffect ==
  ASSUME IInv, NEW p \in Procs, pc[p] = "commit", Committed(p)
  PROVE  LET o == op[p]
         IN /\ o \in Publications /\ o.crate \in Keys
            /\ o.vers \in Versions /\ o.cksum \in Cksums
            /\ ~Lists(rows[o.crate], o.vers) /\ ReleaseOf(o) \in ended
            /\ rows' = [rows EXCEPT ![o.crate] = WithVersion(rows[o.crate], o.vers, o.cksum)]
            /\ tags' = [tags EXCEPT ![o.crate] = SetOf(o.words)]
            /\ latest' = [latest EXCEPT ![o.crate] = SetOf(o.words)]
<1>1. op[p] \in Publications
  BY DEF IInv, LockInv, TypeInv, PlacesMatch, HasCrate
<1>2. /\ op[p].crate \in Keys /\ op[p].vers \in Versions /\ op[p].cksum \in Cksums
  BY <1>1, OpsTyped
<1>3. /\ got[p] = tags[op[p].crate] /\ ~Lists(rows[op[p].crate], op[p].vers)
      /\ ReleaseOf(op[p]) \in ended
  BY DEF IInv, DataInv, SeenCurrent, HasTags, HasVersion
<1>4. NewTags(p) = SetOf(op[p].words)
  BY <1>3 DEF NewTags
<1> QED
  BY <1>1, <1>2, <1>3, <1>4 DEF Committed

\* What a yank makes of its crate.
LEMMA YankEffect ==
  ASSUME IInv, NEW p \in Procs, pc[p] = "yank", Lists(rows[op[p].crate], op[p].vers),
         Yanked(p)
  PROVE  LET o == op[p]
         IN /\ o.crate \in Keys /\ o.vers \in Versions /\ o.yanked \in BOOLEAN
            /\ rows' = [rows EXCEPT ![o.crate] = WithYanked(rows[o.crate], o.vers, o.yanked)]
            /\ UNCHANGED <<tags, latest>>
<1>1. op[p] \in Yanks
  BY DEF IInv, LockInv, TypeInv, PlacesMatch
<1> QED
  BY <1>1, OpsTyped DEF Yanked, history

\* How a crate may change: not at all, by a version that it does not list, or
\* by the yank flag of one that it lists.
Grows(f, g) ==
  \/ g = f
  \/ \E v \in Versions, c \in Cksums : ~Lists(f, v) /\ g = WithVersion(f, v, c)
  \/ \E v \in Versions, b \in BOOLEAN : Lists(f, v) /\ g = WithYanked(f, v, b)

LEMMA RowsGrow ==
  ASSUME IInv, [Next]_vars, NEW k \in Keys
  PROVE  Grows(rows[k], rows'[k])
<1>1. rows \in [Keys -> Contents]
  BY DEF IInv, LockInv, TypeInv, TypeOK
<1> HIDE DEF WithVersion, WithYanked, Lists
<1>2. ASSUME NEW p \in Procs, pc[p] = "commit", Committed(p)
      PROVE  Grows(rows[k], rows'[k])
  BY <1>1, <1>2, CommitEffect DEF Grows
<1>3. ASSUME NEW p \in Procs, pc[p] = "yank", Lists(rows[op[p].crate], op[p].vers),
             Yanked(p)
      PROVE  Grows(rows[k], rows'[k])
  BY <1>1, <1>3, YankEffect DEF Grows
<1>4. CASE UNCHANGED rows
  BY <1>4 DEF Grows
<1> QED
  BY <1>2, <1>3, <1>4, DbSteps DEF db

\* Growing keeps a well-formed crate so, and loses no entry.
LEMMA GrowsKeeps ==
  ASSUME NEW f \in Contents, NEW g, Grows(f, g), UniqueIn(f), PublishLineIn(f)
  PROVE  UniqueIn(g) /\ PublishLineIn(g) /\ Extends(f, g)
<1> HIDE DEF UniqueIn, PublishLineIn, Extends, Lists, WithVersion, WithYanked
<1>1. CASE g = f
  BY <1>1, ExtendsItself
<1>2. ASSUME NEW v \in Versions, NEW c \in Cksums, ~Lists(f, v), g = WithVersion(f, v, c)
      PROVE  UniqueIn(g) /\ PublishLineIn(g) /\ Extends(f, g)
  BY <1>2, WithVersionKeeps
<1>3. ASSUME NEW v \in Versions, NEW b \in BOOLEAN, Lists(f, v), g = WithYanked(f, v, b)
      PROVE  UniqueIn(g) /\ PublishLineIn(g) /\ Extends(f, g)
  BY <1>3, WithYankedKeeps
<1> QED
  BY <1>1, <1>2, <1>3 DEF Grows

LEMMA RowsKept ==
  ASSUME IInv, [Next]_vars
  PROVE  RowsFine' /\ \A k \in Keys : Extends(rows[k], rows'[k])
<1>1. ASSUME NEW k \in Keys
      PROVE  UniqueIn(rows'[k]) /\ PublishLineIn(rows'[k]) /\ Extends(rows[k], rows'[k])
  <2>1. rows[k] \in Contents /\ UniqueIn(rows[k]) /\ PublishLineIn(rows[k])
    BY DEF IInv, LockInv, TypeInv, TypeOK, DataInv, RowsFine
  <2> QED
    BY <2>1, RowsGrow, GrowsKeeps
<1> QED
  BY <1>1 DEF RowsFine, UniqueIn, PublishLineIn

LEMMA TagsKept ==
  ASSUME IInv, [Next]_vars
  PROVE  TagsOfNewest'
<1>1. tags \in [Keys -> SUBSET Words] /\ latest \in [Keys -> SUBSET Words] /\ TagsOfNewest
  BY DEF IInv, LockInv, TypeInv, TypeOK, DataInv
<1>2. ASSUME NEW p \in Procs, pc[p] = "commit", Committed(p) PROVE TagsOfNewest'
  BY <1>1, <1>2, CommitEffect DEF TagsOfNewest
<1>3. ASSUME NEW p \in Procs, pc[p] = "yank", Lists(rows[op[p].crate], op[p].vers),
             Yanked(p)
      PROVE  TagsOfNewest'
  BY <1>1, <1>3, YankEffect DEF TagsOfNewest
<1> QED
  BY <1>1, <1>2, <1>3, DbSteps DEF db, TagsOfNewest

LEMMA EndedGrows ==
  ASSUME [Next]_vars
  PROVE  ended \subseteq ended'
  BY DbSteps

\* The release that entry e of crate k is.
ReleasedAs(k, e) == [crate |-> k, vers |-> e.vers, cksum |-> e.cksum]

LEMMA ListedKept ==
  ASSUME IInv, [Next]_vars
  PROVE  ListedAfterEndStep'
<1>1. rows \in [Keys -> Contents] /\ \A k \in Keys : UniqueIn(rows[k])
  BY DEF IInv, LockInv, TypeInv, TypeOK, DataInv, RowsFine
<1>2. \A k \in Keys : \A i \in DOMAIN rows[k].versions :
        ReleasedAs(k, rows[k].versions[i]) \in ended'
  BY EndedGrows DEF IInv, DataInv, ListedAfterEndStep, ReleasedAs
<1>3. SUFFICES ASSUME NEW k \in Keys, NEW i \in DOMAIN rows'[k].versions
               PROVE  ReleasedAs(k, rows'[k].versions[i]) \in ended'
  BY DEF ListedAfterEndStep, ReleasedAs
<1>4. ASSUME NEW p \in Procs, pc[p] = "commit", Committed(p)
      PROVE  ReleasedAs(k, rows'[k].versions[i]) \in ended'
  <2> DEFINE o == op[p]
             g == WithVersion(rows[k], o.vers, o.cksum)
  <2>1. /\ o.vers \in Versions /\ o.cksum \in Cksums /\ ReleaseOf(o) \in ended'
        /\ rows'[k] = IF k = o.crate THEN g ELSE rows[k]
    <3> HIDE DEF g
    <3> QED
      BY <1>1, <1>4, CommitEffect, EndedGrows DEF g
  <2>2. CASE k # o.crate
    BY <1>2, <2>1, <2>2
  <2>3. CASE k = o.crate
    <3>1. /\ DOMAIN g.versions = DOMAIN rows[k].versions \cup {Len(rows[k].versions) + 1}
          /\ \A j \in DOMAIN rows[k].versions : g.versions[j] = rows[k].versions[j]
          /\ g.versions[Len(rows[k].versions) + 1]
               = [vers |-> o.vers, cksum |-> o.cksum, yanked |-> FALSE]
      BY <1>1, <2>1, WithVersionEntries
    <3> HIDE DEF g
    <3>2. ReleasedAs(k, [vers |-> o.vers, cksum |-> o.cksum, yanked |-> FALSE]) = ReleaseOf(o)
      BY <2>3 DEF ReleasedAs, ReleaseOf
    <3> QED
      BY <1>2, <2>1, <2>3, <3>1, <3>2
  <2> QED
    BY <2>2, <2>3
<1>5. ASSUME NEW p \in Procs, pc[p] = "yank", Lists(rows[op[p].crate], op[p].vers),
             Yanked(p)
      PROVE  ReleasedAs(k, rows'[k].versions[i]) \in ended'
  <2> DEFINE o == op[p]
             g == WithYanked(rows[k], o.vers, o.yanked)
  <2>1. /\ o.vers \in Versions /\ o.yanked \in BOOLEAN
        /\ rows'[k] = IF k = o.crate THEN g ELSE rows[k]
    <3> HIDE DEF g
    <3> QED
      BY <1>1, <1>5, YankEffect DEF g
  <2>2. CASE k # o.crate
    BY <1>2, <2>1, <2>2
  <2>3. CASE k = o.crate
    <3>1. /\ DOMAIN g.versions = DOMAIN rows[k].versions
          /\ \A j \in DOMAIN rows[k].versions :
               /\ g.versions[j].vers = rows[k].versions[j].vers
               /\ g.versions[j].cksum = rows[k].versions[j].cksum
      BY <1>1, <1>5, <2>1, <2>3, WithYankedEntries
    <3> HIDE DEF g
    <3> QED
      BY <1>2, <2>1, <2>3, <3>1 DEF ReleasedAs
  <2> QED
    BY <2>2, <2>3
<1>6. CASE UNCHANGED db
  BY <1>2, <1>6 DEF db
<1> QED
  BY <1>4, <1>5, <1>6, DbSteps

LEMMA AckedKept ==
  ASSUME IInv, [Next]_vars
  PROVE  AckedStay'
<1>1. \A k \in Keys : Extends(rows[k], rows'[k])
  BY RowsKept
<1>2. acked \subseteq Releases /\ rows \in [Keys -> Contents]
  BY DEF IInv, LockInv, TypeInv, TypeOK
<1> DEFINE In(f, a) == \E i \in DOMAIN f.versions : /\ f.versions[i].vers = a.vers
                                                    /\ f.versions[i].cksum = a.cksum
<1>3. ASSUME NEW a \in acked PROVE In(rows'[a.crate], a)
  <2>1. a.crate \in Keys /\ In(rows[a.crate], a)
    BY <1>2 DEF Releases, IInv, DataInv, AckedStay
  <2> QED
    BY <1>1, <2>1 DEF Extends
<1>4. ASSUME NEW p \in Procs, pc[p] = "commit", Committed(p)
      PROVE  In(rows'[op[p].crate], op[p])
  <2> DEFINE o == op[p]
             f == rows[o.crate]
             g == WithVersion(f, o.vers, o.cksum)
  <2>1. /\ o.vers \in Versions /\ o.cksum \in Cksums /\ f \in Contents
        /\ rows'[o.crate] = g
    <3> HIDE DEF WithVersion
    <3> QED
      BY <1>2, <1>4, CommitEffect
  <2>2. /\ DOMAIN g.versions = DOMAIN f.versions \cup {Len(f.versions) + 1}
        /\ g.versions[Len(f.versions) + 1]
             = [vers |-> o.vers, cksum |-> o.cksum, yanked |-> FALSE]
    BY <2>1, WithVersionEntries
  <2> HIDE DEF g, f
  <2> QED
    BY <2>1, <2>2
<1>5. ASSUME NEW p \in Procs, pc[p] = "commit", Committed(p), NEW a,
             a = ReleaseOf(op[p])
      PROVE  In(rows'[a.crate], a)
  BY <1>4, <1>5 DEF ReleaseOf
<1> HIDE DEF In
<1>6. \A a \in acked' : In(rows'[a.crate], a)
  BY <1>3, <1>5, DbSteps
<1> QED
  BY <1>6 DEF AckedStay, In
-----------------------------------------------------------------------------
\* What the step of a request does to what it has seen: nothing that counts,
\* or it has just looked, inserted its version, or stored its tarball.
Sees(q) ==
  /\ pc'[q] \in HasTags =>
       \/ pc[q] \in HasTags /\ op'[q] = op[q] /\ got'[q] = got[q]
       \/ op'[q] = op[q] /\ got'[q] = tags[op[q].crate] /\ UNCHANGED db
  /\ pc'[q] \in HasVersion =>
       \/ pc[q] \in HasVersion /\ op'[q] = op[q]
       \/ op'[q] = op[q] /\ ~Lists(rows[op[q].crate], op[q].vers) /\ UNCHANGED db
  /\ pc'[q] = "commit" =>
       op'[q] = op[q] /\ (pc[q] = "commit" \/ ReleaseOf(op[q]) \in ended')

LEMMA LeaveSees ==
  ASSUME TypeInv, NEW p \in Procs, NEW q \in Procs,
         Forget(p) \/ \E r : Answer(p, r) \/ Abort(p, r)
  PROVE  Sees(q)
<1>1. pc'[p] \in {"idle", "done"} /\ (q # p => pc'[q] = pc[q] /\ op'[q] = op[q] /\ got'[q] = got[q])
  BY DEF Forget, Abort, Answer, Goto, TypeInv, TypeOK
<1> QED
  BY <1>1 DEF Sees, HasTags, HasVersion

LEMMA StepSees ==
  ASSUME TypeInv, [Next]_vars, NEW q \in Procs
  PROVE  Sees(q)
<1> USE DEF Goto
<1>a. /\ pc \in [Procs -> States] /\ op \in [Procs -> Ops \cup {NoOp}]
      /\ got \in [Procs -> SUBSET Words]
  BY DEF TypeInv, TypeOK
<1>1. ASSUME NEW p \in Procs, NEW o \in Ops, Begin(p, o) PROVE Sees(q)
  <2>1. /\ pc' = [pc EXCEPT ![p] = IF o.kind = "publish" THEN "crate" ELSE o.kind]
        /\ op' = [op EXCEPT ![p] = o] /\ UNCHANGED got
    BY <1>1 DEF Begin
  <2>2. o.kind \in {"publish", "yank", "sparse", "confirm"}
    BY OpsTyped
  <2> QED
    BY <1>a, <2>1, <2>2 DEF Sees, HasTags, HasVersion
<1>2. ASSUME NEW p \in Procs, GetOrInsertCrate(p) PROVE Sees(q)
  BY <1>2, <1>a DEF GetOrInsertCrate, Sees, HasTags, HasVersion
<1>3. ASSUME NEW p \in Procs, GetTags(p) PROVE Sees(q)
  BY <1>3, <1>a DEF GetTags, Sees, HasTags, HasVersion
<1>4. ASSUME NEW p \in Procs, Insert(p) PROVE Sees(q)
  BY <1>4, <1>a DEF Insert, Sees, HasTags, HasVersion
<1>5. ASSUME NEW p \in Procs, Resume(p), ~Abort(p, "ServiceError") PROVE Sees(q)
  <2>1. UNCHANGED <<pc, op, got>>
    BY <1>5 DEF Resume
  <2> QED
    BY <2>1 DEF Sees
<1>6. ASSUME NEW p \in Procs, Prune(p) \/ InsertFeatures(p) PROVE Sees(q)
  BY <1>6, <1>a DEF Prune, InsertFeatures, AfterStatements, Sees, HasTags, HasVersion
<1>7. ASSUME NEW p \in Procs, InsertVersion(p), ~Abort(p, "Conflict") PROVE Sees(q)
  <2>1. /\ pc[p] = "version" /\ pc' = [pc EXCEPT ![p] = "deps"]
        /\ UNCHANGED <<op, got, db>> /\ ~Refused(p)
    BY <1>7 DEF InsertVersion
  <2>2. ~Lists(rows[op[p].crate], op[p].vers)
    BY <2>1 DEF Refused, Exists, VersionEntry
  <2> QED
    BY <1>a, <2>1, <2>2 DEF Sees, HasTags, HasVersion
<1>8. ASSUME NEW p \in Procs, EndStep(p) PROVE Sees(q)
  BY <1>8, <1>a DEF EndStep, Sees, HasTags, HasVersion
<1>9. ASSUME NEW p \in Procs, GetCrate(p), ~Abort(p, "NotFound") PROVE Sees(q)
  BY <1>9, <1>a DEF GetCrate, Sees, HasTags, HasVersion
<1>10. ASSUME NEW p \in Procs,
              \/ Commit(p) \/ Yank(p) \/ ConfirmExistence(p) \/ GetVersions(p)
              \/ Return(p) \/ Fail(p) \/ Deadlock(p) \/ Cancel(p)
       PROVE  Sees(q)
  BY <1>10, LeaveSees DEF Commit, Yank, ConfirmExistence, GetVersions, Return, Fail,
     Deadlock, Cancel
<1>11. ASSUME NEW p \in Procs, NEW r, Abort(p, r) PROVE Sees(q)
  BY <1>11, LeaveSees
<1>12. CASE UNCHANGED vars
  BY <1>12 DEF vars, local, Sees
<1> QED
  BY <1>1, <1>2, <1>3, <1>4, <1>5, <1>6, <1>7, <1>8, <1>9, <1>10, <1>11, <1>12 DEF Next

\* A commit or a yank of one request does not disturb what another has seen.
LEMMA OthersUndisturbed ==
  ASSUME IInv, [Next]_vars, NEW q \in Procs, pc[q] \in HasTags, pc'[q] \in HasTags
  PROVE  LET k == op[q].crate
         IN /\ tags'[k] = tags[k]
            /\ \A v \in Versions : ~Lists(rows[k], v) /\ pc[q] \in HasVersion
                                     => ~Lists(rows'[k], v)
<1>1. /\ pc \in [Procs -> States] /\ tags \in [Keys -> SUBSET Words]
      /\ rows \in [Keys -> Contents] /\ \A k \in Keys : UniqueIn(rows[k])
  BY DEF IInv, LockInv, TypeInv, TypeOK, DataInv, RowsFine
<1>2. op[q].crate \in Keys /\ pc[q] \in HasCrate
  BY OpsTyped DEF IInv, LockInv, TypeInv, PlacesMatch, HasTags, HasCrate
<1>3. ASSUME NEW p \in Procs, pc[p] = "commit", Committed(p), Leaves(p)
      PROVE  rows'[op[q].crate] = rows[op[q].crate] /\ tags'[op[q].crate] = tags[op[q].crate]
  <2>1. p # q
    BY <1>1, <1>3 DEF Leaves, HasTags
  <2>2. op[p].crate # op[q].crate
    BY <1>2, <1>3, <2>1, OnePublisher DEF IInv, HasCrate
  <2> HIDE DEF WithVersion, SetOf
  <2> QED
    BY <1>1, <1>2, <1>3, <2>2, CommitEffect
<1>4. ASSUME NEW p \in Procs, pc[p] = "yank", Lists(rows[op[p].crate], op[p].vers),
             Yanked(p), NEW v \in Versions
      PROVE  Lists(rows'[op[q].crate], v) <=> Lists(rows[op[q].crate], v)
  <2> DEFINE o == op[p]
             f == rows[o.crate]
             g == WithYanked(f, o.vers, o.yanked)
  <2>1. /\ o.crate \in Keys /\ o.vers \in Versions /\ o.yanked \in BOOLEAN
        /\ rows' = [rows EXCEPT ![o.crate] = g] /\ UNCHANGED tags
    BY <1>4, YankEffect
  <2>2. /\ DOMAIN g.versions = DOMAIN f.versions
        /\ \A i \in DOMAIN f.versions : g.versions[i].vers = f.versions[i].vers
    BY <1>1, <1>4, <2>1, WithYankedEntries
  <2> HIDE DEF g
  <2>3. Lists(g, v) <=> Lists(f, v)
    BY <2>2 DEF Lists
  <2> QED
    BY <1>1, <1>2, <2>1, <2>3
<1>5. UNCHANGED db => UNCHANGED <<rows, tags>>
  BY DEF db
<1> DEFINE k == op[q].crate
           Same == /\ tags'[k] = tags[k]
                   /\ \A v \in Versions : Lists(rows'[k], v) <=> Lists(rows[k], v)
<1>6. \A p \in Procs : pc[p] = "commit" /\ Committed(p) /\ Leaves(p) => Same
  BY <1>3
<1>7. \A p \in Procs : /\ pc[p] = "yank" /\ Lists(rows[op[p].crate], op[p].vers)
                       /\ Yanked(p)
                      => Same
  BY <1>4, YankEffect
<1>8. UNCHANGED db => Same
  BY <1>5
<1> HIDE DEF Same
<1>9. Same
  BY <1>6, <1>7, <1>8, DbSteps
<1> QED
  BY <1>9 DEF Same

LEMMA SeenKept ==
  ASSUME IInv, [Next]_vars
  PROVE  SeenCurrent'
<1>1. SUFFICES ASSUME NEW q \in Procs
               PROVE  /\ pc'[q] \in HasTags => got'[q] = tags'[op'[q].crate]
                      /\ pc'[q] \in HasVersion => ~Lists(rows'[op'[q].crate], op'[q].vers)
                      /\ pc'[q] = "commit" => ReleaseOf(op'[q]) \in ended'
  BY DEF SeenCurrent, Lists, ReleaseOf
<1>2. Sees(q)
  BY StepSees DEF IInv, LockInv
<1>3. /\ pc[q] \in HasTags => got[q] = tags[op[q].crate]
      /\ pc[q] \in HasVersion => ~Lists(rows[op[q].crate], op[q].vers)
      /\ pc[q] = "commit" => ReleaseOf(op[q]) \in ended
  BY DEF IInv, DataInv, SeenCurrent
<1>4. \A s \in HasVersion : s \in HasTags
  BY DEF HasTags, HasVersion
<1>5. pc'[q] \in HasTags => got'[q] = tags'[op'[q].crate]
  BY <1>2, <1>3, OthersUndisturbed DEF Sees, db
<1>6. pc'[q] \in HasVersion => ~Lists(rows'[op'[q].crate], op'[q].vers)
  <2>1. pc[q] \in HasVersion => op[q].vers \in Versions
    BY OpsTyped DEF IInv, LockInv, TypeInv, PlacesMatch, HasVersion, HasCrate
  <2>2. CASE pc'[q] \in HasVersion /\ pc[q] \in HasVersion /\ op'[q] = op[q]
    BY <1>3, <1>4, <2>1, <2>2, OthersUndisturbed
  <2>3. CASE op'[q] = op[q] /\ ~Lists(rows[op[q].crate], op[q].vers) /\ UNCHANGED db
    BY <2>3 DEF db
  <2> QED
    BY <1>2, <2>2, <2>3 DEF Sees
<1>7. pc'[q] = "commit" => ReleaseOf(op'[q]) \in ended'
  BY <1>2, <1>3, EndedGrows DEF Sees
<1> QED
  BY <1>5, <1>6, <1>7

LEMMA IInvStep == IInv /\ [Next]_vars => IInv'
  BY LockStep, RowsKept, TagsKept, ListedKept, AckedKept, SeenKept DEF IInv, DataInv

LEMMA IInvInit == Init => IInv
<1> SUFFICES ASSUME Init PROVE HeldApart /\ EntriesHeld /\ DataInv
  BY TypeInit DEF IInv, LockInv
<1>1. HeldApart /\ EntriesHeld /\ SeenCurrent
  BY DEF Init, HeldApart, EntriesHeld, SeenCurrent, HasCrate, HasTags, HasVersion
<1>2. RowsFine /\ TagsOfNewest /\ ListedAfterEndStep /\ AckedStay
  BY NoFileFine DEF Init, RowsFine, TagsOfNewest, ListedAfterEndStep, AckedStay, NoFile
<1> QED
  BY <1>1, <1>2 DEF DataInv

LEMMA IInvAlways == Spec => []IInv
  BY IInvInit, IInvStep, PTL DEF Spec

(***************************************************************************)
(* The keywords of a crate are those of the publication committed last.     *)
(***************************************************************************)
THEOREM TagsAreOfNewest == Spec => []TagsOfNewest
  BY IInvAlways, PTL DEF IInv, DataInv

(***************************************************************************)
(* Whatever is listed has its tarball stored: end_step succeeded before the *)
(* commit.                                                                  *)
(***************************************************************************)
THEOREM ListedAreStored == Spec => []ListedAfterEndStep
  BY IInvAlways, PTL DEF IInv, DataInv

(***************************************************************************)
(* A publication that was acknowledged stays in the index.                  *)
(***************************************************************************)
THEOREM AcknowledgedStay == Spec => []AckedStay
  BY IInvAlways, PTL DEF IInv, DataInv
-----------------------------------------------------------------------------
\* The abstract index changes its entries by the same operators.
LEMMA SameOperators ==
  ASSUME NEW f, NEW v, NEW c, NEW b
  PROVE  /\ Atomic!Lists(f, v) <=> Lists(f, v)
         /\ Atomic!WithVersion(f, v, c) = WithVersion(f, v, c)
         /\ Atomic!WithYanked(f, v, b) = WithYanked(f, v, b)
<1>1. Atomic!Rfind(f, v) = Rfind(f, v)
  BY DEF Atomic!Rfind, Atomic!IsLastOf, Rfind, IsLastOf
<1> QED
  BY <1>1 DEF Atomic!Lists, Atomic!WithVersion, Atomic!WithYanked,
     Lists, WithVersion, WithYanked

LEMMA StepIsAtomic == IInv /\ [Next]_vars => [Atomic!Next]_rows
<1> SUFFICES ASSUME IInv, [Next]_vars PROVE [Atomic!Next]_rows
  OBVIOUS
<1>1. ASSUME NEW p \in Procs, pc[p] = "commit", Committed(p) PROVE Atomic!Next
  <2> DEFINE o == op[p]
  <2>1. /\ o.crate \in Keys /\ o.vers \in Versions /\ o.cksum \in Cksums
        /\ ~Lists(rows[o.crate], o.vers)
        /\ rows' = [rows EXCEPT ![o.crate] = WithVersion(rows[o.crate], o.vers, o.cksum)]
    <3> HIDE DEF WithVersion
    <3> QED
      BY <1>1, CommitEffect
  <2>2. ~Atomic!Lists(rows[o.crate], o.vers)
    BY <2>1, SameOperators, Zenon
  <2>3. Atomic!WithVersion(rows[o.crate], o.vers, o.cksum)
          = WithVersion(rows[o.crate], o.vers, o.cksum)
    BY SameOperators, Zenon
  <2>4. Atomic!publish(o.crate, o.vers, o.cksum)
    BY <2>1, <2>2, <2>3 DEF Atomic!publish
  <2> QED
    BY <2>1, <2>4 DEF Atomic!Next
<1>2. ASSUME NEW p \in Procs, pc[p] = "yank", Lists(rows[op[p].crate], op[p].vers),
             Yanked(p)
      PROVE  Atomic!Next
  <2> DEFINE o == op[p]
  <2>1. /\ o.crate \in Keys /\ o.vers \in Versions /\ o.yanked \in BOOLEAN
        /\ rows' = [rows EXCEPT ![o.crate] = WithYanked(rows[o.crate], o.vers, o.yanked)]
    <3> HIDE DEF WithYanked
    <3> QED
      BY <1>2, YankEffect
  <2>2. Atomic!Lists(rows[o.crate], o.vers)
    BY <1>2, SameOperators, Zenon
  <2>3. Atomic!WithYanked(rows[o.crate], o.vers, o.yanked)
          = WithYanked(rows[o.crate], o.vers, o.yanked)
    BY SameOperators, Zenon
  <2>4. Atomic!set_yanked(o.crate, o.vers, o.yanked)
    BY <2>1, <2>2, <2>3 DEF Atomic!set_yanked
  <2> QED
    BY <2>1, <2>4 DEF Atomic!Next
<1> QED
  BY <1>1, <1>2, DbSteps DEF db

(***************************************************************************)
(* Every step of the transactions is a publication or a yank of the atomic  *)
(* index, or leaves it alone.                                               *)
(***************************************************************************)
THEOREM PgIsAtomic == Spec => ImplementsAtomicIndex
<1>1. Init => Atomic!Init
  BY DEF Init, Atomic!Init, NoFile, Atomic!NoFile
<1> QED
  BY <1>1, IInvAlways, StepIsAtomic, PTL DEF Spec, ImplementsAtomicIndex, Atomic!Spec
-----------------------------------------------------------------------------
\* An atomic index of well-formed crates.
AtomicInv == rows \in [Keys -> Contents] /\ RowsFine

LEMMA AtomicGrows ==
  ASSUME AtomicInv, [Atomic!Next]_rows
  PROVE  /\ \A k \in Keys : Grows(rows[k], rows'[k])
         /\ rows' \in [Keys -> Contents]
<1> USE DEF AtomicInv
<1>1. ASSUME NEW k \in Keys, NEW v \in Versions, NEW c \in Cksums, Atomic!publish(k, v, c)
      PROVE  /\ \A j \in Keys : Grows(rows[j], rows'[j])
             /\ rows' \in [Keys -> Contents]
  <2>1. ~Lists(rows[k], v)
    BY <1>1, SameOperators, Zenon DEF Atomic!publish
  <2>2. Atomic!WithVersion(rows[k], v, c) = WithVersion(rows[k], v, c)
    BY SameOperators, Zenon
  <2>3. rows' = [rows EXCEPT ![k] = WithVersion(rows[k], v, c)]
    BY <1>1, <2>2 DEF Atomic!publish
  <2>4. WithVersion(rows[k], v, c) \in Contents
    BY WithVersionContents
  <2> HIDE DEF WithVersion
  <2> QED
    BY <2>1, <2>3, <2>4 DEF Grows
<1>2. ASSUME NEW k \in Keys, NEW v \in Versions, NEW b \in BOOLEAN,
             Atomic!set_yanked(k, v, b)
      PROVE  /\ \A j \in Keys : Grows(rows[j], rows'[j])
             /\ rows' \in [Keys -> Contents]
  <2>1. Lists(rows[k], v)
    BY <1>2, SameOperators, Zenon DEF Atomic!set_yanked
  <2>2. Atomic!WithYanked(rows[k], v, b) = WithYanked(rows[k], v, b)
    BY SameOperators, Zenon
  <2>3. rows' = [rows EXCEPT ![k] = WithYanked(rows[k], v, b)]
    BY <1>2, <2>2 DEF Atomic!set_yanked
  <2>4. WithYanked(rows[k], v, b) \in Contents
    BY WithYankedContents
  <2> HIDE DEF WithYanked
  <2> QED
    BY <2>1, <2>3, <2>4 DEF Grows
<1>3. CASE UNCHANGED rows
  BY <1>3 DEF Grows
<1> QED
  BY <1>1, <1>2, <1>3 DEF Atomic!Next

LEMMA AtomicStep ==
  AtomicInv /\ [Atomic!Next]_rows
    => AtomicInv' /\ [\A k \in Keys : Atomic!Extends(rows[k], rows'[k])]_rows
<1> SUFFICES ASSUME AtomicInv, [Atomic!Next]_rows
             PROVE  AtomicInv' /\ \A k \in Keys : Atomic!Extends(rows[k], rows'[k])
  OBVIOUS
<1>1. ASSUME NEW k \in Keys
      PROVE  /\ UniqueIn(rows'[k]) /\ PublishLineIn(rows'[k])
             /\ Extends(rows[k], rows'[k])
  <2>1. rows[k] \in Contents /\ UniqueIn(rows[k]) /\ PublishLineIn(rows[k])
    BY DEF AtomicInv, RowsFine
  <2> QED
    BY <2>1, AtomicGrows, GrowsKeeps
<1>2. RowsFine'
  BY <1>1 DEF RowsFine, UniqueIn, PublishLineIn
<1> QED
  BY <1>1, <1>2, AtomicGrows DEF AtomicInv, Extends, Atomic!Extends

(***************************************************************************)
(* In any atomic index, of files or of rows, no version is listed twice,    *)
(* and no entry disappears, moves or changes its checksum.                  *)
(***************************************************************************)
THEOREM AtomicIndexSound ==
  Atomic!Spec => []Atomic!UniqueVersions /\ Atomic!EntriesImmutable
<1>1. Atomic!Init => AtomicInv
  BY NoFileFine DEF Atomic!Init, AtomicInv, RowsFine, Atomic!NoFile, NoFile
<1>2. AtomicInv => Atomic!UniqueVersions
  BY DEF AtomicInv, RowsFine, UniqueIn, Atomic!UniqueVersions, Atomic!UniqueIn
<1> QED
  BY <1>1, <1>2, AtomicStep, PTL DEF Atomic!Spec, Atomic!EntriesImmutable

(***************************************************************************)
(* What follows for the tables of PostgreSQL.                               *)
(***************************************************************************)
THEOREM RowsUniqueAndKept ==
  Spec => []Atomic!UniqueVersions /\ Atomic!EntriesImmutable
  BY PgIsAtomic, AtomicIndexSound DEF ImplementsAtomicIndex
=============================================================================
