------------------------ MODULE PublishFlow_proofs ------------------------
(***************************************************************************)
(* For any number of requests, crates, versions and tarballs: the handlers  *)
(* keep the types and use the index as it is meant to be used, tarballs in  *)
(* the bucket are accounted for, and, with the index in a directory and no  *)
(* tarball in two requests at a time, whatever is listed can be downloaded. *)
(***************************************************************************)
EXTENDS PublishFlow, FsIndex_proofs

\* What the handlers do with the index are steps of the index.
LEMMA IndexSteps == [FlowNext]_flowVars => [Next]_vars
<1> SUFFICES ASSUME [FlowNext]_flowVars PROVE [Next]_vars
  OBVIOUS
<1>1. ASSUME NEW p \in Procs, NEW o \in Ops, Accept(p, o) PROVE Next
  BY <1>1 DEF Accept, Next
<1>2. ASSUME NEW p \in Procs, InIndex(p) PROVE Next
  BY <1>2 DEF InIndex, Next, Step
<1>3. ASSUME NEW p \in Procs, NEW ok \in BOOLEAN, StoreCrate(p, ok) PROVE Next
  BY <1>3 DEF StoreCrate, put_crate, Next, Step
<1>4. ASSUME NEW p \in Procs, IndexReturns(p) PROVE Next
  BY <1>4 DEF IndexReturns, Next, Step
<1>5. ASSUME NEW p \in Procs, DeleteCrate(p) \/ Pull(p) PROVE UNCHANGED vars
  BY <1>5 DEF DeleteCrate, Pull, indexVars
<1>6. ASSUME NEW p \in Procs, Disconnect(p) PROVE Next \/ UNCHANGED vars
  BY <1>6 DEF Disconnect, Next, indexVars
<1>7. ASSUME ServerDies PROVE Next
  BY <1>7 DEF ServerDies, Next
<1>8. ASSUME UNCHANGED flowVars PROVE UNCHANGED vars
  BY <1>8 DEF flowVars, indexVars
<1> QED
  BY <1>1, <1>2, <1>3, <1>4, <1>5, <1>6, <1>7, <1>8 DEF FlowNext

LEMMA EntryTyped ==
  ASSUME NEW f \in Contents, NEW i \in DOMAIN f.versions
  PROVE  f.versions[i].vers \in Versions /\ f.versions[i].cksum \in Cksums
<1>1. f.versions \in Seq(CrateVersion)
  BY DEF Contents
<1>2. f.versions[i] \in CrateVersion
  BY <1>1
<1> QED
  BY <1>2 DEF CrateVersion

\* The tarballs that files f promise.
LEMMA ListedEntries ==
  ASSUME NEW f \in [Keys -> Contents], NEW t
  PROVE  t \in UNION {{[crate |-> k, vers |-> f[k].versions[i].vers,
                        cksum |-> f[k].versions[i].cksum] :
                          i \in DOMAIN f[k].versions} : k \in Keys}
           <=> t \in Tarballs /\ HasEntry(f[t.crate], t)
<1>1. ASSUME NEW k \in Keys, NEW i \in DOMAIN f[k].versions
      PROVE  f[k].versions[i].vers \in Versions /\ f[k].versions[i].cksum \in Cksums
  BY EntryTyped
<1>2. ASSUME t \in Tarballs, HasEntry(f[t.crate], t)
      PROVE  \E k \in Keys : \E i \in DOMAIN f[k].versions :
               t = [crate |-> k, vers |-> f[k].versions[i].vers,
                    cksum |-> f[k].versions[i].cksum]
  BY <1>2 DEF Tarballs, HasEntry
<1>3. ASSUME NEW k \in Keys, NEW i \in DOMAIN f[k].versions,
             t = [crate |-> k, vers |-> f[k].versions[i].vers,
                  cksum |-> f[k].versions[i].cksum]
      PROVE  t \in Tarballs /\ HasEntry(f[t.crate], t)
  BY <1>1, <1>3 DEF Tarballs, HasEntry
<1> QED
  BY <1>2, <1>3

LEMMA ListedGrows ==
  ASSUME IInv, TypeOK', [FlowNext]_flowVars PROVE Listed \subseteq Listed'
<1>1. /\ file \in [Keys -> Contents] /\ file' \in [Keys -> Contents]
      /\ \A k \in Keys : Extends(file[k], file'[k])
  BY IndexSteps, FileStep, NoLatePuts DEF IInv, LockInv, TypeOK
<1>2. \A t \in Tarballs : t.crate \in Keys
  BY DEF Tarballs
<1> QED
  BY <1>1, <1>2, ListedEntries, HasEntryKept DEF Listed
-----------------------------------------------------------------------------
\* What the place of a handler says of its request.
Handlers ==
  \A p \in Procs :
    /\ hpc[p] = "index" => /\ doing[p] = op[p] /\ op[p] \in Publications \cup Queries
                           /\ op[p].kind \in {"publish", "confirm"}
    /\ hpc[p] = "index" /\ stored[p] => pc[p] \in {"put", "done"}
    /\ pc[p] = "put" => stored[p]
    /\ hpc[p] = "delete" => stored[p]
    /\ hpc[p] = "pull" => ~stored[p]

\* An answer holds as long as its lock is held: what was written is in the
\* file, and what was found is what the file has.
Answers ==
  \A p \in Procs :
    pc[p] = "done" /\ res[p] = "Ok" =>
      /\ op[p].kind = "publish" => stored[p] /\ HasEntry(file[op[p].crate], op[p])
      /\ op[p].kind = "confirm" => /\ Lists(seen[p], op[p].vers)
                                   /\ seen[p] = file[op[p].crate]

PulledIsListed == \A p \in Procs : hpc[p] = "pull" => doing[p] \in Listed

FlowInv == FlowTypeOK /\ IInv /\ Handlers /\ Answers /\ PulledIsListed

LEMMA KindsTyped ==
  /\ \A o \in Publications : o.kind = "publish"
  /\ \A o \in Queries : o.kind \in {"sparse", "confirm"} /\ o \notin Writes
  /\ \A o \in Ops : o.kind = "publish" => o \in Publications
  /\ \A o \in Ops : o.kind = "confirm" => o \in Queries /\ o.vers \in Versions
  /\ \A o \in Ops : o.kind \in {"publish", "confirm"} => o \in Publications \cup Queries
  BY DEF Publications, Yanks, Queries, Writes, Ops

LEMMA PathsTyped ==
  ASSUME NEW t, t \in Publications \/ t \in Tarballs
  PROVE  PathOf(t) \in Paths /\ OldPathOf(t) \in Paths /\ t.cksum # OldPath
  BY OldPathAssumption DEF PathOf, OldPathOf, Paths, Publications, Tarballs

\* A request that is served is a publication or a query that its handler asked.
LEMMA Asked ==
  ASSUME FlowInv, NEW p \in Procs, pc[p] # "idle"
  PROVE  /\ hpc[p] = "index" /\ doing[p] = op[p] /\ op[p] \in Ops
         /\ op[p] \in Publications \cup Queries /\ op[p] \notin Yanks
         /\ op[p].kind \in {"publish", "confirm"}
         /\ pc[p] \in {"end_step", "put"} => op[p] \in Publications
         /\ stored[p] => pc[p] \in {"put", "done"} /\ op[p] \in Publications
<1>1. /\ hpc[p] = "index" /\ doing[p] = op[p] /\ op[p] \in Ops
      /\ op[p] \in Publications \cup Queries /\ op[p].kind \in {"publish", "confirm"}
  BY DEF FlowInv, FlowTypeOK, Handlers, Ops, Writes
<1>2. op[p] \notin Yanks
  BY <1>1, OpsTyped, KindsTyped
<1>3. pc[p] \in {"end_step", "put"} => op[p] \in Publications
  BY <1>2 DEF FlowInv, FlowTypeOK, TypeOK, Writes
<1>4. stored[p] => pc[p] \in {"put", "done"} /\ op[p] \in Publications
  BY <1>1 DEF FlowInv, FlowTypeOK, Handlers
<1> QED
  BY <1>1, <1>2, <1>3, <1>4

\* Where Read leads a request of the handlers, and with which answer.
LEMMA ReadLeads ==
  ASSUME FlowInv, NEW p \in Procs, Read(p)
  PROVE  /\ \E s \in {"end_step", "done"} : pc' = [pc EXCEPT ![p] = s]
         /\ UNCHANGED <<file, op>> /\ seen' = [seen EXCEPT ![p] = file[op[p].crate]]
         /\ pc'[p] = "done" /\ res'[p] = "Ok" =>
              /\ op[p].kind # "publish"
              /\ op[p].kind = "confirm" => Lists(file[op[p].crate], op[p].vers)
         /\ \A q \in Procs \ {p} : res'[q] = res[q]
<1> DEFINE f == file[op[p].crate]
           n == AfterRead(op[p], f)
<1>1. pc[p] = "read" /\ UNCHANGED <<file, op>> /\ seen' = [seen EXCEPT ![p] = f]
  BY DEF Read
<1>2. op[p] \in Ops /\ op[p] \notin Yanks
  BY <1>1, Asked
<1>3. /\ n \in {"end_step"} \cup Results
      /\ n = "Ok" => /\ op[p].kind # "publish"
                     /\ op[p].kind = "confirm" => Lists(f, op[p].vers)
  <2>1. n \in {"end_step", "put"} \cup Results /\ n # "put"
    BY <1>2, AfterReadTyped
  <2>2. n = "Ok" => /\ op[p].kind # "publish"
                    /\ op[p].kind = "confirm" => Lists(f, op[p].vers)
    BY <1>2 DEF AfterRead, Ops, Writes, Publications, Yanks, Queries
  <2> QED
    BY <2>1, <2>2
<1>4. /\ pc \in [Procs -> States] /\ res \in [Procs -> Results]
  BY DEF FlowInv, FlowTypeOK, TypeOK
<1>5. \/ n = "end_step" /\ pc' = [pc EXCEPT ![p] = n] /\ UNCHANGED res
      \/ n \in Results /\ pc' = [pc EXCEPT ![p] = "done"] /\ res' = [res EXCEPT ![p] = n]
  <2>1. \/ n \in States /\ pc' = [pc EXCEPT ![p] = n] /\ UNCHANGED res
        \/ n \notin States /\ pc' = [pc EXCEPT ![p] = "done"] /\ res' = [res EXCEPT ![p] = n]
    BY DEF Read, Goto, Answer
  <2> HIDE DEF n
  <2> QED
    BY <1>3, <2>1 DEF States, Results
<1> HIDE DEF n
<1> QED
  BY <1>1, <1>3, <1>4, <1>5

\* The file of a request that has its answer is written by nobody.
LEMMA DoneFileKept ==
  ASSUME IInv, [Next]_vars, NEW p \in Procs, pc[p] = "done", op[p] \in Ops
  PROVE  file'[op[p].crate] = file[op[p].crate]
<1>1. ASSUME NEW q \in Procs, pc[q] = "put", NEW e, PutEffect(q, e)
      PROVE  file'[op[p].crate] = file[op[p].crate]
  <2>1. op[q] \in Writes /\ op[q] \in Ops /\ op[q].crate \in Keys /\ op[p].crate \in Keys
    BY <1>1, NewContentsTyped, OpsTyped DEF IInv, LockInv, Ops
  <2>2. LockOf(p, op[p]) \in held /\ LockOf(q, op[q]) \in held
    BY <1>1 DEF IInv, LockInv, LocksMatch, Inside
  <2>3. /\ LockOf(p, op[p]).proc = p /\ LockOf(q, op[q]).proc = q /\ p # q
        /\ LockOf(p, op[p]).key = op[p].crate /\ LockOf(q, op[q]).key = op[q].crate
        /\ LockOf(q, op[q]).mode = "exclusive"
    BY <1>1, <2>1, LockOfTyped
  <2>4. op[p].crate # op[q].crate
    BY <2>2, <2>3 DEF IInv, LockInv, Lock!Exclusion, Lock!Compatible
  <2> HIDE DEF NewContents
  <2> QED
    BY <1>1, <2>1, <2>4 DEF PutEffect, IInv, LockInv, TypeOK
<1>2. CASE UNCHANGED file
  BY <1>2
<1>3. ASSUME NEW k \in Keys PROVE ~Land(k)
  BY DEF Land, IInv, DataInv, NothingLate
<1> QED
  BY <1>1, <1>2, <1>3 DEF Next, Step, Begin, Locked, Read, ReadFails, EndStep, Put,
     PutFails, Return, Cancel, Crash, vars

\* What an answered request was told stays true while it has its lock.
LEMMA AnswersKept ==
  ASSUME FlowInv, [Next]_vars, TypeOK', NEW p \in Procs,
         pc[p] = "done", res[p] = "Ok",
         op'[p] = op[p], seen'[p] = seen[p], stored'[p] = stored[p]
  PROVE  /\ op'[p].kind = "publish" => stored'[p] /\ HasEntry(file'[op'[p].crate], op'[p])
         /\ op'[p].kind = "confirm" => /\ Lists(seen'[p], op'[p].vers)
                                       /\ seen'[p] = file'[op'[p].crate]
<1>1. op[p] \in Ops
  BY Asked
<1>2. file'[op[p].crate] = file[op[p].crate]
  BY <1>1, DoneFileKept DEF FlowInv
<1> QED
  BY <1>2 DEF FlowInv, Answers

LEMMA AnswersStep == FlowInv /\ TypeOK' /\ [FlowNext]_flowVars => Answers'
<1> SUFFICES ASSUME FlowInv, TypeOK', [FlowNext]_flowVars PROVE Answers'
  OBVIOUS
<1>0. [Next]_vars
  BY IndexSteps
<1> USE DEF Goto, Answer
<1>a. /\ pc \in [Procs -> States] /\ res \in [Procs -> Results]
      /\ op \in [Procs -> Ops \cup {NoOp}] /\ seen \in [Procs -> Contents]
      /\ stored \in [Procs -> BOOLEAN] /\ file \in [Keys -> Contents]
  BY DEF FlowInv, FlowTypeOK, TypeOK
\* Steps that give nobody a new answer, and leave the answered ones alone.
<1>1. ASSUME \A q \in Procs : pc'[q] = "done" /\ res'[q] = "Ok" =>
               /\ pc[q] = "done" /\ res[q] = "Ok"
               /\ op'[q] = op[q] /\ seen'[q] = seen[q] /\ stored'[q] = stored[q]
      PROVE  Answers'
  BY <1>0, <1>1, AnswersKept DEF Answers
<1>2. ASSUME NEW p \in Procs, NEW o \in Ops, Accept(p, o) PROVE Answers'
  BY <1>1, <1>2, <1>a DEF Accept, Begin
<1>3. ASSUME NEW p \in Procs, Locked(p), UNCHANGED stored PROVE Answers'
  BY <1>1, <1>3, <1>a DEF Locked
<1>4. ASSUME NEW p \in Procs, Read(p), UNCHANGED stored PROVE Answers'
  <2>1. /\ \E s \in {"end_step", "done"} : pc' = [pc EXCEPT ![p] = s]
        /\ UNCHANGED <<file, op>> /\ seen' = [seen EXCEPT ![p] = file[op[p].crate]]
        /\ pc'[p] = "done" /\ res'[p] = "Ok" =>
             /\ op[p].kind # "publish"
             /\ op[p].kind = "confirm" => Lists(file[op[p].crate], op[p].vers)
        /\ \A q \in Procs \ {p} : res'[q] = res[q]
    BY <1>4, ReadLeads
  <2>2. ASSUME NEW q \in Procs \ {p}, pc'[q] = "done", res'[q] = "Ok"
        PROVE  /\ op'[q].kind = "publish" => stored'[q] /\ HasEntry(file'[op'[q].crate], op'[q])
               /\ op'[q].kind = "confirm" => /\ Lists(seen'[q], op'[q].vers)
                                             /\ seen'[q] = file'[op'[q].crate]
    <3>1. /\ pc[q] = "done" /\ res[q] = "Ok"
          /\ op'[q] = op[q] /\ seen'[q] = seen[q] /\ stored'[q] = stored[q]
      BY <1>4, <1>a, <2>1, <2>2
    <3> QED
      BY <3>1, <1>0, AnswersKept
  <2>3. seen'[p] = file'[op'[p].crate] /\ op'[p] = op[p] /\ file' = file
    BY <1>a, <2>1
  <2> QED
    BY <2>1, <2>2, <2>3 DEF Answers
<1>5. ASSUME NEW p \in Procs, Put(p), UNCHANGED stored PROVE Answers'
  <2>1. /\ pc[p] = "put" /\ UNCHANGED <<op, seen>> /\ PutEffect(p, "applied")
        /\ op[p] \in Publications /\ stored[p]
    BY <1>5, Asked DEF Put, FlowInv, Handlers
  <2>2. HasEntry(file'[op[p].crate], op[p])
    BY <2>1, PutKeepsFiles DEF FlowInv
  <2>3. ASSUME NEW q \in Procs \ {p}, pc'[q] = "done", res'[q] = "Ok"
        PROVE  /\ op'[q].kind = "publish" => stored'[q] /\ HasEntry(file'[op'[q].crate], op'[q])
               /\ op'[q].kind = "confirm" => /\ Lists(seen'[q], op'[q].vers)
                                             /\ seen'[q] = file'[op'[q].crate]
    <3>1. /\ pc[q] = "done" /\ res[q] = "Ok"
          /\ op'[q] = op[q] /\ seen'[q] = seen[q] /\ stored'[q] = stored[q]
      BY <1>5, <1>a, <2>1, <2>3 DEF Put
    <3> QED
      BY <3>1, <1>0, AnswersKept
  <2>4. op'[p] = op[p] /\ op[p].kind # "confirm" /\ stored'[p]
    BY <1>5, <2>1, KindsTyped
  <2> QED
    BY <2>2, <2>3, <2>4 DEF Answers
<1>6. ASSUME NEW p \in Procs, ReadFails(p) \/ (\E e \in Effects : PutFails(p, e)),
             UNCHANGED stored
      PROVE  Answers'
  <2>1. pc' = [pc EXCEPT ![p] = "done"] /\ res' = [res EXCEPT ![p] = "ServiceError"]
        /\ UNCHANGED <<op, seen>>
    BY <1>6 DEF ReadFails, PutFails
  <2> QED
    BY <1>1, <1>6, <1>a, <2>1
<1>7. ASSUME NEW p \in Procs, NEW ok \in BOOLEAN, StoreCrate(p, ok) PROVE Answers'
  <2>1. /\ UNCHANGED <<op, seen>> /\ stored' = [stored EXCEPT ![p] = ok]
        /\ \/ pc' = [pc EXCEPT ![p] = "put"] /\ UNCHANGED res
           \/ pc' = [pc EXCEPT ![p] = "done"] /\ res' = [res EXCEPT ![p] = "ServiceError"]
    BY <1>7 DEF StoreCrate, put_crate, EndStep
  <2> QED
    BY <1>1, <1>7, <1>a, <2>1
<1>8. ASSUME NEW p \in Procs, IndexReturns(p) PROVE Answers'
  <2>1. Forget(p) /\ \A q \in Procs \ {p} : stored'[q] = stored[q]
    BY <1>8, <1>a DEF IndexReturns, Return, Finish
  <2> QED
    BY <1>1, <1>8, <1>a, <2>1 DEF Forget
<1>9. ASSUME NEW p \in Procs, DeleteCrate(p) \/ Pull(p) \/ (hpc[p] = "delete" /\ Disconnect(p))
      PROVE  Answers'
  <2>1. pc[p] = "idle" \/ hpc[p] = "index"
    BY DEF FlowInv, FlowTypeOK
  <2>2. UNCHANGED <<pc, res, op, seen>> /\ pc[p] # "done"
        /\ \A q \in Procs \ {p} : stored'[q] = stored[q]
    BY <1>9, <1>a, <2>1
       DEF DeleteCrate, Pull, Finish, indexVars, vars, Disconnect, Cancel
  <2> QED
    BY <1>1, <2>2
<1>10. ASSUME NEW p \in Procs, Cancel(p), Finish(p) PROVE Answers'
  BY <1>1, <1>10, <1>a DEF Cancel, Forget, Finish
<1>11. ASSUME ServerDies PROVE Answers'
  BY <1>1, <1>11 DEF ServerDies, Crash
<1>12. ASSUME UNCHANGED flowVars PROVE Answers'
  BY <1>1, <1>12 DEF flowVars, indexVars, vars
<1>13. ASSUME NEW p \in Procs, InIndex(p) PROVE Answers'
  BY <1>13, <1>3, <1>4, <1>5, <1>6 DEF InIndex
<1>14. ASSUME NEW p \in Procs, Disconnect(p) PROVE Answers'
  BY <1>14, <1>9, <1>10 DEF Disconnect
<1> QED
  BY <1>2, <1>7, <1>8, <1>9, <1>11, <1>12, <1>13, <1>14 DEF FlowNext

\* The tarball that a download is about to ask for is listed.
LEMMA PulledEntry ==
  ASSUME FlowInv, NEW p \in Procs, pc[p] = "done", res[p] = "Ok",
         op[p].kind = "confirm"
  PROVE  LET t == [crate |-> op[p].crate, vers |-> op[p].vers,
                   cksum |-> seen[p].versions[Rfind(seen[p], op[p].vers)].cksum]
         IN t \in Listed /\ t \in Tarballs
<1> DEFINE f == seen[p]
           i == Rfind(f, op[p].vers)
           t == [crate |-> op[p].crate, vers |-> op[p].vers, cksum |-> f.versions[i].cksum]
<1>1. op[p] \in Ops /\ op[p].crate \in Keys /\ op[p].vers \in Versions
  BY Asked, OpsTyped, KindsTyped
<1>2. Lists(f, op[p].vers) /\ f = file[op[p].crate] /\ f \in Contents
  BY DEF FlowInv, Answers, FlowTypeOK, TypeOK
<1>3. UniqueIn(f)
  BY <1>1, <1>2 DEF FlowInv, IInv, DataInv, UniqueVersions
<1>4. i \in DOMAIN f.versions /\ f.versions[i].vers = op[p].vers
  BY <1>1, <1>2, <1>3, RfindUnique
<1> HIDE DEF i
<1>5. f.versions[i].cksum \in Cksums
  BY <1>2, <1>4, EntryTyped
<1>6. t \in Tarballs /\ HasEntry(file[t.crate], t)
  BY <1>1, <1>2, <1>4, <1>5 DEF Tarballs, HasEntry
<1>7. file \in [Keys -> Contents]
  BY DEF FlowInv, FlowTypeOK, TypeOK
<1> QED
  BY <1>6, <1>7, ListedEntries DEF Listed, i

\* What is left of a request whose handler is done with it.
LEMMA FinishDoes ==
  ASSUME FlowTypeOK, NEW p \in Procs, Finish(p)
  PROVE  /\ hpc'[p] = "idle" /\ doing'[p] = NoOp /\ stored'[p] = FALSE
         /\ \A q \in Procs \ {p} : hpc'[q] = hpc[q] /\ doing'[q] = doing[q]
                                   /\ stored'[q] = stored[q]
         /\ hpc' \in [Procs -> HandlerStates] /\ stored' \in [Procs -> BOOLEAN]
         /\ doing' \in [Procs -> Publications \cup Queries \cup Tarballs \cup {NoOp}]
  BY DEF Finish, FlowTypeOK, HandlerStates

\* The three ways of a handler after the index has answered.
LEMMA ReturnLeads ==
  ASSUME FlowInv, NEW p \in Procs, IndexReturns(p)
  PROVE  /\ pc[p] = "done" /\ Forget(p) /\ UNCHANGED <<file, late, acked, bucket, strays>>
         /\ \/ /\ Finish(p)
               /\ stored[p] => res[p] = "Ok" /\ op[p].kind = "publish"
            \/ /\ hpc' = [hpc EXCEPT ![p] = "delete"] /\ UNCHANGED <<doing, stored>>
               /\ stored[p] /\ res[p] # "Ok"
            \/ /\ hpc' = [hpc EXCEPT ![p] = "pull"] /\ UNCHANGED stored /\ ~stored[p]
               /\ \E t \in Tarballs \cap Listed : doing' = [doing EXCEPT ![p] = t]
<1>1. pc[p] = "done" /\ Forget(p) /\ UNCHANGED <<file, late, acked, bucket, strays>>
  BY DEF IndexReturns, Return
<1>2. /\ doing[p] = op[p] /\ op[p] \in Ops /\ op[p] \in Publications \cup Queries
      /\ stored[p] => op[p] \in Publications
  BY <1>1, Asked
<1>3. stored[p] => op[p].kind = "publish"
  BY <1>2, KindsTyped
<1>4. CASE op[p].kind = "publish"
  BY <1>1, <1>2, <1>4 DEF IndexReturns, Undo
<1>5. CASE op[p].kind # "publish" /\ res[p] # "Ok"
  BY <1>1, <1>2, <1>3, <1>5 DEF IndexReturns
<1>6. CASE op[p].kind # "publish" /\ res[p] = "Ok"
  <2> DEFINE t == [crate |-> op[p].crate, vers |-> op[p].vers,
                   cksum |-> seen[p].versions[Rfind(seen[p], op[p].vers)].cksum]
  <2>1. op[p].kind = "confirm"
    BY <1>1, <1>6, Asked
  <2>2. t \in Listed /\ t \in Tarballs
    BY <1>1, <1>6, <2>1, PulledEntry
  <2>3. doing' = [doing EXCEPT ![p] = t]
    BY <1>2, <1>6 DEF IndexReturns
  <2> HIDE DEF t
  <2> QED
    BY <1>1, <1>2, <1>3, <1>6, <2>2, <2>3 DEF IndexReturns
<1> QED
  BY <1>1, <1>4, <1>5, <1>6

\* Who is served by the index after a step, and with what.
LEMMA HandlersStep ==
  FlowInv /\ TypeOK' /\ [FlowNext]_flowVars
    => /\ Handlers'
       /\ hpc' \in [Procs -> HandlerStates] /\ stored' \in [Procs -> BOOLEAN]
       /\ doing' \in [Procs -> Publications \cup Queries \cup Tarballs \cup {NoOp}]
       /\ \A p \in Procs : /\ pc'[p] # "idle" <=> hpc'[p] = "index"
                           /\ doing'[p] = NoOp <=> hpc'[p] = "idle"
                           /\ stored'[p] => doing'[p] \in Publications
<1> DEFINE Good(q) ==
             /\ hpc'[q] = "index" => /\ doing'[q] = op'[q]
                                     /\ op'[q] \in Publications \cup Queries
                                     /\ op'[q].kind \in {"publish", "confirm"}
             /\ hpc'[q] = "index" /\ stored'[q] => pc'[q] \in {"put", "done"}
             /\ pc'[q] = "put" => stored'[q]
             /\ hpc'[q] = "delete" => stored'[q]
             /\ hpc'[q] = "pull" => ~stored'[q]
             /\ pc'[q] # "idle" <=> hpc'[q] = "index"
             /\ doing'[q] = NoOp <=> hpc'[q] = "idle"
             /\ stored'[q] => doing'[q] \in Publications
           Typed ==
             /\ hpc' \in [Procs -> HandlerStates] /\ stored' \in [Procs -> BOOLEAN]
             /\ doing' \in [Procs -> Publications \cup Queries \cup Tarballs \cup {NoOp}]
<1> SUFFICES ASSUME FlowInv, TypeOK', [FlowNext]_flowVars
             PROVE  Typed /\ \A q \in Procs : Good(q)
  BY DEF Handlers
<1> USE DEF Goto, Answer
<1>a. /\ pc \in [Procs -> States] /\ op \in [Procs -> Ops \cup {NoOp}]
      /\ hpc \in [Procs -> HandlerStates] /\ stored \in [Procs -> BOOLEAN]
      /\ doing \in [Procs -> Publications \cup Queries \cup Tarballs \cup {NoOp}]
      /\ FlowTypeOK
      /\ NoOp \notin Publications /\ NoOp \notin Queries /\ NoOp \notin Tarballs
  BY NoOpAssumption, NoOpIsNoTarball DEF FlowInv, FlowTypeOK, TypeOK, Ops, Writes
<1>1. ASSUME NEW q \in Procs,
             pc'[q] = pc[q] /\ op'[q] = op[q] /\ hpc'[q] = hpc[q]
             /\ doing'[q] = doing[q] /\ stored'[q] = stored[q]
      PROVE  Good(q)
  BY <1>1 DEF FlowInv, FlowTypeOK, Handlers
<1>2. ASSUME NEW p \in Procs, NEW o \in Ops, Accept(p, o)
      PROVE  Typed /\ \A q \in Procs : Good(q)
  <2>1. /\ pc' = [pc EXCEPT ![p] = "lock"] /\ op' = [op EXCEPT ![p] = o]
        /\ hpc' = [hpc EXCEPT ![p] = "index"] /\ doing' = [doing EXCEPT ![p] = o]
        /\ UNCHANGED stored /\ o \in Publications \cup Queries
        /\ o.kind \in {"publish", "confirm"} /\ hpc[p] = "idle"
    BY <1>2, KindsTyped DEF Accept, Begin
  <2>2. doing[p] = NoOp /\ ~stored[p]
    BY <1>a, <2>1 DEF FlowTypeOK
  <2>3. Good(p) /\ Typed
    BY <1>a, <2>1, <2>2 DEF HandlerStates
  <2> QED
    BY <1>1, <1>a, <2>1, <2>3
<1>3. ASSUME NEW p \in Procs, UNCHANGED <<op, hpc, doing, stored>>,
             NEW s \in {"read", "end_step", "done"}, pc' = [pc EXCEPT ![p] = s],
             pc[p] # "idle", s # "done" => pc[p] \in {"lock", "read"}
      PROVE  Typed /\ \A q \in Procs : Good(q)
  <2>1. Good(p) /\ Typed
    BY <1>3, <1>a, Asked
  <2> QED
    BY <1>1, <1>3, <1>a, <2>1
<1>4. ASSUME NEW p \in Procs, InIndex(p)
      PROVE  Typed /\ \A q \in Procs : Good(q)
  <2>1. CASE Read(p)
    BY <1>3, <1>4, <2>1, ReadLeads DEF InIndex, Read
  <2>2. CASE Locked(p)
    BY <1>3, <1>4, <2>2 DEF InIndex, Locked
  <2>3. CASE ReadFails(p) \/ Put(p) \/ \E e \in Effects : PutFails(p, e)
    BY <1>3, <1>4, <2>3 DEF InIndex, ReadFails, Put, PutFails
  <2> QED
    BY <1>4, <2>1, <2>2, <2>3 DEF InIndex
<1>5. ASSUME NEW p \in Procs, NEW ok \in BOOLEAN, StoreCrate(p, ok)
      PROVE  Typed /\ \A q \in Procs : Good(q)
  <2>1. /\ pc' = [pc EXCEPT ![p] = IF ok THEN "put" ELSE "done"]
        /\ UNCHANGED <<op, hpc, doing>> /\ stored' = [stored EXCEPT ![p] = ok]
        /\ pc[p] = "end_step"
    BY <1>5 DEF StoreCrate, put_crate, EndStep
  <2>2. op[p] \in Publications /\ doing[p] = op[p] /\ hpc[p] = "index"
        /\ op[p].kind = "publish"
    BY <2>1, Asked, KindsTyped
  <2>3. Good(p) /\ Typed
    BY <1>a, <2>1, <2>2
  <2> QED
    BY <1>1, <1>a, <2>1, <2>3
<1>6. ASSUME NEW p \in Procs, Finish(p), pc'[p] = "idle",
             \A q \in Procs \ {p} : pc'[q] = pc[q] /\ op'[q] = op[q]
      PROVE  Typed /\ \A q \in Procs : Good(q)
  <2>1. /\ hpc'[p] = "idle" /\ doing'[p] = NoOp /\ stored'[p] = FALSE
        /\ \A q \in Procs \ {p} : hpc'[q] = hpc[q] /\ doing'[q] = doing[q]
                                  /\ stored'[q] = stored[q]
        /\ Typed
    BY <1>6, <1>a, FinishDoes
  <2>2. Good(p)
    BY <1>6, <2>1
  <2> HIDE DEF Good, Typed
  <2> QED
    BY <1>1, <1>6, <2>1, <2>2
<1>7. ASSUME NEW p \in Procs, IndexReturns(p)
      PROVE  Typed /\ \A q \in Procs : Good(q)
  <2>1. pc' = [pc EXCEPT ![p] = "idle"] /\ op' = [op EXCEPT ![p] = NoOp]
    BY <1>7, ReturnLeads DEF Forget
  <2>2. CASE Finish(p)
    BY <1>6, <1>a, <2>1, <2>2
  <2>3. CASE /\ hpc' = [hpc EXCEPT ![p] = "delete"] /\ UNCHANGED <<doing, stored>>
             /\ stored[p]
    <3>1. Good(p) /\ Typed
      BY <1>a, <2>1, <2>3 DEF HandlerStates, FlowTypeOK
    <3> QED
      BY <1>1, <1>a, <2>1, <2>3, <3>1
  <2>4. CASE /\ hpc' = [hpc EXCEPT ![p] = "pull"] /\ UNCHANGED stored /\ ~stored[p]
             /\ \E t \in Tarballs : doing' = [doing EXCEPT ![p] = t]
    <3>1. Good(p) /\ Typed
      BY <1>a, <2>1, <2>4 DEF HandlerStates, FlowTypeOK
    <3> QED
      BY <1>1, <1>a, <2>1, <2>4, <3>1
  <2> QED
    BY <1>7, <2>2, <2>3, <2>4, ReturnLeads
<1>8. ASSUME NEW p \in Procs, UNCHANGED <<pc, op>>, hpc[p] \in {"delete", "pull"}, Finish(p)
      PROVE  Typed /\ \A q \in Procs : Good(q)
  <2>1. pc[p] = "idle"
    BY <1>8, <1>a DEF FlowTypeOK
  <2> QED
    BY <1>6, <1>8, <2>1
<1>9. ASSUME NEW p \in Procs, DeleteCrate(p) \/ Pull(p)
      PROVE  Typed /\ \A q \in Procs : Good(q)
  BY <1>8, <1>9 DEF DeleteCrate, Pull, indexVars, vars
<1>10. ASSUME NEW p \in Procs, Disconnect(p)
       PROVE  Typed /\ \A q \in Procs : Good(q)
  <2>1. CASE Cancel(p) /\ Finish(p)
    <3>1. pc' = [pc EXCEPT ![p] = "idle"] /\ op' = [op EXCEPT ![p] = NoOp]
      BY <2>1 DEF Cancel, Forget
    <3> QED
      BY <1>6, <1>a, <2>1, <3>1
  <2> QED
    BY <1>8, <1>10, <2>1 DEF Disconnect, indexVars, vars
<1>11. ASSUME ServerDies PROVE Typed /\ \A q \in Procs : Good(q)
  BY <1>11, <1>a DEF ServerDies, Crash, HandlerStates
<1>12. ASSUME UNCHANGED flowVars PROVE Typed /\ \A q \in Procs : Good(q)
  BY <1>1, <1>12, <1>a DEF flowVars, indexVars, vars
<1> HIDE DEF Good, Typed
<1> QED
  BY <1>2, <1>4, <1>5, <1>7, <1>9, <1>10, <1>11, <1>12 DEF FlowNext

\* What a step does to the bucket and to the record of what faults left there.
LEMMA BucketStep ==
  ASSUME FlowInv, [FlowNext]_flowVars
  PROVE  /\ bucket' \subseteq Paths /\ strays' \subseteq Paths
         /\ strays \subseteq strays'
         /\ \A o \in bucket' : \/ o \in bucket \/ o \in strays'
                               \/ \E p \in Procs : stored'[p] /\ o = PathOf(doing'[p])
<1> USE DEF FlowInv, FlowTypeOK
<1>1. \A p \in Procs : stored[p] => doing[p] \in Publications /\ PathOf(doing[p]) \in Paths
  BY PathsTyped
<1>2. ASSUME NEW p \in Procs, NEW ok \in BOOLEAN, StoreCrate(p, ok)
      PROVE  /\ bucket' \subseteq Paths /\ strays' \subseteq Paths
             /\ strays \subseteq strays'
             /\ \A o \in bucket' : \/ o \in bucket \/ o \in strays'
                                   \/ stored'[p] /\ o = PathOf(doing'[p])
  <2>1. PathOf(doing[p]) \in Paths
    BY <1>2, Asked, PathsTyped DEF StoreCrate, put_crate, EndStep
  <2> QED
    BY <1>2, <2>1 DEF StoreCrate, put_crate, MayHaveStored
<1>3. ASSUME NEW p \in Procs, bucket' \in MayHaveDeleted(p), stored[p],
             strays' = strays \cup (bucket' \cap {PathOf(doing[p])})
      PROVE  bucket' \subseteq bucket /\ strays' \subseteq Paths
  BY <1>1, <1>3 DEF MayHaveDeleted
<1>4. ASSUME NEW p \in Procs, Disconnect(p)
      PROVE  /\ bucket' \subseteq Paths /\ strays' \subseteq Paths
             /\ strays \subseteq strays'
             /\ \A o \in bucket' : \/ o \in bucket \/ o \in strays'
  <2>1. CASE hpc[p] = "delete"
    <3>1. ~Cancel(p)
      BY <2>1 DEF Cancel
    <3> QED
      BY <1>3, <1>4, <2>1, <3>1 DEF Disconnect, Handlers
  <2>2. CASE hpc[p] # "delete"
    <3>1. /\ IF pc[p] = "end_step" THEN bucket' \in MayHaveStored(p) ELSE UNCHANGED bucket
          /\ strays' = strays \cup (bucket' \ bucket)
                         \cup (IF stored[p] THEN {PathOf(doing[p])} ELSE {})
      BY <1>4, <2>2 DEF Disconnect
    <3>2. pc[p] = "end_step" => PathOf(doing[p]) \in Paths
      BY Asked, PathsTyped
    <3>3. bucket' \subseteq Paths
      BY <3>1, <3>2 DEF MayHaveStored
    <3> QED
      BY <1>1, <3>1, <3>3
  <2> QED
    BY <2>1, <2>2
<1>5. ASSUME NEW p \in Procs, DeleteCrate(p)
      PROVE  bucket' \subseteq bucket /\ strays' \subseteq Paths /\ strays \subseteq strays'
  BY <1>3, <1>5 DEF DeleteCrate, Handlers
<1>6. ASSUME ServerDies
      PROVE  UNCHANGED bucket /\ strays' \subseteq Paths /\ strays \subseteq strays'
  BY <1>1, <1>6 DEF ServerDies
<1>7. CASE UNCHANGED <<bucket, strays>>
  BY <1>7
<1> QED
  BY <1>2, <1>4, <1>5, <1>6, <1>7
     DEF FlowNext, Accept, InIndex, IndexReturns, Pull, flowVars

LEMMA PulledStep ==
  FlowInv /\ TypeOK' /\ [FlowNext]_flowVars => PulledIsListed'
<1> SUFFICES ASSUME FlowInv, TypeOK', [FlowNext]_flowVars, NEW q \in Procs, hpc'[q] = "pull"
             PROVE  doing'[q] \in Listed'
  BY DEF PulledIsListed
<1>1. Listed \subseteq Listed'
  BY ListedGrows DEF FlowInv
<1>2. CASE hpc[q] = "pull" /\ doing'[q] = doing[q]
  BY <1>1, <1>2 DEF FlowInv, PulledIsListed
<1>a. hpc \in [Procs -> HandlerStates] /\ FlowTypeOK
      /\ doing \in [Procs -> Publications \cup Queries \cup Tarballs \cup {NoOp}]
  BY DEF FlowInv, FlowTypeOK
<1>3. ASSUME NEW p \in Procs, IndexReturns(p) PROVE doing'[q] \in Listed'
  <2>1. CASE Finish(p)
    BY <1>2, <2>1, <1>a, FinishDoes
  <2>2. CASE hpc' = [hpc EXCEPT ![p] = "delete"] /\ UNCHANGED <<doing, stored>>
    BY <1>2, <1>a, <2>2
  <2>3. CASE /\ hpc' = [hpc EXCEPT ![p] = "pull"]
             /\ \E t \in Tarballs \cap Listed : doing' = [doing EXCEPT ![p] = t]
    BY <1>1, <1>2, <1>a, <2>3
  <2> QED
    BY <1>3, <2>1, <2>2, <2>3, ReturnLeads
<1>4. ASSUME NEW p \in Procs, Finish(p) PROVE doing'[q] \in Listed'
  BY <1>2, <1>4, <1>a, FinishDoes
<1>5. ASSUME NEW p \in Procs, NEW o \in Ops, Accept(p, o) PROVE doing'[q] \in Listed'
  BY <1>2, <1>5, <1>a DEF Accept
<1>6. CASE UNCHANGED <<hpc, doing>>
  BY <1>2, <1>6
<1>7. CASE ServerDies
  BY <1>7 DEF ServerDies
<1> QED
  BY <1>3, <1>4, <1>5, <1>6, <1>7
     DEF FlowNext, InIndex, StoreCrate, DeleteCrate, Pull, Disconnect, flowVars

LEMMA FlowInvStep == FlowInv /\ [FlowNext]_flowVars => FlowInv'
<1> SUFFICES ASSUME FlowInv, [FlowNext]_flowVars PROVE FlowInv'
  OBVIOUS
<1>1. TypeOK' /\ IInv'
  BY IndexSteps, IInvStep, NoLatePuts DEF FlowInv, IInv, LockInv
<1>2. Answers' /\ Handlers' /\ PulledIsListed' /\ FlowTypeOK'
  BY <1>1, AnswersStep, HandlersStep, PulledStep, BucketStep DEF FlowTypeOK
<1> QED
  BY <1>1, <1>2 DEF FlowInv

\* The files that an older server may have left.
LEMMA OldFiles ==
  ASSUME FlowInit
  PROVE  /\ TypeOK /\ IInv
         /\ \A t \in Listed : OldPathOf(t) \in bucket
         /\ \A o \in bucket : \E t \in Listed : o = OldPathOf(t)
         /\ bucket \subseteq Paths
<1>1. PICK f \in [Keys -> {NoFile} \cup {WithVersion(NoFile, v, c) :
                                           v \in Versions, c \in Cksums}] :
        /\ Start(f)
        /\ bucket = {[crate |-> k, vers |-> f[k].publish, cksum |-> OldPath] :
                       k \in {j \in Keys : f[j] # NoFile}}
  BY DEF FlowInit
<1>2. file = f
  BY <1>1 DEF Start
<1>3. ASSUME NEW k \in Keys
      PROVE  \/ f[k] = NoFile
             \/ \E v \in Versions, c \in Cksums :
                  /\ f[k] = WithVersion(NoFile, v, c) /\ f[k].publish = v
                  /\ DOMAIN f[k].versions = {1}
                  /\ f[k].versions[1].vers = v /\ f[k].versions[1].cksum = c
  <2>1. ASSUME NEW v \in Versions, NEW c \in Cksums
        PROVE  LET g == WithVersion(NoFile, v, c)
               IN /\ DOMAIN g.versions = {1} /\ g.publish = v
                  /\ g.versions[1].vers = v /\ g.versions[1].cksum = c
    <3>1. NoFile \in Contents /\ DOMAIN NoFile.versions = {} /\ Len(NoFile.versions) = 0
      BY NoFileFine DEF NoFile
    <3> DEFINE g == WithVersion(NoFile, v, c)
               n == Len(NoFile.versions)
    <3>2. /\ DOMAIN g.versions = DOMAIN NoFile.versions \cup {n + 1}
          /\ g.versions[n + 1] = [vers |-> v, cksum |-> c, yanked |-> FALSE]
          /\ g.publish = v
      BY <3>1, WithVersionEntries
    <3> HIDE DEF g
    <3> QED
      BY <3>1, <3>2 DEF g
  <2> QED
    BY <1>1, <2>1
<1>4. ASSUME NEW k \in Keys
      PROVE  f[k] \in Contents /\ UniqueIn(f[k]) /\ PublishLineIn(f[k])
  <2>1. CASE f[k] = NoFile
    BY <2>1, NoFileFine
  <2>2. ASSUME NEW v \in Versions, NEW c \in Cksums, f[k] = WithVersion(NoFile, v, c)
        PROVE  f[k] \in Contents /\ UniqueIn(f[k]) /\ PublishLineIn(f[k])
    <3>1. ~Lists(NoFile, v)
      BY DEF Lists, NoFile
    <3> QED
      BY <2>2, <3>1, NoFileFine, WithVersionContents, WithVersionKeeps
  <2> QED
    BY <2>1, <2>2, <1>3
<1>5. TypeOK /\ IInv
  BY <1>1, <1>2, <1>4, NoFileFine
     DEF Start, TypeOK, States, Results, Lock!Init, Lock!TypeOK, IInv, LockInv,
         LocksMatch, Inside, Lock!Exclusion, DataInv, NothingLate, ReadyToWrite,
         SnapshotCurrent, UniqueVersions, PublishLine, AckedStay
<1>6. /\ \A t \in Listed : OldPathOf(t) \in bucket
      /\ \A o \in bucket : \E t \in Listed : o = OldPathOf(t)
      /\ bucket \subseteq Paths
  <2>1. file \in [Keys -> Contents]
    BY <1>5 DEF TypeOK
  <2>2. ASSUME NEW t \in Listed PROVE OldPathOf(t) \in bucket
    <3>1. t \in Tarballs /\ HasEntry(f[t.crate], t)
      BY <1>2, <2>1, ListedEntries DEF Listed
    <3>2. t.crate \in Keys /\ f[t.crate] # NoFile /\ f[t.crate].publish = t.vers
      <4>1. t.crate \in Keys
        BY <3>1 DEF Tarballs
      <4>2. PICK i \in DOMAIN f[t.crate].versions : f[t.crate].versions[i].vers = t.vers
        BY <3>1 DEF HasEntry
      <4>3. f[t.crate] # NoFile
        <5>1. DOMAIN NoFile.versions = {}
          BY DEF NoFile
        <5> QED
          BY <4>2, <5>1
      <4>4. PICK v \in Versions, c \in Cksums :
              /\ f[t.crate].publish = v /\ DOMAIN f[t.crate].versions = {1}
              /\ f[t.crate].versions[1].vers = v
        BY <1>3, <4>1, <4>3
      <4>5. f[t.crate].versions[i].vers = v
        BY <4>2, <4>4
      <4> QED
        BY <4>1, <4>2, <4>3, <4>4, <4>5
    <3> QED
      BY <1>1, <3>2 DEF OldPathOf
  <2>3. ASSUME NEW k \in Keys, f[k] # NoFile
        PROVE  \E t \in Listed :
                 /\ OldPathOf(t) = [crate |-> k, vers |-> f[k].publish, cksum |-> OldPath]
                 /\ OldPathOf(t) \in Paths
    <3>1. PICK v \in Versions, c \in Cksums :
            /\ f[k].publish = v /\ DOMAIN f[k].versions = {1}
            /\ f[k].versions[1].vers = v /\ f[k].versions[1].cksum = c
      BY <1>3, <2>3
    <3> DEFINE t == [crate |-> k, vers |-> v, cksum |-> c]
    <3>2. t \in Tarballs /\ HasEntry(f[t.crate], t)
      <4>1. 1 \in DOMAIN f[k].versions /\ f[k].versions[1].vers = v
            /\ f[k].versions[1].cksum = c
        BY <3>1
      <4>2. t \in Tarballs /\ t.crate = k /\ t.vers = v /\ t.cksum = c
        BY DEF Tarballs
      <4> HIDE DEF t
      <4> QED
        BY <4>1, <4>2 DEF HasEntry
    <3>3. t \in Listed
      BY <1>2, <2>1, <3>2, ListedEntries DEF Listed
    <3>4. OldPathOf(t) \in Paths
      BY <3>2, PathsTyped
    <3> QED
      BY <3>1, <3>3, <3>4 DEF OldPathOf
  <2> QED
    BY <1>1, <2>2, <2>3
<1> QED
  BY <1>5, <1>6

LEMMA FlowInitInv == FlowInit => FlowInv
<1> SUFFICES ASSUME FlowInit PROVE FlowInv
  OBVIOUS
<1>1. /\ pc = [p \in Procs |-> "idle"] /\ hpc = [p \in Procs |-> "idle"]
      /\ doing = [p \in Procs |-> NoOp] /\ stored = [p \in Procs |-> FALSE]
      /\ strays = {}
  BY DEF FlowInit, Start
<1> QED
  BY <1>1, OldFiles DEF FlowInv, FlowTypeOK, HandlerStates, Handlers, Answers, PulledIsListed

LEMMA FlowInductive == FlowSpec => []FlowInv
  BY FlowInitInv, FlowInvStep, PTL DEF FlowSpec

(***************************************************************************)
(* Every variable keeps its type; a handler is in a call of the index       *)
(* exactly while the index serves its request.                              *)
(***************************************************************************)
THEOREM FlowTypeCorrect == FlowSpec => []FlowTypeOK
  BY FlowInductive, PTL DEF FlowInv

LEMMA StraysStep == FlowInv /\ StraysExplained /\ [FlowNext]_flowVars => StraysExplained'
<1> SUFFICES ASSUME FlowInv, StraysExplained, [FlowNext]_flowVars, NEW o \in bucket'
             PROVE  \/ \E t \in Listed' : o \in {PathOf(t), OldPathOf(t)}
                    \/ \E p \in Procs : stored'[p] /\ o = PathOf(doing'[p])
                    \/ o \in strays'
  BY DEF StraysExplained, PathOf, OldPathOf
<1> DEFINE Explained == \/ \E t \in Listed' : o \in {PathOf(t), OldPathOf(t)}
                        \/ \E p \in Procs : stored'[p] /\ o = PathOf(doing'[p])
                        \/ o \in strays'
<1>1. FlowInv' /\ Listed \subseteq Listed' /\ strays \subseteq strays'
  BY FlowInvStep, ListedGrows, BucketStep DEF FlowInv, FlowTypeOK
<1>2. CASE o \notin bucket
  BY <1>2, BucketStep
<1>3. CASE \E t \in Listed : o \in {PathOf(t), OldPathOf(t)}
  BY <1>1, <1>3
<1>4. CASE o \in strays
  BY <1>1, <1>4
<1>5. ASSUME NEW p \in Procs, stored[p], o = PathOf(doing[p])
      PROVE  Explained
  <2>0. /\ stored \in [Procs -> BOOLEAN] /\ FlowTypeOK /\ Handlers
        /\ hpc \in [Procs -> HandlerStates]
        /\ doing \in [Procs -> Publications \cup Queries \cup Tarballs \cup {NoOp}]
    BY DEF FlowInv, FlowTypeOK
  <2>1. CASE stored'[p] /\ doing'[p] = doing[p]
    BY <1>5, <2>1
  <2>2. ASSUME NEW q \in Procs, q # p, Finish(q) PROVE Explained
    BY <2>0, <2>1, <2>2, <1>5, FinishDoes
  <2>3. ASSUME NEW q \in Procs, NEW r \in Ops, Accept(q, r) PROVE Explained
    <3>1. ~stored[q]
      BY <2>0, <2>3, NoOpAssumption DEF Accept, FlowTypeOK, Ops, Writes
    <3> QED
      BY <1>5, <2>0, <2>1, <2>3, <3>1 DEF Accept
  <2>4. ASSUME NEW q \in Procs, NEW ok \in BOOLEAN, StoreCrate(q, ok) PROVE Explained
    <3>1. ~stored[q]
      BY <2>4, Asked DEF StoreCrate, put_crate, EndStep
    <3> QED
      BY <1>5, <2>0, <2>1, <2>4, <3>1 DEF StoreCrate, put_crate
  <2>5. ASSUME IndexReturns(p) PROVE Explained
    <3>1. pc[p] = "done" /\ op[p] = doing[p] /\ op[p] \in Publications
          /\ UNCHANGED file
      BY <1>5, <2>5, Asked, ReturnLeads
    <3>2. CASE res[p] = "Ok"
      <4> DEFINE t == [crate |-> op[p].crate, vers |-> op[p].vers, cksum |-> op[p].cksum]
      <4>1. HasEntry(file[op[p].crate], op[p])
        BY <3>1, <3>2, KindsTyped DEF FlowInv, Answers
      <4>2. t \in Tarballs /\ HasEntry(file[t.crate], t)
        BY <3>1, <4>1, OpsTyped DEF Tarballs, HasEntry
      <4>3. t \in Listed
        BY <4>2, ListedEntries DEF Listed, FlowInv, FlowTypeOK, TypeOK
      <4>4. o = PathOf(t)
        BY <1>5, <3>1 DEF PathOf
      <4> QED
        BY <1>1, <4>3, <4>4
    <3>3. CASE res[p] # "Ok"
      BY <1>5, <2>1, <2>5, <3>3, ReturnLeads
    <3> QED
      BY <3>2, <3>3
  <2>6. ASSUME NEW q \in Procs, q # p, IndexReturns(q) PROVE Explained
    <3>1. CASE Finish(q)
      BY <2>2, <2>6, <3>1
    <3>2. CASE UNCHANGED <<doing, stored>>
      BY <1>5, <2>1, <3>2
    <3>3. CASE UNCHANGED stored /\ \E t \in Tarballs : doing' = [doing EXCEPT ![q] = t]
      BY <1>5, <2>0, <2>1, <2>6, <3>3
    <3> QED
      BY <2>6, <3>1, <3>2, <3>3, ReturnLeads
  <2>7. ASSUME DeleteCrate(p) \/ (hpc[p] = "delete" /\ Disconnect(p)) PROVE Explained
    <3>1. hpc[p] # "index" /\ ~Cancel(p)
      BY <2>0, <2>7 DEF DeleteCrate, Cancel, FlowTypeOK
    <3> QED
      BY <1>5, <2>7, <3>1 DEF DeleteCrate, Disconnect
  <2>8. ASSUME Cancel(p), Disconnect(p), hpc[p] # "delete" PROVE Explained
    BY <1>5, <2>8 DEF Disconnect
  <2>9. ASSUME NEW q \in Procs, DeleteCrate(q) \/ Disconnect(q) PROVE Explained
    BY <2>2, <2>7, <2>8, <2>9 DEF DeleteCrate, Disconnect
  <2>10. ASSUME NEW q \in Procs, Pull(q) PROVE Explained
    BY <1>5, <2>0, <2>2, <2>10 DEF Pull, Handlers
  <2>11. CASE ServerDies
    BY <1>5, <2>11 DEF ServerDies
  <2>12. CASE UNCHANGED <<doing, stored>>
    BY <1>5, <2>1, <2>12
  <2> HIDE DEF Explained
  <2> QED
    BY <2>3, <2>4, <2>5, <2>6, <2>9, <2>10, <2>11, <2>12 DEF FlowNext, InIndex, flowVars
<1> QED
  BY <1>2, <1>3, <1>4, <1>5 DEF StraysExplained

(***************************************************************************)
(* Nothing is in the bucket unaccounted for, in either configuration.       *)
(***************************************************************************)
THEOREM StraysAreExplained == FlowSpec => []StraysExplained
<1>1. FlowInit => StraysExplained
  BY OldFiles DEF StraysExplained
<1> QED
  BY <1>1, FlowInductive, StraysStep, PTL DEF FlowSpec
-----------------------------------------------------------------------------
\* In a directory a put that fails has written nothing.
LEMMA FailedStep ==
  ASSUME ~Remote PROVE FlowInv /\ FailedIsUnlisted /\ [FlowNext]_flowVars => FailedIsUnlisted'
<1> SUFFICES ASSUME FlowInv, FailedIsUnlisted, [FlowNext]_flowVars, NEW p \in Procs,
                    pc'[p] = "done", stored'[p], res'[p] # "Ok"
             PROVE  ~Lists(file'[op'[p].crate], op'[p].vers)
  BY DEF FailedIsUnlisted
<1> USE DEF Goto, Answer
<1>a. /\ pc \in [Procs -> States] /\ res \in [Procs -> Results]
      /\ op \in [Procs -> Ops \cup {NoOp}] /\ stored \in [Procs -> BOOLEAN]
      /\ Handlers /\ FlowTypeOK /\ IInv /\ [Next]_vars
  BY IndexSteps DEF FlowInv, FlowTypeOK, TypeOK
<1>1. CASE pc[p] = "done" /\ stored[p] /\ res[p] # "Ok" /\ op'[p] = op[p]
  BY <1>1, <1>a, Asked, DoneFileKept DEF FailedIsUnlisted
\* Steps that let nobody come to his answer with a stored tarball.
<1>2. CASE pc'[p] = pc[p] /\ stored'[p] = stored[p] /\ res'[p] = res[p] /\ op'[p] = op[p]
  BY <1>1, <1>2
<1>3. ASSUME NEW q \in Procs, NEW o \in Ops, Accept(q, o)
      PROVE  ~Lists(file'[op'[p].crate], op'[p].vers)
  BY <1>2, <1>3, <1>a DEF Accept, Begin
<1>4. ASSUME NEW q \in Procs, InIndex(q)
      PROVE  ~Lists(file'[op'[p].crate], op'[p].vers)
  <2>1. CASE Locked(q)
    BY <1>2, <1>4, <1>a, <2>1 DEF InIndex, Locked
  <2>2. CASE Read(q)
    <3>1. q # p
      BY <1>4, <2>2, Asked DEF InIndex, Read
    <3> QED
      BY <1>2, <1>4, <1>a, <2>2, <3>1, ReadLeads DEF InIndex
  <2>3. CASE ReadFails(q)
    <3>1. q # p
      BY <1>4, <2>3, Asked DEF InIndex, ReadFails
    <3> QED
      BY <1>2, <1>4, <1>a, <2>3, <3>1 DEF InIndex, ReadFails
  <2>4. CASE Put(q)
    BY <1>2, <1>4, <1>a, <2>4 DEF InIndex, Put
  <2>5. ASSUME NEW e \in Effects, PutFails(q, e)
        PROVE  ~Lists(file'[op'[p].crate], op'[p].vers)
    <3>1. UNCHANGED <<file, op>> /\ pc[q] = "put" /\ UNCHANGED stored
      BY <1>4, <2>5 DEF PutFails, MayFailWith, PutEffect, InIndex
    <3>2. CASE q = p
      <4>1. op[p] \in Publications
        BY <3>1, <3>2, Asked
      <4> QED
        BY <1>a, <3>1, <3>2, <4>1 DEF IInv, DataInv, ReadyToWrite, SnapshotCurrent
    <3>3. CASE q # p
      BY <1>2, <1>a, <2>5, <3>1, <3>3 DEF PutFails
    <3> QED
      BY <3>2, <3>3
  <2> QED
    BY <1>4, <2>1, <2>2, <2>3, <2>4, <2>5 DEF InIndex
<1>5. ASSUME NEW q \in Procs, NEW ok \in BOOLEAN, StoreCrate(q, ok)
      PROVE  ~Lists(file'[op'[p].crate], op'[p].vers)
  <2>1. q # p
    BY <1>5, <1>a DEF StoreCrate, put_crate, EndStep
  <2> QED
    BY <1>2, <1>5, <1>a, <2>1 DEF StoreCrate, put_crate, EndStep
<1>6. ASSUME NEW q \in Procs, IndexReturns(q)
      PROVE  ~Lists(file'[op'[p].crate], op'[p].vers)
  <2>1. pc' = [pc EXCEPT ![q] = "idle"] /\ op' = [op EXCEPT ![q] = NoOp]
        /\ res' = [res EXCEPT ![q] = "none"]
    BY <1>6, ReturnLeads DEF Forget
  <2>2. Finish(q) \/ UNCHANGED stored
    BY <1>6, ReturnLeads
  <2>3. \A r \in Procs \ {q} : stored'[r] = stored[r]
    BY <1>a, <2>2 DEF Finish
  <2> QED
    BY <1>2, <1>a, <2>1, <2>3
<1>7. ASSUME NEW q \in Procs, DeleteCrate(q) \/ Pull(q) \/ Disconnect(q)
      PROVE  ~Lists(file'[op'[p].crate], op'[p].vers)
  <2>1. stored' = [stored EXCEPT ![q] = FALSE]
    BY <1>7 DEF DeleteCrate, Pull, Disconnect, Finish
  <2>2. \/ UNCHANGED <<pc, res, op>>
        \/ /\ pc' = [pc EXCEPT ![q] = "idle"] /\ op' = [op EXCEPT ![q] = NoOp]
           /\ res' = [res EXCEPT ![q] = "none"]
    BY <1>7 DEF DeleteCrate, Pull, Disconnect, Cancel, Forget, indexVars, vars
  <2> QED
    BY <1>2, <1>a, <2>1, <2>2
<1>8. ~ServerDies
  BY DEF ServerDies, Crash
<1>9. CASE UNCHANGED flowVars
  BY <1>2, <1>9 DEF flowVars, indexVars, vars
<1> QED
  BY <1>3, <1>4, <1>5, <1>6, <1>7, <1>8, <1>9 DEF FlowNext

LEMMA FailedInductive == ASSUME ~Remote PROVE FlowSpec => []FailedIsUnlisted
<1>1. FlowInit => FailedIsUnlisted
  BY DEF FlowInit, Start, FailedIsUnlisted
<1>2. FlowInv /\ FailedIsUnlisted /\ [FlowNext]_flowVars => FailedIsUnlisted'
  BY FailedStep
<1> QED
  BY <1>1, <1>2, FlowInductive, PTL DEF FlowSpec

(***************************************************************************)
(* With the index in a directory, a handler that deletes a tarball because  *)
(* the index failed deletes one that is not listed.                         *)
(***************************************************************************)
THEOREM FailedAreUnlisted == ASSUME ~Remote PROVE FlowSpec => []FailedIsUnlisted
  BY FailedInductive
-----------------------------------------------------------------------------
\* No two publications under way carry one tarball.
Apart ==
  \A p, q \in Procs :
    p # q /\ hpc[p] \in {"index", "delete"} /\ hpc[q] \in {"index", "delete"}
      => \/ doing[p] \notin Publications \/ doing[q] \notin Publications
         \/ doing[p].cksum # doing[q].cksum

\* A request that stored its tarball finds it there until the index answers.
StoredThere ==
  \A p \in Procs : hpc[p] = "index" /\ stored[p] => PathOf(doing[p]) \in bucket

\* An undo under way: if the version has been published since, then from
\* another tarball, which is there and is not the one to delete.
UndoHarmless ==
  \A p \in Procs : hpc[p] = "delete" =>
    \A t \in Listed : t.crate = doing[p].crate /\ t.vers = doing[p].vers
                        => PathOf(t) \in bucket /\ t.cksum # doing[p].cksum

BucketInv == FailedIsUnlisted /\ Apart /\ StoredThere /\ UndoHarmless /\ ListedIsAvailable

\* Two tarballs share no path but the old one.
LEMMA PathsApart ==
  ASSUME NEW t, t \in Publications \/ t \in Tarballs,
         NEW u, u \in Publications \/ u \in Tarballs
  PROVE  /\ PathOf(t) # OldPathOf(u)
         /\ PathOf(t) = PathOf(u) => t.crate = u.crate /\ t.vers = u.vers /\ t.cksum = u.cksum
         /\ OldPathOf(t) = OldPathOf(u) => t.crate = u.crate /\ t.vers = u.vers
<1>1. t.cksum # OldPath
  BY PathsTyped
<1> QED
  BY <1>1 DEF PathOf, OldPathOf

\* The versions that one put lists: those of before, and the one published.
LEMMA ListedByPut ==
  ASSUME FlowInv, TypeOK', NEW p \in Procs, pc[p] = "put", PutEffect(p, "applied"),
         NEW t \in Listed'
  PROVE  /\ t \in Tarballs /\ op[p] \in Publications
         /\ t \in Listed \/ /\ t.crate = op[p].crate /\ t.vers = op[p].vers
                            /\ t.cksum = op[p].cksum
<1> DEFINE o == op[p]
           k == op[p].crate
           g == NewContents(p)
<1>1. /\ file \in [Keys -> Contents] /\ file' \in [Keys -> Contents]
      /\ o \in Publications /\ k \in Keys /\ seen[p] = file[k] /\ seen[p] \in Contents
      /\ file' = [file EXCEPT ![k] = g]
  BY Asked, OpsTyped
     DEF FlowInv, FlowTypeOK, TypeOK, PutEffect, IInv, DataInv, SnapshotCurrent
<1>2. g = WithVersion(file[k], o.vers, o.cksum) /\ o.vers \in Versions /\ o.cksum \in Cksums
  BY <1>1, OpsTyped DEF NewContents
<1>3. t \in Tarballs /\ HasEntry(file'[t.crate], t)
  BY <1>1, ListedEntries DEF Listed
<1> HIDE DEF g
<1>4. CASE t.crate # k
  BY <1>1, <1>3, <1>4, ListedEntries DEF Listed, Tarballs
<1>5. CASE t.crate = k
  <2> DEFINE n == Len(file[k].versions)
  <2>1. PICK i \in DOMAIN g.versions : g.versions[i].vers = t.vers /\ g.versions[i].cksum = t.cksum
    BY <1>1, <1>3, <1>5 DEF HasEntry
  <2>2. /\ DOMAIN g.versions = DOMAIN file[k].versions \cup {n + 1}
        /\ \A j \in DOMAIN file[k].versions : g.versions[j] = file[k].versions[j]
        /\ g.versions[n + 1] = [vers |-> o.vers, cksum |-> o.cksum, yanked |-> FALSE]
    <3> DEFINE h == WithVersion(file[k], o.vers, o.cksum)
    <3>1. /\ DOMAIN h.versions = DOMAIN file[k].versions \cup {n + 1}
          /\ \A j \in DOMAIN file[k].versions : h.versions[j] = file[k].versions[j]
          /\ h.versions[n + 1] = [vers |-> o.vers, cksum |-> o.cksum, yanked |-> FALSE]
      <4>1. file[k] \in Contents
        BY <1>1
      <4> HIDE DEF o, k
      <4> QED
        BY <1>2, <4>1, WithVersionEntries
    <3> QED
      BY <1>2, <3>1
  <2> HIDE DEF n
  <2>3. CASE i \in DOMAIN file[k].versions
    <3>1. HasEntry(file[t.crate], t)
      BY <1>5, <2>1, <2>2, <2>3 DEF HasEntry
    <3> QED
      BY <1>1, <1>3, <3>1, ListedEntries DEF Listed
  <2>4. CASE i = n + 1
    BY <1>1, <1>3, <1>5, <2>1, <2>2, <2>4
  <2> QED
    BY <2>1, <2>2, <2>3, <2>4
<1> QED
  BY <1>1, <1>3, <1>4, <1>5

LEMMA ApartStep ==
  ASSUME ~SharedTarballs PROVE FlowInv /\ Apart /\ [FlowNext]_flowVars => Apart'
<1> SUFFICES ASSUME FlowInv, Apart, [FlowNext]_flowVars PROVE Apart'
  OBVIOUS
<1>a. /\ FlowTypeOK /\ hpc \in [Procs -> HandlerStates]
      /\ doing \in [Procs -> Publications \cup Queries \cup Tarballs \cup {NoOp}]
  BY DEF FlowInv, FlowTypeOK
<1>1. ASSUME \A q \in Procs : hpc'[q] \in {"index", "delete"} =>
               hpc[q] \in {"index", "delete"} /\ doing'[q] = doing[q]
      PROVE  Apart'
  BY <1>1 DEF Apart
<1>2. ASSUME NEW p \in Procs, Finish(p) PROVE Apart'
  BY <1>1, <1>2, <1>a, FinishDoes
<1>3. ASSUME NEW p \in Procs, NEW o \in Ops, Accept(p, o) PROVE Apart'
  <2>1. hpc' = [hpc EXCEPT ![p] = "index"] /\ doing' = [doing EXCEPT ![p] = o]
    BY <1>3 DEF Accept
  <2>2. CASE o \in Publications
    <3>1. \A q \in Procs \ {p} : doing[q] \in Publications => doing[q].cksum # o.cksum
      BY <1>3, <2>2, KindsTyped DEF Accept, Admissible
    <3> QED
      BY <1>a, <2>1, <3>1 DEF Apart
  <2>3. CASE o \notin Publications
    BY <1>a, <2>1, <2>3 DEF Apart
  <2> QED
    BY <2>2, <2>3
<1>4. ASSUME NEW p \in Procs, IndexReturns(p) PROVE Apart'
  <2>1. hpc[p] = "index"
    BY <1>4 DEF IndexReturns
  <2>2. CASE hpc' = [hpc EXCEPT ![p] = "delete"] /\ UNCHANGED doing
    BY <1>1, <1>a, <2>1, <2>2
  <2>3. CASE /\ hpc' = [hpc EXCEPT ![p] = "pull"]
             /\ \E t \in Tarballs : doing' = [doing EXCEPT ![p] = t]
    BY <1>1, <1>a, <2>3
  <2> QED
    BY <1>2, <1>4, <2>2, <2>3, ReturnLeads
<1>5. CASE ServerDies
  BY <1>5 DEF ServerDies, Apart
<1>6. CASE UNCHANGED <<hpc, doing>>
  BY <1>1, <1>6
<1> QED
  BY <1>2, <1>3, <1>4, <1>5, <1>6
     DEF FlowNext, InIndex, StoreCrate, DeleteCrate, Pull, Disconnect, flowVars

\* The three invariants of the bucket, through each kind of step.
Kept == StoredThere' /\ UndoHarmless' /\ ListedIsAvailable'

LEMMA ListedTyped == TypeOK => Listed \subseteq Tarballs
  BY ListedEntries DEF TypeOK, Listed

\* The index is left alone, and nothing is deleted.
LEMMA QuietKept ==
  ASSUME FlowInv, BucketInv, UNCHANGED file, bucket \subseteq bucket',
         \A q \in Procs :
           /\ hpc'[q] = "index" /\ stored'[q] =>
                \/ hpc[q] = "index" /\ stored[q] /\ doing'[q] = doing[q]
                \/ PathOf(doing'[q]) \in bucket'
           /\ hpc'[q] = "delete" =>
                \/ hpc[q] = "delete" /\ doing'[q] = doing[q]
                \/ \A t \in Listed : t.crate = doing'[q].crate => t.vers # doing'[q].vers
  PROVE  Kept
<1>1. Listed' = Listed
  BY DEF Listed
<1>2. StoredThere'
  BY DEF BucketInv, StoredThere, PathOf
<1>3. UndoHarmless'
  BY <1>1 DEF BucketInv, UndoHarmless, PathOf
<1>4. ListedIsAvailable'
  BY <1>1 DEF BucketInv, ListedIsAvailable, Available, PathOf, OldPathOf
<1> QED
  BY <1>2, <1>3, <1>4 DEF Kept

\* A version becomes listed: its tarball was stored, and is not the one that
\* anybody is about to delete.
LEMMA PutKept ==
  ASSUME FlowInv, BucketInv, TypeOK', NEW p \in Procs, pc[p] = "put",
         PutEffect(p, "applied"), UNCHANGED <<bucket, hpc, doing, stored>>
  PROVE  Kept
<1>1. /\ hpc[p] = "index" /\ doing[p] = op[p] /\ op[p] \in Publications /\ stored[p]
  BY Asked DEF FlowInv, Handlers
<1>2. PathOf(op[p]) \in bucket
  BY <1>1 DEF BucketInv, StoredThere
<1>3. ASSUME NEW t \in Listed' PROVE t \in Listed \/ PathOf(t) = PathOf(op[p])
  BY <1>3, ListedByPut DEF PathOf
<1>4. StoredThere'
  BY DEF BucketInv, StoredThere, PathOf
<1>5. ListedIsAvailable'
  BY <1>2, <1>3 DEF BucketInv, ListedIsAvailable, Available, PathOf, OldPathOf
<1>6. ASSUME NEW q \in Procs, hpc[q] = "delete", NEW t \in Listed',
             t.crate = doing[q].crate, t.vers = doing[q].vers
      PROVE  PathOf(t) \in bucket /\ t.cksum # doing[q].cksum
  <2>1. CASE t \in Listed
    BY <1>6, <2>1 DEF BucketInv, UndoHarmless
  <2>2. CASE t \notin Listed
    <3>1. t.cksum = op[p].cksum /\ PathOf(t) = PathOf(op[p])
      BY <2>2, ListedByPut DEF PathOf
    <3>2. doing[q] \in Publications /\ q # p
      BY <1>1, <1>6 DEF FlowInv, FlowTypeOK, Handlers
    <3>3. doing[q].cksum # doing[p].cksum
      BY <1>1, <1>6, <3>2 DEF BucketInv, Apart
    <3> QED
      BY <1>1, <1>2, <3>1, <3>3
  <2> QED
    BY <2>1, <2>2
<1>7. UndoHarmless'
  BY <1>6 DEF UndoHarmless, PathOf
<1> QED
  BY <1>4, <1>5, <1>7 DEF Kept

\* A tarball is deleted: it is nobody else's.
LEMMA DeleteKept ==
  ASSUME FlowInv, BucketInv, NEW p \in Procs, hpc[p] = "delete",
         bucket' \in MayHaveDeleted(p), Finish(p), UNCHANGED file
  PROVE  Kept
<1>a. /\ doing[p] \in Publications /\ FlowTypeOK
      /\ Listed' = Listed /\ Listed \subseteq Tarballs
  BY ListedTyped DEF FlowInv, FlowTypeOK, Handlers, Listed
<1>b. /\ hpc'[p] = "idle"
      /\ \A q \in Procs \ {p} : hpc'[q] = hpc[q] /\ doing'[q] = doing[q]
                                /\ stored'[q] = stored[q]
  BY <1>a, FinishDoes
<1>c. \A o \in bucket : o \notin {PathOf(doing[p]), OldPathOf(doing[p])} => o \in bucket'
  BY DEF MayHaveDeleted
<1>1. ASSUME NEW t \in Listed, PathOf(t) \in bucket PROVE PathOf(t) \in bucket'
  <2>1. PathOf(t) # OldPathOf(doing[p])
    BY <1>a, PathsApart
  <2>2. PathOf(t) # PathOf(doing[p])
    BY <1>a, PathsApart DEF BucketInv, UndoHarmless
  <2> QED
    BY <1>1, <1>c, <2>1, <2>2
<1>2. ASSUME NEW t \in Listed PROVE PathOf(t) \in bucket' \/ OldPathOf(t) \in bucket'
  <2>1. CASE PathOf(t) \in bucket
    BY <1>1, <2>1
  <2>2. CASE PathOf(t) \notin bucket
    <3>1. OldPathOf(t) \in bucket
      BY <2>2 DEF BucketInv, ListedIsAvailable, Available
    <3>2. OldPathOf(t) # PathOf(doing[p])
      BY <1>a, PathsApart
    <3>3. OldPathOf(t) # OldPathOf(doing[p])
      BY <1>a, <2>2, PathsApart DEF BucketInv, UndoHarmless
    <3> QED
      BY <1>c, <3>1, <3>2, <3>3
  <2> QED
    BY <2>1, <2>2
<1>3. ListedIsAvailable'
  BY <1>a, <1>2 DEF ListedIsAvailable, Available, PathOf, OldPathOf
<1>4. UndoHarmless'
  BY <1>a, <1>b, <1>1 DEF BucketInv, UndoHarmless, PathOf
<1>5. ASSUME NEW q \in Procs, hpc'[q] = "index", stored'[q]
      PROVE  PathOf(doing'[q]) \in bucket'
  <2>1. q # p /\ hpc[q] = "index" /\ stored[q] /\ doing'[q] = doing[q]
    BY <1>5, <1>b
  <2>2. doing[q] \in Publications /\ PathOf(doing[q]) \in bucket
    BY <2>1 DEF FlowInv, FlowTypeOK, BucketInv, StoredThere
  <2>3. doing[q].cksum # doing[p].cksum
    BY <1>a, <2>1, <2>2 DEF BucketInv, Apart
  <2>4. PathOf(doing[q]) # PathOf(doing[p]) /\ PathOf(doing[q]) # OldPathOf(doing[p])
    BY <1>a, <2>2, <2>3, PathsApart
  <2> QED
    BY <1>c, <2>1, <2>2, <2>4
<1>6. StoredThere'
  BY <1>5 DEF StoredThere, PathOf
<1> QED
  BY <1>3, <1>4, <1>6 DEF Kept

LEMMA KeptStep ==
  ASSUME ~Remote, FlowInv, BucketInv, [FlowNext]_flowVars PROVE Kept
<1>a. /\ FlowTypeOK /\ hpc \in [Procs -> HandlerStates] /\ stored \in [Procs -> BOOLEAN]
      /\ doing \in [Procs -> Publications \cup Queries \cup Tarballs \cup {NoOp}]
      /\ TypeOK' /\ Handlers
  BY FlowInvStep DEF FlowInv, FlowTypeOK
<1>1. ASSUME NEW p \in Procs, NEW o \in Ops, Accept(p, o) PROVE Kept
  <2>1. hpc' = [hpc EXCEPT ![p] = "index"] /\ doing' = [doing EXCEPT ![p] = o]
        /\ UNCHANGED <<file, bucket, stored>> /\ hpc[p] = "idle"
    BY <1>1 DEF Accept, Begin
  <2>2. ~stored[p]
    BY <1>a, <2>1, NoOpAssumption DEF FlowTypeOK, Ops, Writes
  <2> QED
    BY <1>a, <2>1, <2>2, QuietKept
<1>2. ASSUME NEW p \in Procs, InIndex(p) PROVE Kept
  <2>1. UNCHANGED <<bucket, hpc, doing, stored>>
    BY <1>2 DEF InIndex
  <2>2. CASE UNCHANGED file
    BY <2>1, <2>2, QuietKept
  <2>3. CASE Put(p)
    BY <1>a, <2>1, <2>3, PutKept DEF Put
  <2>4. ASSUME NEW e \in Effects, PutFails(p, e) PROVE UNCHANGED file
    BY <2>4 DEF PutFails, MayFailWith, PutEffect
  <2> QED
    BY <1>2, <2>2, <2>3, <2>4 DEF InIndex, Locked, Read, ReadFails
<1>3. ASSUME NEW p \in Procs, NEW ok \in BOOLEAN, StoreCrate(p, ok) PROVE Kept
  <2>1. /\ UNCHANGED <<file, hpc, doing>> /\ stored' = [stored EXCEPT ![p] = ok]
        /\ bucket \subseteq bucket'
        /\ ok => PathOf(doing[p]) \in bucket'
    BY <1>3 DEF StoreCrate, put_crate, EndStep, MayHaveStored
  <2> QED
    BY <1>a, <2>1, QuietKept
<1>4. ASSUME NEW p \in Procs, IndexReturns(p) PROVE Kept
  <2>1. UNCHANGED <<file, bucket>> /\ pc[p] = "done"
    BY <1>4, ReturnLeads
  <2>2. CASE Finish(p)
    <3>1. /\ hpc'[p] = "idle"
          /\ \A q \in Procs \ {p} : hpc'[q] = hpc[q] /\ doing'[q] = doing[q]
                                    /\ stored'[q] = stored[q]
      BY <1>a, <2>2, FinishDoes
    <3> QED
      BY <2>1, <3>1, QuietKept
  <2>3. CASE /\ hpc' = [hpc EXCEPT ![p] = "delete"] /\ UNCHANGED <<doing, stored>>
             /\ stored[p] /\ res[p] # "Ok"
    <3>1. ~Lists(file[op[p].crate], op[p].vers) /\ doing[p] = op[p]
      BY <2>1, <2>3, Asked DEF BucketInv, FailedIsUnlisted
    <3>2. ASSUME NEW t \in Listed, t.crate = doing[p].crate PROVE t.vers # doing[p].vers
      <4>1. HasEntry(file[t.crate], t)
        BY ListedEntries DEF Listed, FlowInv, FlowTypeOK, TypeOK
      <4> QED
        BY <3>1, <3>2, <4>1 DEF HasEntry, Lists
    <3> QED
      BY <1>a, <2>1, <2>3, <3>2, QuietKept
  <2>4. CASE /\ hpc' = [hpc EXCEPT ![p] = "pull"] /\ UNCHANGED stored
             /\ \E t \in Tarballs : doing' = [doing EXCEPT ![p] = t]
    BY <1>a, <2>1, <2>4, QuietKept
  <2> QED
    BY <1>4, <2>2, <2>3, <2>4, ReturnLeads
<1>5. ASSUME NEW p \in Procs, DeleteCrate(p) PROVE Kept
  BY <1>5, DeleteKept DEF DeleteCrate, indexVars, vars
<1>6. ASSUME NEW p \in Procs, Pull(p) PROVE Kept
  <2>1. UNCHANGED <<file, bucket>> /\ hpc'[p] = "idle"
        /\ \A q \in Procs \ {p} : hpc'[q] = hpc[q] /\ doing'[q] = doing[q]
                                  /\ stored'[q] = stored[q]
    BY <1>a, <1>6, FinishDoes DEF Pull, indexVars, vars
  <2> QED
    BY <2>1, QuietKept
<1>7. ASSUME NEW p \in Procs, Disconnect(p) PROVE Kept
  <2>1. CASE hpc[p] = "delete" /\ ~Cancel(p)
    BY <1>7, <2>1, DeleteKept DEF Disconnect, indexVars, vars
  <2>2. CASE Cancel(p)
    <3>1. pc[p] # "idle" /\ pc[p] # "put" /\ UNCHANGED file
      BY <2>2 DEF Cancel
    <3>2. hpc[p] = "index"
      BY <3>1, Asked
    <3>3. bucket \subseteq bucket' /\ Finish(p)
      BY <1>7, <3>2 DEF Disconnect, MayHaveStored
    <3>4. hpc'[p] = "idle"
          /\ \A q \in Procs \ {p} : hpc'[q] = hpc[q] /\ doing'[q] = doing[q]
                                    /\ stored'[q] = stored[q]
      BY <1>a, <3>3, FinishDoes
    <3> QED
      BY <3>1, <3>3, <3>4, QuietKept
  <2> QED
    BY <1>7, <2>1, <2>2 DEF Disconnect
<1>8. CASE ServerDies
  BY <1>8, QuietKept DEF ServerDies, Crash
<1>9. CASE UNCHANGED flowVars
  BY <1>9, QuietKept DEF flowVars, indexVars, vars
<1> QED
  BY <1>1, <1>2, <1>3, <1>4, <1>5, <1>6, <1>7, <1>8, <1>9 DEF FlowNext

LEMMA BucketInductive ==
  ASSUME ~Remote, ~SharedTarballs PROVE FlowSpec => []BucketInv
<1>1. FlowInit => BucketInv
  <2> SUFFICES ASSUME FlowInit PROVE BucketInv
    OBVIOUS
  <2>1. /\ pc = [p \in Procs |-> "idle"] /\ hpc = [p \in Procs |-> "idle"]
    BY DEF FlowInit, Start
  <2> QED
    BY <2>1, OldFiles DEF BucketInv, FailedIsUnlisted, Apart, StoredThere, UndoHarmless,
       ListedIsAvailable, Available
<1>2. FlowInv /\ BucketInv /\ [FlowNext]_flowVars => BucketInv'
  BY FailedStep, ApartStep, KeptStep DEF BucketInv, Kept
<1> QED
  BY <1>1, <1>2, FlowInductive, PTL DEF FlowSpec

(***************************************************************************)
(* With the index in a directory and no tarball in two requests at a time,  *)
(* whatever is listed can be downloaded: the delete of one handler, which   *)
(* it makes without the lock, takes no tarball that anybody listed.  A      *)
(* delete that was given up on is served at once or never (MayHaveDeleted). *)
(***************************************************************************)
THEOREM ListedAreAvailable ==
  ASSUME ~Remote, ~SharedTarballs PROVE FlowSpec => []ListedIsAvailable
  BY BucketInductive, PTL DEF BucketInv

(***************************************************************************)
(* ... and what a download found in the index it finds in the bucket, with  *)
(* the same bound on deletes that were given up on.                         *)
(***************************************************************************)
THEOREM ConfirmedAreAvailable ==
  ASSUME ~Remote, ~SharedTarballs PROVE FlowSpec => []ConfirmedIsAvailable
<1>1. FlowInv /\ BucketInv => ConfirmedIsAvailable
  BY DEF FlowInv, BucketInv, PulledIsListed, ListedIsAvailable, ConfirmedIsAvailable
<1> QED
  BY <1>1, FlowInductive, BucketInductive, PTL

(***************************************************************************)
(* With the handlers around it, on the files of an older server too, the    *)
(* index keeps what IndexSafe and FilesOnlyGrow say of it alone.            *)
(***************************************************************************)
THEOREM IndexSafeInHandlers ==
  FlowSpec => /\ [](SnapshotCurrent /\ UniqueVersions /\ PublishLine /\ AckedStay)
              /\ [][\A k \in Keys : Extends(file[k], file'[k])]_flowVars
              /\ [][Atomic!Next]_file
<1>1. FlowInv => SnapshotCurrent /\ UniqueVersions /\ PublishLine /\ AckedStay
  BY DEF FlowInv, IInv, DataInv
<1>2. FlowInv /\ [FlowNext]_flowVars
        => /\ [\A k \in Keys : Extends(file[k], file'[k])]_flowVars
           /\ [Atomic!Next]_file
  BY IndexSteps, FileStep, NoLatePuts DEF FlowInv
<1> QED
  BY <1>1, <1>2, FlowInductive, PTL DEF FlowSpec
=============================================================================
