---------------------------- MODULE PublishFlow ----------------------------
(***************************************************************************)
(* The publish handler of the server (freighter-server, api.rs) with the    *)
(* index it writes and the bucket its tarballs go to, and the download      *)
(* handler that reads both.  A tarball is stored in the end_step of the     *)
(* index's publish, under the crate's lock; when the index fails after      *)
(* that, the handler deletes the tarball, but the lock is gone by then.     *)
(***************************************************************************)
EXTENDS FsIndex

CONSTANTS SharedTarballs,   \* may requests under way carry the same tarball?
          OldPath           \* the part of a path that older versions left out

ASSUME SharedTarballsAssumption == SharedTarballs \in BOOLEAN
ASSUME OldPathAssumption == OldPath \notin Cksums
\* Puts of a metadata file that land late are left to FsIndex.
ASSUME NoLatePuts == MaxLate = 0

VARIABLES bucket,    \* the objects of the bucket, by path
          hpc,       \* where the handler of each request is
          doing,     \* what the handler was asked, or the tarball to pull
          stored,    \* stored_crate: end_step succeeded
          strays     \* history: objects that a fault may have left behind
indexVars == vars
flowVars == <<indexVars, bucket, hpc, doing, stored, strays>>

Tarballs == [crate : Keys, vers : Versions, cksum : Cksums]
Paths == [crate : Keys, vers : Versions, cksum : Cksums \cup {OldPath}]

ASSUME NoOpIsNoTarball == NoOp \notin Tarballs

\* Mistake: the checksum is not part of the path.
PathOf_NoChecksum(t) == [crate |-> t.crate, vers |-> t.vers, cksum |-> OldPath]

\* construct_paths: where tarball t is stored, and where it used to be.
PathOf(t) == [crate |-> t.crate, vers |-> t.vers, cksum |-> t.cksum]
OldPathOf(t) == [crate |-> t.crate, vers |-> t.vers, cksum |-> OldPath]

\* pull_crate: an object at the new path, or else at the old one.
Available(t) == PathOf(t) \in bucket \/ OldPathOf(t) \in bucket

HandlerStates == {"idle",     \* no request
                  "index",    \* in a call of the index
                  "delete",   \* in delete_crate
                  "pull"}     \* in pull_crate

FlowTypeOK == /\ TypeOK
              /\ bucket \subseteq Paths
              /\ strays \subseteq Paths
              /\ hpc \in [Procs -> HandlerStates]
              /\ doing \in [Procs -> Publications \cup Queries \cup Tarballs \cup {NoOp}]
              /\ stored \in [Procs -> BOOLEAN]
              /\ \A p \in Procs : /\ pc[p] # "idle" <=> hpc[p] = "index"
                                  /\ doing[p] = NoOp <=> hpc[p] = "idle"
                                  /\ stored[p] => doing[p] \in Publications

\* A crate may have a version that an older server stored at the old path.
FlowInit ==
  /\ \E f \in [Keys -> {NoFile} \cup {WithVersion(NoFile, v, c) :
                                        v \in Versions, c \in Cksums}] :
       /\ Start(f)
       /\ bucket = {[crate |-> k, vers |-> f[k].publish, cksum |-> OldPath] :
                      k \in {j \in Keys : f[j] # NoFile}}
  /\ hpc = [p \in Procs |-> "idle"]
  /\ doing = [p \in Procs |-> NoOp]
  /\ stored = [p \in Procs |-> FALSE]
  /\ strays = {}

\* Mistake: the flag outlives the request it belongs to.
Finish_KeepsFlag(p) == /\ hpc' = [hpc EXCEPT ![p] = "idle"]
                       /\ doing' = [doing EXCEPT ![p] = NoOp]
                       /\ UNCHANGED stored

Finish(p) == /\ hpc' = [hpc EXCEPT ![p] = "idle"]
             /\ doing' = [doing EXCEPT ![p] = NoOp]
             /\ stored' = [stored EXCEPT ![p] = FALSE]

\* Bound on the environment: no two requests carry one tarball at a time.
Admissible(p, o) ==
  (~SharedTarballs /\ o.kind = "publish")
    => \A q \in Procs \ {p} :
         doing[q] \in Publications => doing[q].cksum # o.cksum

\* The request was authorised; the handler calls the index.
Accept(p, o) ==
  /\ hpc[p] = "idle"
  /\ o.kind \in {"publish", "confirm"}
  /\ Admissible(p, o)
  /\ Begin(p, o)
  /\ hpc' = [hpc EXCEPT ![p] = "index"]
  /\ doing' = [doing EXCEPT ![p] = o]
  /\ UNCHANGED <<bucket, stored, strays>>

\* Steps of the index that are none of the handler's business.
InIndex(p) ==
  /\ \/ Locked(p) \/ Read(p) \/ ReadFails(p) \/ Put(p)
     \/ \E e \in Effects : PutFails(p, e)
  /\ UNCHANGED <<bucket, hpc, doing, stored, strays>>

\* Requests to S3 that fail, or are given up on, may have been served or not.
\* Bound on the environment: those that were are served by the time the handler
\* ends.  A delete served only after a retry of the same tarball was listed would
\* take it, like the one that SharedTarballs lets run beside the retry.
MayHaveStored(p) == {bucket, bucket \cup {PathOf(doing[p])}}
MayHaveDeleted(p) == {bucket \ gone : gone \in SUBSET {PathOf(doing[p]), OldPathOf(doing[p])}}

\* end_step: put_crate succeeds, or fails whether or not it stored the object.
put_crate(p, ok) ==
  /\ EndStep(p, ok)
  /\ IF ok THEN bucket' = bucket \cup {PathOf(doing[p])}
           ELSE bucket' \in MayHaveStored(p)
  /\ stored' = [stored EXCEPT ![p] = ok]

StoreCrate(p, ok) == /\ put_crate(p, ok)
                     /\ strays' = IF ok THEN strays ELSE strays \cup (bucket' \ bucket)
                     /\ UNCHANGED <<hpc, doing>>

\* Mistake: the tarball is deleted after every error.
Undo_Always(p) == TRUE

\* Mistake: nothing is deleted.
Undo_Never(p) == FALSE

\* if stored_crate: only what this request stored is deleted.
Undo(p) == stored[p]

\* The index answers, and its lock is released.
IndexReturns(p) ==
  /\ hpc[p] = "index"
  /\ Return(p)
  /\ UNCHANGED <<bucket, strays>>
  /\ IF doing[p].kind = "publish"
     THEN IF res[p] # "Ok" /\ Undo(p)
          THEN hpc' = [hpc EXCEPT ![p] = "delete"] /\ UNCHANGED <<doing, stored>>
          ELSE Finish(p)
     ELSE IF res[p] = "Ok"
          THEN /\ hpc' = [hpc EXCEPT ![p] = "pull"]
               /\ doing' = [doing EXCEPT ![p] =
                    [crate |-> @.crate, vers |-> @.vers,
                     cksum |-> seen[p].versions[Rfind(seen[p], @.vers)].cksum]]
               /\ UNCHANGED stored
          ELSE Finish(p)

\* delete_crate: both paths at once, either of which may fail.
DeleteCrate(p) ==
  /\ hpc[p] = "delete"
  /\ bucket' \in MayHaveDeleted(p)
  /\ strays' = strays \cup (bucket' \cap {PathOf(doing[p])})
  /\ Finish(p)
  /\ UNCHANGED indexVars

\* pull_crate answers with the tarball or an error.
Pull(p) ==
  /\ hpc[p] = "pull"
  /\ Finish(p)
  /\ UNCHANGED <<indexVars, bucket, strays>>

\* The client disconnects: also in put_crate and delete_crate, which may have
\* taken effect by then.
Disconnect(p) ==
  \/ /\ Cancel(p)
     /\ IF pc[p] = "end_step" THEN bucket' \in MayHaveStored(p) ELSE UNCHANGED bucket
     /\ strays' = strays \cup (bucket' \ bucket) \cup (IF stored[p] THEN {PathOf(doing[p])} ELSE {})
     /\ Finish(p)
  \/ /\ hpc[p] = "delete"
     /\ bucket' \in MayHaveDeleted(p)
     /\ strays' = strays \cup (bucket' \cap {PathOf(doing[p])})
     /\ Finish(p)
     /\ UNCHANGED indexVars

\* The process dies and starts again: index and bucket are what they were.
ServerDies == /\ Crash
              /\ hpc' = [p \in Procs |-> "idle"]
              /\ doing' = [p \in Procs |-> NoOp]
              /\ stored' = [p \in Procs |-> FALSE]
              /\ strays' = strays \cup {PathOf(doing[p]) : p \in {q \in Procs : stored[q]}}
              /\ UNCHANGED bucket

FlowNext == \/ \E p \in Procs : \/ \E o \in Ops : Accept(p, o)
                                \/ InIndex(p)
                                \/ \E ok \in BOOLEAN : StoreCrate(p, ok)
                                \/ IndexReturns(p) \/ DeleteCrate(p) \/ Pull(p)
                                \/ Disconnect(p)
            \/ ServerDies

FlowSpec == FlowInit /\ [][FlowNext]_flowVars
-----------------------------------------------------------------------------
\* The versions the index lists, each with the tarball it promises.
Listed == UNION {{[crate |-> k, vers |-> file[k].versions[i].vers,
                   cksum |-> file[k].versions[i].cksum] :
                     i \in DOMAIN file[k].versions} : k \in Keys}

(***************************************************************************)
(* Whatever the index lists can be downloaded: no undo of one request takes *)
(* the tarball that another one, or an earlier server, listed.              *)
(***************************************************************************)
ListedIsAvailable == \A t \in Listed : Available(t)

(***************************************************************************)
(* A download that found its version in the index finds its tarball in the  *)
(* bucket, whatever happened in between.                                    *)
(***************************************************************************)
ConfirmedIsAvailable ==
  \A p \in Procs : hpc[p] = "pull" => Available(doing[p])

(***************************************************************************)
(* When the index fails after the tarball was stored, the version is not    *)
(* listed: the handler is right to delete the tarball.                      *)
(***************************************************************************)
FailedIsUnlisted ==
  \A p \in Procs : pc[p] = "done" /\ stored[p] /\ res[p] # "Ok"
                     => ~Lists(file[op[p].crate], op[p].vers)

(***************************************************************************)
(* Whatever is in the bucket is listed, or belongs to a publication that is *)
(* under way or about to be undone, or a fault left it there: a request     *)
(* that was dropped, a crash, a put or a delete that failed.                *)
(***************************************************************************)
StraysExplained ==
  \A o \in bucket : \/ \E t \in Listed : o \in {PathOf(t), OldPathOf(t)}
                    \/ \E p \in Procs : stored[p] /\ o = PathOf(doing[p])
                    \/ o \in strays
=============================================================================
