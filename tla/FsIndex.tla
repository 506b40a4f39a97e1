------------------------------ MODULE FsIndex ------------------------------
(***************************************************************************)
(* The index kept as metadata files (freighter-fs-index) in a directory or  *)
(* in an S3 bucket.  Publishing and yanking read the whole file, change it  *)
(* and write it back under the crate's lock; between the two, publish waits *)
(* for its end_step.  The locks are those of KeyedRwLock, which AccessLocks *)
(* implements.  Requests are cancelled when their client disconnects, calls *)
(* to the storage fail, and the server crashes and restarts.                *)
(***************************************************************************)
EXTENDS IndexFile, FiniteSets

CONSTANTS Procs,     \* the requests being served concurrently
          Keys,      \* the lowercase crate names
          Remote,    \* is the configuration index_s3 (TRUE) or index_path?
          MaxLate,   \* bound: abandoned puts of a file that may still land
          NoOp       \* no request

ASSUME RemoteAssumption == Remote \in BOOLEAN
ASSUME MaxLateAssumption == MaxLate \in Nat /\ (~Remote => MaxLate = 0)

VARIABLES file,      \* the metadata files: crate -> contents
          late,      \* crate -> contents of abandoned puts still under way
          pc,        \* where each request is
          op,        \* what it was asked
          seen,      \* the contents it read (its local `versions`)
          res,       \* what it will answer
          want,      \* the lock requests that wait
          held,      \* the lock requests that are held
          ahead,     \* their queues
          acked      \* history: the publications that returned Ok
vars == <<file, late, pc, op, seen, res, want, held, ahead, acked>>

Lock == INSTANCE KeyedRwLock

Publications == [kind : {"publish"}, crate : Keys, vers : Versions, cksum : Cksums]
Yanks == [kind : {"yank"}, crate : Keys, vers : Versions, yanked : BOOLEAN]
Writes == Publications \cup Yanks
Queries == [kind : {"sparse"}, crate : Keys]
             \cup [kind : {"confirm"}, crate : Keys, vers : Versions]
Ops == Writes \cup Queries

ASSUME NoOpAssumption == NoOp \notin Ops

States == {"idle", "lock", "read", "end_step", "put", "done"}
Results == {"none", "Ok", "Conflict", "NotFound", "ServiceError"}

\* Mistake: publish and yank take the lock for reading.
LockOf_Shared(p, o) == [proc |-> p, key |-> o.crate, mode |-> "shared"]

\* The lock operation o of request p asks for.
LockOf(p, o) == [proc |-> p, key |-> o.crate,
                 mode |-> IF o \in Writes THEN "exclusive" ELSE "shared"]

TypeOK == /\ file \in [Keys -> Contents]
          /\ late \in [Keys -> SUBSET Contents]
          /\ pc \in [Procs -> States]
          /\ op \in [Procs -> Ops \cup {NoOp}]
          /\ seen \in [Procs -> Contents]
          /\ res \in [Procs -> Results]
          /\ Lock!TypeOK
          /\ acked \subseteq Publications
          /\ \A p \in Procs :
               /\ op[p] = NoOp <=> pc[p] = "idle"
               /\ pc[p] = "put" => op[p] \in Writes
               /\ pc[p] = "end_step" => op[p] \in Publications

\* The server starts on the files f.
Start(f) == /\ file = f
            /\ late = [k \in Keys |-> {}]
            /\ pc = [p \in Procs |-> "idle"]
            /\ op = [p \in Procs |-> NoOp]
            /\ seen = [p \in Procs |-> NoFile]
            /\ res = [p \in Procs |-> "none"]
            /\ Lock!Init
            /\ acked = {}

Init == Start([k \in Keys |-> NoFile])

Goto(p, s) == pc' = [pc EXCEPT ![p] = s]
Answer(p, r) == Goto(p, "done") /\ res' = [res EXCEPT ![p] = r]

\* access_crate, then exclusive() or shared(): queue for the crate's lock.
Begin(p, o) ==
  /\ pc[p] = "idle"
  /\ op' = [op EXCEPT ![p] = o]
  /\ Goto(p, "lock")
  /\ Lock!Ask(LockOf(p, o))
  /\ UNCHANGED <<file, late, seen, res, acked>>

Locked(p) ==
  /\ pc[p] = "lock"
  /\ Lock!Enter(LockOf(p, op[p]))
  /\ Goto(p, "read")
  /\ UNCHANGED <<file, late, op, seen, res, acked>>

\* Mistake: publish does not look for the version in the file.
AfterRead_NoConflict(o, f) ==
  CASE o.kind = "sparse"  -> IF f = NoFile THEN "NotFound" ELSE "Ok"
    [] o.kind = "confirm" -> IF Lists(f, o.vers) THEN "Ok" ELSE "NotFound"
    [] o.kind = "publish" -> "end_step"
    [] o.kind = "yank"    -> IF Lists(f, o.vers) THEN "put" ELSE "NotFound"

\* Mistake: a yank falls through to the code that publishes.
AfterRead_YankPublishes(o, f) ==
  CASE o.kind = "sparse"  -> IF f = NoFile THEN "NotFound" ELSE "Ok"
    [] o.kind = "confirm" -> IF Lists(f, o.vers) THEN "Ok" ELSE "NotFound"
    [] o.kind = "publish" -> IF Lists(f, o.vers) THEN "Conflict" ELSE "end_step"
    [] o.kind = "yank"    -> IF Lists(f, o.vers) THEN "end_step" ELSE "NotFound"

\* What reading contents f leads to: the next await, or the answer.
AfterRead(o, f) ==
  CASE o.kind = "sparse"  -> IF f = NoFile THEN "NotFound" ELSE "Ok"
    [] o.kind = "confirm" -> IF Lists(f, o.vers) THEN "Ok" ELSE "NotFound"
    [] o.kind = "publish" -> IF Lists(f, o.vers) THEN "Conflict" ELSE "end_step"
    [] o.kind = "yank"    -> IF Lists(f, o.vers) THEN "put" ELSE "NotFound"

\* deserialized(): the file is read and parsed.
Read(p) ==
  /\ pc[p] = "read"
  /\ seen' = [seen EXCEPT ![p] = file[op[p].crate]]
  /\ LET next == AfterRead(op[p], file[op[p].crate])
     IN IF next \in States THEN Goto(p, next) /\ UNCHANGED res
                           ELSE Answer(p, next)
  /\ UNCHANGED <<file, late, op, want, held, ahead, acked>>

ReadFails(p) ==
  /\ pc[p] = "read"
  /\ Answer(p, "ServiceError")
  /\ UNCHANGED <<file, late, op, seen, want, held, ahead, acked>>

\* end_step.await?: the tarball is stored, or publishing ends here.
EndStep(p, ok) ==
  /\ pc[p] = "end_step"
  /\ IF ok THEN Goto(p, "put") /\ UNCHANGED res ELSE Answer(p, "ServiceError")
  /\ UNCHANGED <<file, late, op, seen, want, held, ahead, acked>>

\* The file as request p writes it: what it READ, with its change.
NewContents(p) ==
  LET o == op[p]
  IN IF o.kind = "publish" THEN WithVersion(seen[p], o.vers, o.cksum)
                           ELSE WithYanked(seen[p], o.vers, o.yanked)

Effects == {"applied", "lost", "late"}

\* A directory renames a complete temporary file over the old one.  A bucket
\* may have applied a put whose answer is lost, or may still be applying it.
PutEffect(p, e) ==
  LET k == op[p].crate
  IN \/ /\ e = "applied"
        /\ file' = [file EXCEPT ![k] = NewContents(p)]
        /\ UNCHANGED late
     \/ e = "lost" /\ UNCHANGED <<file, late>>
     \/ /\ e = "late" /\ Cardinality(late[k]) < MaxLate
        /\ late' = [late EXCEPT ![k] = @ \cup {NewContents(p)}]
        /\ UNCHANGED file

\* put_index_file and replace succeed: the answer is Ok.
Put(p) ==
  /\ pc[p] = "put"
  /\ PutEffect(p, "applied")
  /\ Answer(p, "Ok")
  /\ acked' = IF op[p].kind = "publish" THEN acked \cup {op[p]} ELSE acked
  /\ UNCHANGED <<op, seen, want, held, ahead>>

\* Mistake: the file is written in place, and may be written when it fails.
MayFailWith_InPlace(e) == e # "late"

\* A rename that fails leaves the old file.
MayFailWith(e) == Remote \/ e = "lost"

PutFails(p, e) ==
  /\ pc[p] = "put"
  /\ MayFailWith(e)
  /\ PutEffect(p, e)
  /\ Answer(p, "ServiceError")
  /\ UNCHANGED <<op, seen, want, held, ahead, acked>>

\* A put that was given up on reaches the bucket after all.
Land(k) ==
  /\ \E f \in late[k] : /\ file' = [file EXCEPT ![k] = f]
                        /\ late' = [late EXCEPT ![k] = @ \ {f}]
  /\ UNCHANGED <<pc, op, seen, res, want, held, ahead, acked>>

Forget(p) == /\ Goto(p, "idle")
             /\ op' = [op EXCEPT ![p] = NoOp]
             /\ seen' = [seen EXCEPT ![p] = NoFile]
             /\ res' = [res EXCEPT ![p] = "none"]

\* Mistake: a lock that is not released by whoever is done.
Release_Never(p) == UNCHANGED <<want, held, ahead>>

\* The guard and the CrateMetaPath are dropped.
Release(p) == Lock!Leave(LockOf(p, op[p]))

\* The call returns res[p].
Return(p) ==
  /\ pc[p] = "done"
  /\ Release(p)
  /\ Forget(p)
  /\ UNCHANGED <<file, late, acked>>

\* The client disconnects and the future is dropped at an await: at the lock,
\* in end_step and, with a bucket, in its calls.
Cancel(p) ==
  /\ \/ pc[p] = "lock" /\ Lock!GiveUp(LockOf(p, op[p])) /\ UNCHANGED <<file, late>>
     \/ /\ pc[p] = "end_step" \/ (Remote /\ pc[p] = "read")
        /\ Release(p) /\ UNCHANGED <<file, late>>
     \/ /\ Remote /\ pc[p] = "put"
        /\ Release(p) /\ \E e \in Effects : PutEffect(p, e)
  /\ Forget(p)
  /\ UNCHANGED acked

\* The process dies: files and puts under way survive, locks do not.
Crash ==
  /\ pc' = [p \in Procs |-> "idle"]
  /\ op' = [p \in Procs |-> NoOp]
  /\ seen' = [p \in Procs |-> NoFile]
  /\ res' = [p \in Procs |-> "none"]
  /\ want' = {} /\ held' = {} /\ ahead' = [p \in Procs |-> {}]
  /\ UNCHANGED <<file, late, acked>>

\* What a request does of its own accord once it was accepted.
Step(p) == \/ Locked(p) \/ Read(p) \/ ReadFails(p)
           \/ \E ok \in BOOLEAN : EndStep(p, ok)
           \/ Put(p) \/ \E e \in Effects : PutFails(p, e)
           \/ Return(p)

Next == \/ \E p \in Procs : (\E o \in Ops : Begin(p, o)) \/ Step(p) \/ Cancel(p)
        \/ \E k \in Keys : Land(k)
        \/ Crash

Spec == Init /\ [][Next]_vars

\* Calls to the storage return, the executor polls whoever can go on, and the
\* lock serves the first in its queue.  Nobody has to begin, cancel or crash.
Fairness == \A p \in Procs : WF_vars(Step(p))

FairSpec == Spec /\ Fairness
-----------------------------------------------------------------------------
(***************************************************************************)
(* The versions a request read are still those of the file when it comes to *)
(* write them back, however long its end_step took: no update is lost.      *)
(***************************************************************************)
SnapshotCurrent ==
  \A p \in Procs : pc[p] \in {"end_step", "put"} => seen[p] = file[op[p].crate]

(***************************************************************************)
(* A version is listed at most once, so that confirm_existence and yank     *)
(* mean the same entry.                                                     *)
(***************************************************************************)
UniqueVersions == \A k \in Keys : UniqueIn(file[k])

(***************************************************************************)
(* The last line of a file describes its newest version; list and search    *)
(* take the description of the crate from it.                               *)
(***************************************************************************)
PublishLine == \A k \in Keys : PublishLineIn(file[k])

(***************************************************************************)
(* A publication that was acknowledged stays in the index with the checksum *)
(* it was acknowledged for, through later writes, failures and crashes.     *)
(***************************************************************************)
AckedStay ==
  \A a \in acked : \E i \in DOMAIN file[a.crate].versions :
    /\ file[a.crate].versions[i].vers = a.vers
    /\ file[a.crate].versions[i].cksum = a.cksum

(***************************************************************************)
(* No entry disappears, moves or changes its checksum.                      *)
(***************************************************************************)
EntriesImmutable == [][\A k \in Keys : Extends(file[k], file'[k])]_vars

(***************************************************************************)
(* A file is never written while a reader has its lock.                     *)
(***************************************************************************)
ReadersUndisturbed ==
  [][\A r \in held : r.mode = "shared" => file'[r.key] = file[r.key]]_vars

(***************************************************************************)
(* Every request is answered, or was given up on.                           *)
(***************************************************************************)
RequestsEnd == \A p \in Procs : pc[p] # "idle" ~> pc[p] = "idle"

Atomic == INSTANCE AtomicIndex WITH index <- file

(***************************************************************************)
(* The steps of publish and yank, with their awaits, failures, cancelled    *)
(* requests and crashes, amount to atomic operations on the index.          *)
(***************************************************************************)
ImplementsAtomicIndex == Atomic!Spec
=============================================================================
