---------------------------- MODULE AccessLocks ----------------------------
(***************************************************************************)
(* The per-crate file locks of the file index (freighter-fs-index,          *)
(* file_locks.rs).  A Mutex<HashMap<name, Weak<RwLock>>> hands out one      *)
(* RwLock per name; the users of a name keep the lock alive by the Arc they *)
(* hold, and whoever is done tidies the table up.  The hazard is in the gap *)
(* of Drop for CrateMetaPath: the Arc is dropped outside the mutex, and     *)
(* another request may look the name up before on_unlocked runs.            *)
(***************************************************************************)
CONSTANTS Procs,    \* the requests being served concurrently
          Keys,     \* the lowercase crate names
          Locks,    \* addresses at which a lock can be allocated
          NoLock,   \* no Arc, or no table entry
          NoKey     \* no CrateMetaPath

ASSUME NoLockAssumption == NoLock \notin Locks
ASSUME NoKeyAssumption == NoKey \notin Keys

VARIABLES table,    \* name -> the lock its Weak points to, or NoLock
          pc,       \* where each request is in the life of its CrateMetaPath
          key,      \* CrateMetaPath.key
          arc,      \* CrateMetaPath.rel_path: the strong Arc, or NoLock
          mode,     \* the kind of guard asked for
          ahead     \* the waiters each waiter queues behind (a FIFO)
vars == <<table, pc, key, arc, mode, ahead>>

Modes == {"shared", "exclusive"}

States == {"idle",      \* no CrateMetaPath
           "pathed",    \* CrateMetaPath::new returned
           "waiting",   \* in write().await or read().await
           "holding",   \* a LockedMetaFile exists
           "unlocked",  \* the guard is gone, the CrateMetaPath not yet
           "dropped"}   \* rel_path taken, on_unlocked not yet run

TypeOK == /\ table \in [Keys -> Locks \cup {NoLock}]
          /\ pc \in [Procs -> States]
          /\ key \in [Procs -> Keys \cup {NoKey}]
          /\ arc \in [Procs -> Locks \cup {NoLock}]
          /\ mode \in [Procs -> Modes]
          /\ ahead \in [Procs -> SUBSET Procs]
          /\ \A p \in Procs : /\ arc[p] = NoLock <=> pc[p] \in {"idle", "dropped"}
                              /\ key[p] = NoKey <=> pc[p] = "idle"

\* The requests that hold a strong reference: strong_count is their number.
Users(l) == {p \in Procs : arc[p] = l}

Holders(l) == {p \in Users(l) : pc[p] = "holding"}

Waiters(l) == {p \in Users(l) : pc[p] = "waiting"}

\* Weak::upgrade finds the lock still alive.
Alive(l) == l # NoLock /\ Users(l) # {}

\* An allocation is reused only when neither an Arc nor a Weak refers to it.
Fresh(l) == Users(l) = {} /\ \A k \in Keys : table[k] # l

Init == /\ table = [k \in Keys |-> NoLock]
        /\ pc = [p \in Procs |-> "idle"]
        /\ key = [p \in Procs |-> NoKey]
        /\ arc = [p \in Procs |-> NoLock]
        /\ mode = [p \in Procs |-> "shared"]
        /\ ahead = [p \in Procs |-> {}]

\* Mistake: forget that the Weak may still be upgraded.
rwlock_for_key_Replacing(k, l) == Fresh(l) /\ table' = [table EXCEPT ![k] = l]

\* Under the mutex: upgrade the entry, or put a new lock in its place.
rwlock_for_key(k, l) ==
  \/ Alive(table[k]) /\ l = table[k] /\ UNCHANGED table
  \/ ~Alive(table[k]) /\ Fresh(l) /\ table' = [table EXCEPT ![k] = l]

NewPath(p, k) ==
  /\ pc[p] = "idle"
  /\ \E l \in Locks : /\ rwlock_for_key(k, l)
                      /\ arc' = [arc EXCEPT ![p] = l]
  /\ pc' = [pc EXCEPT ![p] = "pathed"]
  /\ key' = [key EXCEPT ![p] = k]
  /\ UNCHANGED <<mode, ahead>>

\* exclusive() and shared(): join the queue of the RwLock.
Ask(p, m) ==
  /\ pc[p] = "pathed"
  /\ pc' = [pc EXCEPT ![p] = "waiting"]
  /\ mode' = [mode EXCEPT ![p] = m]
  /\ ahead' = [ahead EXCEPT ![p] = Waiters(arc[p])]
  /\ UNCHANGED <<table, key, arc>>

\* Mistake: readers and writers overtake the queue.
FirstInQueue_Unfair(p) == TRUE

\* tokio's RwLock is fair: only the first in the queue is served.
FirstInQueue(p) == ahead[p] = {}

\* Mistake: a guard of the wrong kind, which only respects writers.
Admitted_ReadGuard(p) == \A q \in Holders(arc[p]) : mode[q] = "shared"

\* A writer needs the lock for itself, a reader shares it with readers.
Admitted(p) ==
  \A q \in Holders(arc[p]) : mode[p] = "shared" /\ mode[q] = "shared"

Grant(p) ==
  /\ pc[p] = "waiting"
  /\ FirstInQueue(p)
  /\ Admitted(p)
  /\ pc' = [pc EXCEPT ![p] = "holding"]
  /\ ahead' = [q \in Procs |-> ahead[q] \ {p}]
  /\ UNCHANGED <<table, key, arc, mode>>

\* The future is dropped while it waits: its place in the queue is given up.
Cancel(p) ==
  /\ pc[p] = "waiting"
  /\ pc' = [pc EXCEPT ![p] = "unlocked"]
  /\ ahead' = [q \in Procs |-> IF q = p THEN {} ELSE ahead[q] \ {p}]
  /\ UNCHANGED <<table, key, arc, mode>>

\* The LockedMetaFile goes first: by return, error, panic or cancellation.
Unlock(p) ==
  /\ pc[p] = "holding"
  /\ pc' = [pc EXCEPT ![p] = "unlocked"]
  /\ UNCHANGED <<table, key, arc, mode, ahead>>

\* Mistake: the Arc outlives the clean-up.
WithoutArc_Kept(p) == arc

WithoutArc(p) == [arc EXCEPT ![p] = NoLock]

\* Drop, first half: rel_path.take(), outside the mutex.
TakeArc(p) ==
  /\ pc[p] = "unlocked"
  /\ pc' = [pc EXCEPT ![p] = "dropped"]
  /\ arc' = WithoutArc(p)
  /\ UNCHANGED <<table, key, mode, ahead>>

\* Mistake: remove the entry without looking at its strong count.
Tidied_Unchecked(k) == [table EXCEPT ![k] = NoLock]

\* Mistake: count the own Arc, so that the entry always looks used.
Tidied_Never(k) == table

\* Under the mutex: the table without the entry, if nobody uses its lock.
Tidied(k) ==
  IF Alive(table[k]) THEN table ELSE [table EXCEPT ![k] = NoLock]

\* Drop, second half.
on_unlocked(p) ==
  /\ pc[p] = "dropped"
  /\ table' = Tidied(key[p])
  /\ pc' = [pc EXCEPT ![p] = "idle"]
  /\ key' = [key EXCEPT ![p] = NoKey]
  /\ mode' = [mode EXCEPT ![p] = "shared"]
  /\ UNCHANGED <<arc, ahead>>

Next == \E p \in Procs : \/ \E k \in Keys : NewPath(p, k)
                         \/ \E m \in Modes : Ask(p, m)
                         \/ Grant(p)
                         \/ Cancel(p)
                         \/ Unlock(p)
                         \/ TakeArc(p)
                         \/ on_unlocked(p)

Spec == Init /\ [][Next]_vars

\* The executor polls a woken task and runs its destructors; an operation on a
\* metadata file ends.  No request is obliged to arrive or to be cancelled.
Fairness == \A p \in Procs : /\ WF_vars(\E m \in Modes : Ask(p, m))
                             /\ WF_vars(Grant(p))
                             /\ WF_vars(Unlock(p))
                             /\ WF_vars(TakeArc(p))
                             /\ WF_vars(on_unlocked(p))

FairSpec == Spec /\ Fairness
-----------------------------------------------------------------------------
(***************************************************************************)
(* Two requests that hold guards for one crate NAME are both readers, even  *)
(* though locks are created, dropped and replaced all the time: never two   *)
(* live locks for one name.                                                 *)
(***************************************************************************)
MutualExclusion ==
  \A p, q \in Procs :
    (p # q /\ pc[p] = "holding" /\ pc[q] = "holding" /\ key[p] = key[q])
      => mode[p] = "shared" /\ mode[q] = "shared"

(***************************************************************************)
(* The table does not grow for ever: an entry nobody uses is one some       *)
(* request is still about to clean up in on_unlocked.                       *)
(***************************************************************************)
NoLeakedEntry ==
  \A k \in Keys :
    (table[k] # NoLock /\ ~Alive(table[k]))
      => \E p \in Procs : pc[p] = "dropped" /\ key[p] = k

(***************************************************************************)
(* Neither a lookup nor a clean-up, of whichever request, ever removes or   *)
(* replaces the entry of a lock that someone still refers to.               *)
(***************************************************************************)
LiveEntryKept ==
  [][\A k \in Keys : Alive(table[k]) => table'[k] = table[k]]_vars

(***************************************************************************)
(* Nobody waits for ever, although readers and writers keep arriving.       *)
(***************************************************************************)
WaiterServed == \A p \in Procs : pc[p] = "waiting" ~> pc[p] # "waiting"
-----------------------------------------------------------------------------
\* The abstract view: who waits and who holds, by name.
RequestsAt(s) == {[proc |-> p, key |-> key[p], mode |-> mode[p]] :
                    p \in {q \in Procs : pc[q] = s}}

Keyed == INSTANCE KeyedRwLock WITH want <- RequestsAt("waiting"),
                                   held <- RequestsAt("holding"),
                                   ahead <- ahead

(***************************************************************************)
(* The lock table behaves as one fair reader-writer lock per crate name.    *)
(***************************************************************************)
ImplementsKeyedLock == Keyed!Spec
ImplementsFairKeyedLock == Keyed!FairSpec
=============================================================================
