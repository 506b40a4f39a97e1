---------------------------- MODULE KeyedRwLock ----------------------------
(***************************************************************************)
(* What the index expects of its file locks: one fair reader-writer lock    *)
(* per crate name.  There is no lock table, no reference count and no       *)
(* clean-up here; AccessLocks is shown to implement this specification.     *)
(***************************************************************************)
CONSTANTS Procs,   \* the requests being served concurrently
          Keys     \* the lowercase crate names

VARIABLES want,    \* requests for a lock that wait
          held,    \* requests for a lock that have it
          ahead    \* whom each waiting process queues behind
vars == <<want, held, ahead>>

Modes == {"shared", "exclusive"}

Request == [proc : Procs, key : Keys, mode : Modes]

TypeOK == /\ want \subseteq Request
          /\ held \subseteq Request
          /\ ahead \in [Procs -> SUBSET Procs]

\* Mistake: a writer and a reader are let in together.
Compatible_ReaderWriter(r, s) ==
  r.key = s.key => r.mode = "shared" \/ s.mode = "shared"

\* Two requests may hold at once unless they name one key and one of them writes.
Compatible(r, s) == r.key = s.key => r.mode = "shared" /\ s.mode = "shared"

Init == want = {} /\ held = {} /\ ahead = [p \in Procs |-> {}]

\* A request asks for at most one lock at a time, and joins its queue.
Ask(r) == /\ \A s \in want \cup held : s.proc # r.proc
          /\ want' = want \cup {r}
          /\ ahead' = [ahead EXCEPT ![r.proc] =
                         {s.proc : s \in {w \in want : w.key = r.key}}]
          /\ UNCHANGED held

\* The first in the queue enters once no conflicting request holds.
Enter(r) == /\ r \in want
            /\ ahead[r.proc] = {}
            /\ \A s \in held : Compatible(r, s)
            /\ want' = want \ {r}
            /\ held' = held \cup {r}
            /\ ahead' = [p \in Procs |-> ahead[p] \ {r.proc}]

Leave(r) == /\ r \in held
            /\ held' = held \ {r}
            /\ UNCHANGED <<want, ahead>>

\* The client disconnects and its future is dropped while it waits.
GiveUp(r) == /\ r \in want
             /\ want' = want \ {r}
             /\ ahead' = [p \in Procs |-> IF p = r.proc THEN {}
                                          ELSE ahead[p] \ {r.proc}]
             /\ UNCHANGED held

Next == \E r \in Request : Ask(r) \/ Enter(r) \/ Leave(r) \/ GiveUp(r)

Spec == Init /\ [][Next]_vars

\* Whoever holds a lock gives it back, and whoever can enter does.
Fairness == \A r \in Request : WF_vars(Leave(r)) /\ WF_vars(Enter(r))

FairSpec == Spec /\ Fairness

(***************************************************************************)
(* Two requests that hold the lock of one crate name are both readers.      *)
(***************************************************************************)
Exclusion == \A r, s \in held : r # s => Compatible(r, s)
=============================================================================
