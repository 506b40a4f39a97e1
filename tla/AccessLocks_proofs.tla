------------------------ MODULE AccessLocks_proofs ------------------------
(***************************************************************************)
(* For any number of requests, names and allocations: the types, mutual     *)
(* exclusion by name, and that the lock table implements KeyedRwLock.       *)
(***************************************************************************)
EXTENDS AccessLocks, TLAPS

\* Whoever has an Arc has the one the table knows under the name.
ArcInTable == \A p \in Procs : arc[p] # NoLock => table[key[p]] = arc[p]

\* No lock is filed under two names.
OneName ==
  \A j, k \in Keys : table[j] = table[k] /\ table[j] # NoLock => j = k

IInv == TypeOK /\ ArcInTable /\ OneName /\ MutualExclusion

(***************************************************************************)
(* Every variable keeps its type, and a request has an Arc and a name       *)
(* exactly while its CrateMetaPath has them.                                *)
(***************************************************************************)
THEOREM TypeCorrect == Spec => []TypeOK
<1>1. Init => TypeOK
  BY NoLockAssumption DEF Init, TypeOK, States, Modes
<1>2. TypeOK /\ [Next]_vars => TypeOK'
  <2> SUFFICES ASSUME TypeOK, [Next]_vars PROVE TypeOK'
    OBVIOUS
  <2> USE NoLockAssumption, NoKeyAssumption DEF TypeOK, States, Modes
  <2>1. ASSUME NEW p \in Procs, NEW k \in Keys, NewPath(p, k) PROVE TypeOK'
    BY <2>1 DEF NewPath, rwlock_for_key
  <2>2. ASSUME NEW p \in Procs, NEW m \in Modes, Ask(p, m) PROVE TypeOK'
    BY <2>2 DEF Ask, Waiters, Users
  <2>3. ASSUME NEW p \in Procs, Grant(p) PROVE TypeOK'
    BY <2>3 DEF Grant
  <2>4. ASSUME NEW p \in Procs, Cancel(p) PROVE TypeOK'
    BY <2>4 DEF Cancel
  <2>5. ASSUME NEW p \in Procs, Unlock(p) PROVE TypeOK'
    BY <2>5 DEF Unlock
  <2>6. ASSUME NEW p \in Procs, TakeArc(p) PROVE TypeOK'
    BY <2>6 DEF TakeArc, WithoutArc
  <2>7. ASSUME NEW p \in Procs, on_unlocked(p) PROVE TypeOK'
    BY <2>7 DEF on_unlocked, Tidied
  <2>8. CASE UNCHANGED vars
    BY <2>8 DEF vars
  <2> QED
    BY <2>1, <2>2, <2>3, <2>4, <2>5, <2>6, <2>7, <2>8 DEF Next
<1> QED
  BY <1>1, <1>2, PTL DEF Spec

\* No step separates an Arc from its table entry: a lookup replaces only an
\* entry without users, and a clean-up removes only such an entry.
LEMMA ArcInTableStep == TypeOK /\ ArcInTable /\ [Next]_vars => ArcInTable'
<1> SUFFICES ASSUME TypeOK, ArcInTable, [Next]_vars PROVE ArcInTable'
  OBVIOUS
<1> USE NoLockAssumption, NoKeyAssumption DEF TypeOK, ArcInTable, States
<1>1. ASSUME NEW p \in Procs, NEW k \in Keys, NewPath(p, k) PROVE ArcInTable'
  <2>1. PICK l \in Locks : /\ rwlock_for_key(k, l)
                           /\ arc' = [arc EXCEPT ![p] = l]
    BY <1>1 DEF NewPath
  <2>2. table'[k] = l
    BY <2>1 DEF rwlock_for_key
  <2>3. \A q \in Procs : arc[q] # NoLock => table'[key[q]] = arc[q]
    BY <2>1 DEF rwlock_for_key, Alive, Users
  <2> QED
    BY <1>1, <2>1, <2>2, <2>3 DEF NewPath
<1>2. ASSUME NEW p \in Procs, on_unlocked(p) PROVE ArcInTable'
  <2>1. \A q \in Procs : arc[q] # NoLock => table'[key[q]] = arc[q]
    BY <1>2 DEF on_unlocked, Tidied, Alive, Users
  <2> QED
    BY <1>2, <2>1 DEF on_unlocked
<1>3. ASSUME NEW p \in Procs, TakeArc(p) PROVE ArcInTable'
  BY <1>3 DEF TakeArc, WithoutArc
<1>4. ASSUME UNCHANGED <<table, key, arc>> PROVE ArcInTable'
  BY <1>4
<1> QED
  BY <1>1, <1>2, <1>3, <1>4 DEF Next, Ask, Grant, Cancel, Unlock, vars

\* A lock is filed when it is allocated, at an address no entry points to.
LEMMA OneNameStep == TypeOK /\ OneName /\ [Next]_vars => OneName'
<1> SUFFICES ASSUME TypeOK, OneName, [Next]_vars PROVE OneName'
  OBVIOUS
<1> USE NoLockAssumption DEF TypeOK, OneName
<1>1. ASSUME NEW p \in Procs, NEW k \in Keys, NewPath(p, k) PROVE OneName'
  BY <1>1 DEF NewPath, rwlock_for_key, Fresh
<1>2. ASSUME NEW p \in Procs, on_unlocked(p) PROVE OneName'
  BY <1>2 DEF on_unlocked, Tidied
<1>3. ASSUME UNCHANGED table PROVE OneName'
  BY <1>3
<1> QED
  BY <1>1, <1>2, <1>3 DEF Next, Ask, Grant, Cancel, Unlock, TakeArc, vars

\* Only Grant admits a holder, and it looks at every holder of the lock that
\* the table has for the name.
LEMMA MutualExclusionStep == IInv /\ [Next]_vars => MutualExclusion'
<1> SUFFICES ASSUME IInv, [Next]_vars PROVE MutualExclusion'
  OBVIOUS
<1> USE DEF IInv, TypeOK, MutualExclusion, States
<1>1. ASSUME NEW p \in Procs, Grant(p) PROVE MutualExclusion'
  <2>1. ASSUME NEW q \in Procs, pc[q] = "holding", key[q] = key[p]
        PROVE  q \in Holders(arc[p])
    BY <1>1, <2>1, NoLockAssumption DEF Grant, Holders, Users, ArcInTable
  <2> QED
    BY <1>1, <2>1 DEF Grant, Admitted
<1>2. ASSUME NEW p \in Procs, NEW k \in Keys, NewPath(p, k)
      PROVE MutualExclusion'
  BY <1>2 DEF NewPath
<1>3. ASSUME NEW p \in Procs, NEW m \in Modes, Ask(p, m) PROVE MutualExclusion'
  BY <1>3 DEF Ask
<1>4. ASSUME NEW p \in Procs, Cancel(p) \/ Unlock(p) \/ TakeArc(p) \/ on_unlocked(p)
      PROVE MutualExclusion'
  BY <1>4 DEF Cancel, Unlock, TakeArc, on_unlocked
<1>5. CASE UNCHANGED vars
  BY <1>5 DEF vars
<1> QED
  BY <1>1, <1>2, <1>3, <1>4, <1>5 DEF Next

THEOREM Inductive == Spec => []IInv
<1>1. Init => ArcInTable /\ OneName /\ MutualExclusion
  BY DEF Init, ArcInTable, OneName, MutualExclusion
<1> QED
  BY <1>1, TypeCorrect, ArcInTableStep, OneNameStep, MutualExclusionStep, PTL
     DEF Spec, IInv

(***************************************************************************)
(* Two requests holding guards for one crate name are both readers.         *)
(***************************************************************************)
THEOREM LocksExclude == Spec => []MutualExclusion
  BY Inductive, PTL DEF IInv

(***************************************************************************)
(* An entry whose lock someone refers to is never removed or replaced.      *)
(***************************************************************************)
THEOREM LiveEntriesKept == Spec => LiveEntryKept
<1>1. TypeOK /\ [Next]_vars
        => [\A k \in Keys : Alive(table[k]) => table'[k] = table[k]]_vars
  BY DEF TypeOK, Next, NewPath, rwlock_for_key, Ask, Grant, Cancel, Unlock,
         TakeArc, on_unlocked, Tidied, vars
<1> QED
  BY <1>1, TypeCorrect, PTL DEF Spec, LiveEntryKept

-----------------------------------------------------------------------------
\* An entry loses its last user in TakeArc, whose request then has the clean-up
\* of that very name before it; a clean-up discharges only its own name.
LEMMA NoLeakedEntryStep ==
  IInv /\ NoLeakedEntry /\ [Next]_vars => NoLeakedEntry'
<1> SUFFICES ASSUME IInv, NoLeakedEntry, [Next]_vars,
                    NEW k \in Keys, table'[k] # NoLock, ~Alive(table[k])'
             PROVE  \E p \in Procs : pc'[p] = "dropped" /\ key'[p] = k
  BY DEF NoLeakedEntry
<1> USE NoLockAssumption, NoKeyAssumption DEF IInv, TypeOK, NoLeakedEntry, States
<1>1. ASSUME NEW p \in Procs, NEW j \in Keys, NewPath(p, j)
      PROVE  \E q \in Procs : pc'[q] = "dropped" /\ key'[q] = k
  <2>1. j # k
    BY <1>1 DEF NewPath, rwlock_for_key, Alive, Users
  <2>2. table'[k] = table[k] /\ ~Alive(table[k])
    BY <1>1, <2>1 DEF NewPath, rwlock_for_key, Alive, Users
  <2> QED
    BY <1>1, <2>2 DEF NewPath
<1>2. ASSUME NEW p \in Procs, TakeArc(p)
      PROVE  \E q \in Procs : pc'[q] = "dropped" /\ key'[q] = k
  <2>1. CASE Alive(table[k])
    <3>1. arc[p] = table[k]
      BY <1>2, <2>1 DEF TakeArc, WithoutArc, Alive, Users
    <3>2. key[p] = k
      BY <1>2, <3>1 DEF TakeArc, ArcInTable, OneName
    <3> QED
      BY <1>2, <3>2 DEF TakeArc
  <2>2. CASE ~Alive(table[k])
    BY <1>2, <2>2 DEF TakeArc
  <2> QED
    BY <2>1, <2>2
<1>3. ASSUME NEW p \in Procs, on_unlocked(p)
      PROVE  \E q \in Procs : pc'[q] = "dropped" /\ key'[q] = k
  <2>1. table'[k] = table[k] /\ ~Alive(table[k])
    BY <1>3 DEF on_unlocked, Tidied, Alive, Users
  <2>2. key[p] # k
    BY <1>3, <2>1 DEF on_unlocked, Tidied
  <2> QED
    BY <1>3, <2>1, <2>2 DEF on_unlocked
<1>4. ASSUME UNCHANGED <<table, arc, key>>,
             \A q \in Procs : pc[q] = "dropped" => pc'[q] = "dropped"
      PROVE  \E q \in Procs : pc'[q] = "dropped" /\ key'[q] = k
  BY <1>4 DEF Alive, Users
<1> QED
  BY <1>1, <1>2, <1>3, <1>4 DEF Next, Ask, Grant, Cancel, Unlock, vars

(***************************************************************************)
(* The table holds no entry without users that nobody will clean up: it is  *)
(* empty whenever no request is using the index.                            *)
(***************************************************************************)
THEOREM TableIsTidied == Spec => []NoLeakedEntry
<1>1. Init => NoLeakedEntry
  BY DEF Init, NoLeakedEntry
<1> QED
  BY <1>1, Inductive, NoLeakedEntryStep, PTL DEF Spec
-----------------------------------------------------------------------------
\* The lock request p makes in the abstract view.
RequestOf(p) == [proc |-> p, key |-> key[p], mode |-> mode[p]]

\* Each step is a step or a stutter of the keyed lock, seen by name.
LEMMA KeyedStep == IInv /\ IInv' /\ [Next]_vars => [Keyed!Next]_Keyed!vars
<1> SUFFICES ASSUME IInv, IInv', [Next]_vars PROVE [Keyed!Next]_Keyed!vars
  OBVIOUS
<1> DEFINE W == RequestsAt("waiting")
           H == RequestsAt("holding")
<1> USE NoKeyAssumption DEF IInv, TypeOK, States
<1>0. \A p \in Procs : pc[p] # "idle" => RequestOf(p) \in Keyed!Request
  BY DEF RequestOf, Keyed!Request, Keyed!Modes, Modes
<1>1. ASSUME NEW p \in Procs, NEW m \in Modes, Ask(p, m) PROVE Keyed!Next
  <2> DEFINE r == [proc |-> p, key |-> key[p], mode |-> m]
  <2>1. r \in Keyed!Request
    BY <1>1 DEF Ask, Keyed!Request, Keyed!Modes, Modes
  <2>2. \A s \in W \cup H : s.proc # p
    BY <1>1 DEF Ask, RequestsAt
  <2>3. H' = H
    BY <1>1 DEF Ask, RequestsAt
  <2>4. W' = W \cup {r}
    BY <1>1 DEF Ask, RequestsAt
  <2>5. Waiters(arc[p]) = {s.proc : s \in {w \in W : w.key = key[p]}}
    <3>1. ASSUME NEW q \in Procs, pc[q] = "waiting"
          PROVE  arc[q] = arc[p] <=> key[q] = key[p]
      BY <1>1, <3>1, NoLockAssumption DEF Ask, ArcInTable, OneName
    <3>2. {s.proc : s \in {w \in W : w.key = key[p]}}
            = {q \in Procs : pc[q] = "waiting" /\ key[q] = key[p]}
      <4>1. W = {RequestOf(q) : q \in {w \in Procs : pc[w] = "waiting"}}
        BY DEF RequestsAt, RequestOf
      <4>2. \A q \in Procs : RequestOf(q).proc = q /\ RequestOf(q).key = key[q]
        BY DEF RequestOf
      <4> HIDE DEF W
      <4>3. \A q : q \in {s.proc : s \in {w \in W : w.key = key[p]}}
                   <=> q \in Procs /\ pc[q] = "waiting" /\ key[q] = key[p]
        BY <4>1, <4>2
      <4> QED
        BY <4>3
    <3>3. {q \in Procs : pc[q] = "waiting" /\ key[q] = key[p]}
            = {q \in Procs : pc[q] = "waiting" /\ arc[q] = arc[p]}
      BY <3>1
    <3>4. Waiters(arc[p]) = {q \in Procs : pc[q] = "waiting" /\ arc[q] = arc[p]}
      BY DEF Waiters, Users
    <3> QED
      BY <3>2, <3>3, <3>4
  <2>6. ahead' = [ahead EXCEPT ![p] = {s.proc : s \in {w \in W : w.key = key[p]}}]
    BY <1>1, <2>5 DEF Ask
  <2>7. r.proc = p /\ r.key = key[p]
    OBVIOUS
  <2>8. Keyed!Ask(r)
    BY <2>2, <2>3, <2>4, <2>6, <2>7 DEF Keyed!Ask
  <2> QED
    BY <2>1, <2>8 DEF Keyed!Next
<1>2. ASSUME NEW p \in Procs, Grant(p) PROVE Keyed!Next
  <2> DEFINE r == RequestOf(p)
  <2>1. r \in Keyed!Request /\ r \in W
    BY <1>0, <1>2 DEF Grant, RequestsAt, RequestOf
  <2>2. H' = H \cup {r}
    BY <1>2 DEF Grant, RequestsAt, RequestOf
  <2>3. W' = W \ {r}
    BY <1>2 DEF Grant, RequestsAt, RequestOf
  <2>4. ASSUME NEW s \in H PROVE Keyed!Compatible(r, s)
    <3>1. PICK q \in Procs : pc[q] = "holding" /\ s = RequestOf(q)
      BY DEF RequestsAt, RequestOf
    <3>2. pc'[q] = "holding" /\ pc'[p] = "holding" /\ q # p
      BY <1>2, <3>1 DEF Grant
    <3>3. key[p] = key[q] => mode[p] = "shared" /\ mode[q] = "shared"
      BY <1>2, <3>2 DEF Grant, MutualExclusion
    <3> QED
      BY <3>1, <3>3 DEF RequestOf, Keyed!Compatible
  <2>5. ahead[p] = {} /\ ahead' = [q \in Procs |-> ahead[q] \ {p}]
    BY <1>2 DEF Grant, FirstInQueue
  <2> QED
    BY <2>1, <2>2, <2>3, <2>4, <2>5 DEF RequestOf, Keyed!Next, Keyed!Enter
<1>3. ASSUME NEW p \in Procs, Cancel(p) PROVE Keyed!Next
  <2>1. RequestOf(p) \in Keyed!Request /\ RequestOf(p) \in W
    BY <1>0, <1>3 DEF Cancel, RequestsAt, RequestOf
  <2>2. H' = H /\ W' = W \ {RequestOf(p)}
    BY <1>3 DEF Cancel, RequestsAt, RequestOf
  <2>3. RequestOf(p).proc = p
    BY DEF RequestOf
  <2>4. Keyed!GiveUp(RequestOf(p))
    BY <1>3, <2>1, <2>2, <2>3 DEF Cancel, Keyed!GiveUp
  <2> QED
    BY <2>1, <2>4 DEF Keyed!Next
<1>4. ASSUME NEW p \in Procs, Unlock(p) PROVE Keyed!Next
  <2>1. RequestOf(p) \in Keyed!Request /\ RequestOf(p) \in H
    BY <1>0, <1>4 DEF Unlock, RequestsAt, RequestOf
  <2>2. W' = W /\ H' = H \ {RequestOf(p)}
    BY <1>4 DEF Unlock, RequestsAt, RequestOf
  <2> QED
    BY <1>4, <2>1, <2>2 DEF Unlock, Keyed!Next, Keyed!Leave
<1>5. ASSUME NEW p \in Procs,
             (\E k \in Keys : NewPath(p, k)) \/ TakeArc(p) \/ on_unlocked(p)
      PROVE  W' = W /\ H' = H /\ ahead' = ahead
  BY <1>5 DEF NewPath, TakeArc, on_unlocked, RequestsAt
<1>6. CASE UNCHANGED vars
  BY <1>6 DEF vars, RequestsAt, Keyed!vars
<1> QED
  BY <1>1, <1>2, <1>3, <1>4, <1>5, <1>6 DEF Next, Keyed!vars

(***************************************************************************)
(* However locks are allocated, shared, dropped and tidied up, the table    *)
(* behaves as one reader-writer lock for each crate name.                   *)
(***************************************************************************)
THEOREM TableIsKeyedLock == Spec => ImplementsKeyedLock
<1>1. Init => Keyed!Init
  BY DEF Init, Keyed!Init, RequestsAt
<1> QED
  BY <1>1, KeyedStep, Inductive, PTL DEF Spec, ImplementsKeyedLock, Keyed!Spec
=============================================================================
