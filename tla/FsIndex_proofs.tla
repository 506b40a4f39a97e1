-------------------------- MODULE FsIndex_proofs --------------------------
(***************************************************************************)
(* For any number of requests, crates, versions and checksums: the types,   *)
(* the lock discipline, and, when no abandoned put may land late, that the  *)
(* metadata files implement an atomic index.                                *)
(***************************************************************************)
EXTENDS FsIndex, IndexFile_proofs, FiniteSetTheorems

LEMMA OpsTyped ==
  /\ \A o \in Ops : o.crate \in Keys
  /\ \A o \in Publications : /\ o.kind = "publish" /\ o \in Ops /\ o \in Writes
                             /\ o.vers \in Versions /\ o.cksum \in Cksums
  /\ \A o \in Yanks : /\ o.kind = "yank" /\ o \in Ops /\ o \in Writes
                      /\ o.vers \in Versions /\ o.yanked \in BOOLEAN
  BY DEF Ops, Writes, Publications, Yanks, Queries

LEMMA LockOfTyped ==
  ASSUME NEW p \in Procs, NEW o \in Ops
  PROVE  LockOf(p, o) \in Lock!Request /\ LockOf(p, o).proc = p
         /\ LockOf(p, o).key = o.crate
         /\ (o \in Writes <=> LockOf(p, o).mode = "exclusive")
  BY OpsTyped DEF LockOf, Lock!Request, Lock!Modes

\* What a read leads to fits what was asked.
LEMMA AfterReadTyped ==
  ASSUME NEW o \in Ops, NEW f
  PROVE  /\ AfterRead(o, f) \in {"end_step", "put"} \cup Results
         /\ AfterRead(o, f) = "end_step" => o \in Publications
         /\ AfterRead(o, f) = "put" => o \in Yanks
  BY DEF AfterRead, Ops, Writes, Publications, Yanks, Queries, Results

LEMMA NewContentsTyped ==
  ASSUME TypeOK, NEW p \in Procs, pc[p] = "put"
  PROVE  NewContents(p) \in Contents /\ op[p] \in Writes /\ op[p].crate \in Keys
<1>1. op[p] \in Writes /\ seen[p] \in Contents
  BY DEF TypeOK
<1>2. CASE op[p] \in Publications
  BY <1>1, <1>2, OpsTyped, WithVersionContents DEF NewContents
<1>3. CASE op[p] \in Yanks
  BY <1>1, <1>3, OpsTyped, WithYankedContents DEF NewContents
<1> QED
  BY <1>1, <1>2, <1>3, OpsTyped DEF Writes, Ops

LEMMA PutEffectTyped ==
  ASSUME TypeOK, NEW p \in Procs, pc[p] = "put", NEW e, PutEffect(p, e)
  PROVE  file' \in [Keys -> Contents] /\ late' \in [Keys -> SUBSET Contents]
<1>1. NewContents(p) \in Contents /\ op[p].crate \in Keys
  BY NewContentsTyped
<1> HIDE DEF NewContents
<1> QED
  BY <1>1 DEF PutEffect, TypeOK

\* The steps of the lock keep the types of its requests.
LEMMA LockTyped ==
  ASSUME Lock!TypeOK, NEW r \in Lock!Request,
         Lock!Ask(r) \/ Lock!Enter(r) \/ Lock!Leave(r) \/ Lock!GiveUp(r)
  PROVE  Lock!TypeOK'
<1> USE DEF Lock!TypeOK
<1>1. r.proc \in Procs /\ \A s \in Lock!Request : s.proc \in Procs
  BY DEF Lock!Request
<1>2. CASE Lock!Ask(r)
  BY <1>1, <1>2 DEF Lock!Ask
<1>3. CASE Lock!Enter(r)
  BY <1>3 DEF Lock!Enter
<1>4. CASE Lock!Leave(r)
  BY <1>4 DEF Lock!Leave
<1>5. CASE Lock!GiveUp(r)
  BY <1>5 DEF Lock!GiveUp
<1> QED
  BY <1>2, <1>3, <1>4, <1>5

LEMMA TypeStep == TypeOK /\ [Next]_vars => TypeOK'
<1> SUFFICES ASSUME TypeOK, [Next]_vars PROVE TypeOK'
  OBVIOUS
<1> USE NoOpAssumption DEF TypeOK, States, Results, Goto, Answer
<1>1. ASSUME NEW p \in Procs, NEW o \in Ops, Begin(p, o) PROVE TypeOK'
  <2>1. Lock!TypeOK'
    BY <1>1, LockOfTyped, LockTyped DEF Begin
  <2> QED
    BY <1>1, <2>1 DEF Begin
<1>2. ASSUME NEW p \in Procs, Locked(p) PROVE TypeOK'
  <2>1. Lock!TypeOK'
    BY <1>2, LockOfTyped, LockTyped DEF Locked
  <2> QED
    BY <1>2, <2>1 DEF Locked
<1>3. ASSUME NEW p \in Procs, Read(p) PROVE TypeOK'
  <2> DEFINE f == file[op[p].crate]
             n == AfterRead(op[p], f)
  <2>1. op[p] \in Ops /\ f \in Contents
    BY <1>3, OpsTyped DEF Read
  <2>2. /\ n \in {"end_step", "put"} \cup Results
        /\ n = "end_step" => op[p] \in Publications
        /\ n = "put" => op[p] \in Writes
    BY <2>1, AfterReadTyped DEF Writes
  <2> HIDE DEF n
  <2>3. Lock!TypeOK'
    BY <1>3 DEF Read, Lock!TypeOK
  <2>4. CASE n \in States
    BY <1>3, <2>1, <2>2, <2>3, <2>4 DEF Read, n
  <2>5. CASE n \notin States
    BY <1>3, <2>1, <2>2, <2>3, <2>5 DEF Read, n
  <2> QED
    BY <2>4, <2>5
<1>4. ASSUME NEW p \in Procs, ReadFails(p) PROVE TypeOK'
  BY <1>4 DEF ReadFails, Lock!TypeOK
<1>5. ASSUME NEW p \in Procs, NEW ok \in BOOLEAN, EndStep(p, ok) PROVE TypeOK'
  BY <1>5 DEF EndStep, Lock!TypeOK, Writes
<1>6. ASSUME NEW p \in Procs, Put(p) PROVE TypeOK'
  <2>1. file' \in [Keys -> Contents] /\ late' \in [Keys -> SUBSET Contents]
    BY <1>6, PutEffectTyped DEF Put
  <2>2. acked' \subseteq Publications
    BY <1>6, OpsTyped DEF Put, Writes, Yanks
  <2> QED
    BY <1>6, <2>1, <2>2 DEF Put, Lock!TypeOK
<1>7. ASSUME NEW p \in Procs, NEW e \in Effects, PutFails(p, e) PROVE TypeOK'
  <2>1. file' \in [Keys -> Contents] /\ late' \in [Keys -> SUBSET Contents]
    BY <1>7, PutEffectTyped DEF PutFails
  <2> QED
    BY <1>7, <2>1 DEF PutFails, Lock!TypeOK
<1>8. ASSUME NEW p \in Procs, Return(p) PROVE TypeOK'
  <2>1. Lock!TypeOK'
    BY <1>8, LockOfTyped, LockTyped DEF Return, Release
  <2> QED
    BY <1>8, <2>1, NoFileFine DEF Return, Forget
<1>9. ASSUME NEW p \in Procs, Cancel(p) PROVE TypeOK'
  <2>1. op[p] \in Ops
    BY <1>9 DEF Cancel
  <2>2. Lock!TypeOK'
    BY <1>9, <2>1, LockOfTyped, LockTyped DEF Cancel, Release
  <2>3. file' \in [Keys -> Contents] /\ late' \in [Keys -> SUBSET Contents]
    BY <1>9, PutEffectTyped DEF Cancel
  <2> QED
    BY <1>9, <2>2, <2>3, NoFileFine DEF Cancel, Forget
<1>10. ASSUME NEW k \in Keys, Land(k) PROVE TypeOK'
  BY <1>10 DEF Land, Lock!TypeOK
<1>11. CASE Crash
  BY <1>11, NoFileFine DEF Crash, Lock!TypeOK
<1>12. CASE UNCHANGED vars
  BY <1>12 DEF vars, Lock!TypeOK
<1> QED
  BY <1>1, <1>2, <1>3, <1>4, <1>5, <1>6, <1>7, <1>8, <1>9, <1>10, <1>11, <1>12
     DEF Next, Step

(***************************************************************************)
(* Every variable keeps its type, and a request at end_step or before a put *)
(* is one that publishes or writes.                                         *)
(***************************************************************************)
THEOREM TypeCorrect == Spec => []TypeOK
<1>1. Init => TypeOK
  BY NoFileFine DEF Init, Start, TypeOK, States, Results, Lock!Init, Lock!TypeOK
<1> QED
  BY <1>1, TypeStep, PTL DEF Spec
-----------------------------------------------------------------------------
\* The places from which a request holds its crate's lock.
Inside == {"read", "end_step", "put", "done"}

\* The program counter of a request tells which lock it has or waits for.
LocksMatch ==
  \A p \in Procs :
    /\ pc[p] = "lock" => LockOf(p, op[p]) \in want
    /\ pc[p] \in Inside => LockOf(p, op[p]) \in held

LockInv == TypeOK /\ LocksMatch /\ Lock!Exclusion

\* Letting a request in keeps the lock exclusive, as do the other steps.
LEMMA LockExclusionStep ==
  ASSUME Lock!Exclusion, NEW r,
         Lock!Ask(r) \/ Lock!Enter(r) \/ Lock!Leave(r) \/ Lock!GiveUp(r)
  PROVE  Lock!Exclusion'
  BY DEF Lock!Exclusion, Lock!Ask, Lock!Enter, Lock!Leave, Lock!GiveUp,
         Lock!Compatible

LEMMA LockInvStep == LockInv /\ [Next]_vars => LocksMatch' /\ Lock!Exclusion'
<1> SUFFICES ASSUME LockInv, [Next]_vars PROVE LocksMatch' /\ Lock!Exclusion'
  OBVIOUS
<1> USE DEF LockInv, LocksMatch, Inside, Goto, Answer
<1>0. \A p, q \in Procs : p # q /\ op[p] \in Ops /\ op[q] \in Ops
                            => LockOf(p, op[p]) # LockOf(q, op[q])
  BY DEF LockOf
<1>1. ASSUME NEW p \in Procs, NEW o \in Ops, Begin(p, o)
      PROVE LocksMatch' /\ Lock!Exclusion'
  BY <1>1, LockExclusionStep DEF Begin, Lock!Ask, TypeOK
<1>2. ASSUME NEW p \in Procs, Locked(p) PROVE LocksMatch' /\ Lock!Exclusion'
  <2>1. Lock!Exclusion'
    BY <1>2, LockExclusionStep DEF Locked
  <2>2. LocksMatch'
    BY <1>2, <1>0 DEF Locked, Lock!Enter, TypeOK, States
  <2> QED
    BY <2>1, <2>2
<1>3. ASSUME NEW p \in Procs, UNCHANGED <<op, want, held>>, pc[p] \in Inside,
             \E s \in Inside : pc' = [pc EXCEPT ![p] = s]
      PROVE  LocksMatch' /\ Lock!Exclusion'
  BY <1>3 DEF TypeOK, Lock!Exclusion
<1>4. ASSUME NEW p \in Procs, NEW next, Read(p), next = AfterRead(op[p], file[op[p].crate])
      PROVE  \E s \in Inside : pc' = [pc EXCEPT ![p] = s]
  <2>1. next \in {"end_step", "put"} \cup Results
    BY <1>4, AfterReadTyped, NoOpAssumption DEF Read, TypeOK
  <2> QED
    BY <1>4, <2>1 DEF Read, Results, States
<1>5. ASSUME NEW p \in Procs, Release(p), Forget(p), pc[p] \in Inside
      PROVE  LocksMatch' /\ Lock!Exclusion'
  <2>1. Lock!Exclusion'
    BY <1>5, LockExclusionStep DEF Release
  <2>2. LocksMatch'
    BY <1>5, <1>0 DEF Release, Forget, Lock!Leave, TypeOK, States
  <2> QED
    BY <2>1, <2>2
<1>6. ASSUME NEW p \in Procs, pc[p] = "lock", Forget(p), Lock!GiveUp(LockOf(p, op[p]))
      PROVE  LocksMatch' /\ Lock!Exclusion'
  <2>1. Lock!Exclusion'
    BY <1>6, LockExclusionStep
  <2>2. LocksMatch'
    BY <1>6, <1>0 DEF Forget, Lock!GiveUp, TypeOK, States
  <2> QED
    BY <2>1, <2>2
<1>7. CASE Crash
  BY <1>7 DEF Crash, Lock!Exclusion
<1>8. ASSUME UNCHANGED <<pc, op, want, held>> PROVE LocksMatch' /\ Lock!Exclusion'
  BY <1>8 DEF Lock!Exclusion
<1>9. ASSUME NEW p \in Procs, Step(p) PROVE LocksMatch' /\ Lock!Exclusion'
  <2>1. CASE Read(p)
    BY <1>3, <1>4, <2>1 DEF Read
  <2>2. CASE ReadFails(p)
    BY <1>3, <2>2 DEF ReadFails
  <2>3. ASSUME NEW ok \in BOOLEAN, EndStep(p, ok) PROVE LocksMatch' /\ Lock!Exclusion'
    BY <1>3, <2>3 DEF EndStep
  <2>4. CASE Put(p)
    BY <1>3, <2>4 DEF Put
  <2>5. ASSUME NEW e \in Effects, PutFails(p, e) PROVE LocksMatch' /\ Lock!Exclusion'
    BY <1>3, <2>5 DEF PutFails
  <2>6. CASE Return(p)
    BY <1>5, <2>6 DEF Return
  <2> QED
    BY <1>9, <1>2, <2>1, <2>2, <2>3, <2>4, <2>5, <2>6 DEF Step
<1>10. ASSUME NEW p \in Procs, Cancel(p) PROVE LocksMatch' /\ Lock!Exclusion'
  BY <1>5, <1>6, <1>10 DEF Cancel
<1>11. ASSUME NEW k \in Keys, Land(k) PROVE LocksMatch' /\ Lock!Exclusion'
  BY <1>8, <1>11 DEF Land
<1> QED
  BY <1>1, <1>7, <1>8, <1>9, <1>10, <1>11 DEF Next, vars

(***************************************************************************)
(* A request is in the body of an operation only while it has the lock that *)
(* the operation asked for, and a writer has it alone.                      *)
(***************************************************************************)
THEOREM LockDiscipline == Spec => []LockInv
<1>1. Init => LocksMatch /\ Lock!Exclusion
  BY DEF Init, Start, LocksMatch, Inside, Lock!Init, Lock!Exclusion
<1> QED
  BY <1>1, TypeCorrect, LockInvStep, PTL DEF Spec, LockInv

\* What the index does with its locks: a step of theirs, or all are lost.
LocksAreUsed ==
  Lock!Init /\ [][Lock!Next \/ Lock!Init']_<<want, held, ahead>>

LEMMA LockStep ==
  ASSUME TypeOK, [Next]_vars
  PROVE  Lock!Next \/ Lock!Init' \/ UNCHANGED <<want, held, ahead>>
<1>1. ASSUME NEW p \in Procs, NEW o \in Ops, Lock!Ask(LockOf(p, o)) PROVE Lock!Next
  BY <1>1, LockOfTyped DEF Lock!Next
<1>2. ASSUME NEW p \in Procs, pc[p] # "idle",
             LET r == LockOf(p, op[p])
             IN Lock!Enter(r) \/ Lock!Leave(r) \/ Lock!GiveUp(r)
      PROVE  Lock!Next
  <2>1. op[p] \in Ops
    BY <1>2 DEF TypeOK
  <2> QED
    BY <1>2, <2>1, LockOfTyped DEF Lock!Next
<1>3. ASSUME NEW p \in Procs, Step(p)
      PROVE  Lock!Next \/ UNCHANGED <<want, held, ahead>>
  BY <1>2, <1>3 DEF Step, Locked, Read, ReadFails, EndStep, Put, PutFails, Return, Release
<1>4. ASSUME NEW p \in Procs, Cancel(p) PROVE Lock!Next
  BY <1>2, <1>4 DEF Cancel, Release
<1>5. ASSUME Crash PROVE Lock!Init'
  BY <1>5 DEF Crash, Lock!Init
<1> QED
  BY <1>1, <1>3, <1>4, <1>5 DEF Next, Begin, Land, vars

(***************************************************************************)
(* The index asks, enters and leaves only as KeyedRwLock allows, until the  *)
(* process dies: so it runs as well on the table of AccessLocks, which is   *)
(* proved to implement that specification (TableIsKeyedLock).               *)
(***************************************************************************)
THEOREM LocksUsedAsSpecified == Spec => LocksAreUsed
<1>1. Init => Lock!Init
  BY DEF Init, Start
<1>2. TypeOK /\ [Next]_vars => [Lock!Next \/ Lock!Init']_<<want, held, ahead>>
  BY LockStep
<1> QED
  BY <1>1, <1>2, TypeCorrect, PTL DEF Spec, LocksAreUsed
-----------------------------------------------------------------------------
\* Nothing that was given up on is still under way.
NothingLate == \A k \in Keys : late[k] = {}

\* A request comes to its write only with contents that allow it.
ReadyToWrite ==
  \A p \in Procs :
    /\ pc[p] \in {"end_step", "put"} /\ op[p] \in Publications
         => ~Lists(seen[p], op[p].vers)
    /\ pc[p] = "put" /\ op[p] \in Yanks => Lists(seen[p], op[p].vers)

DataInv == /\ NothingLate /\ ReadyToWrite /\ SnapshotCurrent
           /\ UniqueVersions /\ PublishLine /\ AckedStay

IInv == LockInv /\ DataInv

\* The abstract index changes its entries by the same operators.
LEMMA SameOperators ==
  ASSUME NEW f, NEW v, NEW c, NEW b
  PROVE  /\ Atomic!Lists(f, v) <=> Lists(f, v)
         /\ Atomic!WithVersion(f, v, c) = WithVersion(f, v, c)
         /\ Atomic!WithYanked(f, v, b) = WithYanked(f, v, b)
<1>1. Atomic!Rfind(f, v) = Rfind(f, v)
  BY DEF Atomic!Rfind, Atomic!IsLastOf, Rfind, IsLastOf
<1> QED
  BY <1>1 DEF Atomic!Lists, Atomic!WithVersion, Atomic!WithYanked,
     Lists, WithVersion, WithYanked

\* What a put that takes effect does, by the kind of request.
LEMMA PutIsAtomic ==
  ASSUME IInv, NEW p \in Procs, pc[p] = "put", PutEffect(p, "applied")
  PROVE  /\ Atomic!Next
         /\ op[p] \in Publications
              => Atomic!publish(op[p].crate, op[p].vers, op[p].cksum)
<1> DEFINE o == op[p]
           k == op[p].crate
<1> USE DEF IInv, LockInv, DataInv, TypeOK
<1>1. /\ k \in Keys /\ seen[p] = file[k]
      /\ file' = [file EXCEPT ![k] = NewContents(p)]
      /\ o \in Publications \/ o \in Yanks
  BY NewContentsTyped DEF PutEffect, SnapshotCurrent, Writes
<1>2. CASE o \in Publications
  <2>1. ~Lists(file[k], o.vers)
    BY <1>1, <1>2 DEF ReadyToWrite
  <2>2. NewContents(p) = WithVersion(file[k], o.vers, o.cksum)
    BY <1>1, <1>2, OpsTyped DEF NewContents
  <2>3. Atomic!publish(k, o.vers, o.cksum)
    <3>1. ~Atomic!Lists(file[k], o.vers)
      BY <2>1, SameOperators, Zenon
    <3>2. Atomic!WithVersion(file[k], o.vers, o.cksum)
            = WithVersion(file[k], o.vers, o.cksum)
      BY SameOperators, Zenon
    <3> QED
      BY <1>1, <2>2, <3>1, <3>2 DEF Atomic!publish
  <2> QED
    BY <1>1, <1>2, <2>3, OpsTyped DEF Atomic!Next
<1>3. CASE o \in Yanks
  <2>1. Lists(file[k], o.vers) /\ o \notin Publications
    BY <1>1, <1>3, OpsTyped DEF ReadyToWrite
  <2>2. NewContents(p) = WithYanked(file[k], o.vers, o.yanked)
    BY <1>1, <1>3, OpsTyped DEF NewContents
  <2>3. Atomic!set_yanked(k, o.vers, o.yanked)
    <3>1. Atomic!Lists(file[k], o.vers)
      BY <2>1, SameOperators, Zenon
    <3>2. Atomic!WithYanked(file[k], o.vers, o.yanked)
            = WithYanked(file[k], o.vers, o.yanked)
      BY SameOperators, Zenon
    <3> QED
      BY <1>1, <2>2, <3>1, <3>2 DEF Atomic!set_yanked
  <2> QED
    BY <1>1, <1>3, <2>1, <2>3, OpsTyped DEF Atomic!Next
<1> QED
  BY <1>1, <1>2, <1>3

\* File f has the entry that publication a was acknowledged for.
HasEntry(f, a) == \E i \in DOMAIN f.versions : /\ f.versions[i].vers = a.vers
                                               /\ f.versions[i].cksum = a.cksum

\* An entry is never lost by extending the file.
LEMMA HasEntryKept ==
  ASSUME NEW f, NEW g, NEW a, HasEntry(f, a), Extends(f, g)
  PROVE  HasEntry(g, a)
  BY DEF HasEntry, Extends

\* A put that takes effect: what it does to the files.
LEMMA PutKeepsFiles ==
  ASSUME IInv, NEW p \in Procs, pc[p] = "put", PutEffect(p, "applied")
  PROVE  /\ UniqueVersions' /\ PublishLine' /\ UNCHANGED late
         /\ \A k \in Keys : Extends(file[k], file'[k])
         /\ op[p] \in Publications => HasEntry(file'[op[p].crate], op[p])
<1> DEFINE o == op[p]
           k == op[p].crate
           g == NewContents(p)
<1> USE DEF IInv, LockInv, DataInv, TypeOK
<1>1. /\ k \in Keys /\ seen[p] = file[k] /\ file[k] \in Contents
      /\ file' = [file EXCEPT ![k] = g] /\ UNCHANGED late
      /\ o \in Publications \/ o \in Yanks
      /\ UniqueIn(file[k]) /\ PublishLineIn(file[k])
  BY NewContentsTyped
     DEF PutEffect, SnapshotCurrent, Writes, UniqueVersions, PublishLine
<1>2. /\ UniqueIn(g) /\ PublishLineIn(g) /\ Extends(file[k], g)
      /\ o \in Publications => HasEntry(g, o)
  <2>1. CASE o \in Publications
    <3>1. g = WithVersion(file[k], o.vers, o.cksum) /\ ~Lists(file[k], o.vers)
      BY <1>1, <2>1, OpsTyped DEF NewContents, ReadyToWrite
    <3>2. o.vers \in Versions /\ o.cksum \in Cksums
      BY <2>1, OpsTyped
    <3> HIDE DEF g
    <3>3. UniqueIn(g) /\ PublishLineIn(g) /\ Extends(file[k], g)
      BY <1>1, <3>1, <3>2, WithVersionKeeps
    <3>4. HasEntry(g, o)
      <4> DEFINE n == Len(file[k].versions) + 1
      <4>1. /\ n \in DOMAIN g.versions
            /\ g.versions[n] = [vers |-> o.vers, cksum |-> o.cksum, yanked |-> FALSE]
        BY <1>1, <3>1, <3>2, WithVersionEntries
      <4> HIDE DEF n
      <4> QED
        BY <4>1 DEF HasEntry
    <3> QED
      BY <3>3, <3>4
  <2>2. CASE o \in Yanks
    <3>1. g = WithYanked(file[k], o.vers, o.yanked) /\ Lists(file[k], o.vers)
      BY <1>1, <2>2, OpsTyped DEF NewContents, ReadyToWrite
    <3>2. o.vers \in Versions /\ o.yanked \in BOOLEAN /\ o \notin Publications
      BY <2>2, OpsTyped
    <3> HIDE DEF g
    <3> QED
      BY <1>1, <3>1, <3>2, WithYankedKeeps
  <2> QED
    BY <1>1, <2>1, <2>2
<1> HIDE DEF g
<1> QED
  BY <1>1, <1>2, ExtendsItself DEF UniqueVersions, PublishLine

\* Whoever is about to write a crate is the only one.
LEMMA OneWriter ==
  ASSUME LockInv, NEW p \in Procs, NEW q \in Procs, p # q,
         pc[p] \in {"end_step", "put"}, pc[q] \in {"end_step", "put"}
  PROVE  op[p].crate # op[q].crate
<1>1. /\ op[p] \in Ops /\ op[p] \in Writes /\ op[q] \in Ops /\ op[q] \in Writes
  BY OpsTyped DEF LockInv, TypeOK, Writes, Ops
<1>2. /\ LockOf(p, op[p]) \in held /\ LockOf(q, op[q]) \in held
  BY DEF LockInv, LocksMatch, Inside
<1>3. /\ LockOf(p, op[p]) # LockOf(q, op[q])
      /\ LockOf(p, op[p]).mode = "exclusive"
      /\ LockOf(p, op[p]).key = op[p].crate /\ LockOf(q, op[q]).key = op[q].crate
  BY <1>1, LockOfTyped
<1> QED
  BY <1>2, <1>3 DEF LockInv, Lock!Exclusion, Lock!Compatible

\* Without late puts, a put takes effect at once or not at all.
LEMMA NotLate ==
  ASSUME MaxLate = 0, IInv, NEW p \in Procs, pc[p] = "put", NEW e, PutEffect(p, e)
  PROVE  PutEffect(p, "applied") \/ UNCHANGED <<file, late>>
<1>1. op[p].crate \in Keys
  BY NewContentsTyped DEF IInv, LockInv
<1>2. Cardinality(late[op[p].crate]) = 0
  BY <1>1, FS_EmptySet DEF IInv, DataInv, NothingLate
<1> QED
  BY <1>2 DEF PutEffect

\* The conjuncts of DataInv that speak of files, after a put of any outcome.
LEMMA PutKeeps ==
  ASSUME MaxLate = 0, IInv, NEW p \in Procs, pc[p] = "put", NEW e, PutEffect(p, e)
  PROVE  /\ NothingLate' /\ UniqueVersions' /\ PublishLine'
         /\ \A k \in Keys : Extends(file[k], file'[k])
         /\ \A a \in acked : HasEntry(file'[a.crate], a)
         /\ \A q \in Procs \ {p} : pc[q] \in {"end_step", "put"}
                                     => seen[q] = file'[op[q].crate]
<1> USE DEF IInv, DataInv
<1>1. \A a \in acked : HasEntry(file[a.crate], a) /\ a.crate \in Keys
  BY OpsTyped DEF AckedStay, HasEntry, LockInv, TypeOK
<1>2. CASE PutEffect(p, "applied")
  <2>1. ASSUME NEW q \in Procs \ {p}, pc[q] \in {"end_step", "put"}
        PROVE  seen[q] = file'[op[q].crate]
    <3>1. op[q].crate # op[p].crate
      BY <2>1, OneWriter
    <3>2. op[p].crate \in Keys /\ op[q].crate \in Keys
      BY <2>1, OpsTyped DEF LockInv, TypeOK, Writes, Ops
    <3> QED
      BY <1>2, <2>1, <3>1, <3>2 DEF PutEffect, SnapshotCurrent, LockInv, TypeOK
  <2> QED
    BY <1>1, <1>2, <2>1, PutKeepsFiles, HasEntryKept DEF NothingLate
<1>3. CASE UNCHANGED <<file, late>>
  BY <1>1, <1>3, ExtendsItself
     DEF NothingLate, UniqueVersions, PublishLine, SnapshotCurrent
<1> QED
  BY <1>2, <1>3, NotLate

\* Steps that touch no file and bring nobody nearer to a write unchecked.
LEMMA QuietKeeps ==
  ASSUME IInv, UNCHANGED <<file, late, acked>>,
         \A q \in Procs : pc'[q] \in {"end_step", "put"} =>
           /\ pc[q] \in {"end_step", "put"}
           /\ op'[q] = op[q] /\ seen'[q] = seen[q]
           /\ pc'[q] = "put" /\ op[q] \in Yanks => pc[q] = "put"
  PROVE  DataInv'
<1> USE DEF IInv, DataInv
<1>1. ReadyToWrite'
  BY DEF ReadyToWrite
<1>2. SnapshotCurrent'
  BY DEF SnapshotCurrent
<1>3. NothingLate' /\ UniqueVersions' /\ PublishLine' /\ AckedStay'
  BY DEF NothingLate, UniqueVersions, PublishLine, AckedStay
<1> QED
  BY <1>1, <1>2, <1>3

\* A put, answered or not, whose request then leaves.
LEMMA WriteKeeps ==
  ASSUME MaxLate = 0, IInv, NEW p \in Procs, pc[p] = "put", NEW e, PutEffect(p, e),
         NEW s \in {"done", "idle"}, pc' = [pc EXCEPT ![p] = s],
         \A q \in Procs \ {p} : op'[q] = op[q] /\ seen'[q] = seen[q],
         \/ UNCHANGED acked
         \/ /\ e = "applied" /\ acked' \subseteq acked \cup {op[p]}
            /\ op[p] \in Publications
  PROVE  DataInv'
<1>1. /\ NothingLate' /\ UniqueVersions' /\ PublishLine'
      /\ \A a \in acked : HasEntry(file'[a.crate], a)
      /\ \A q \in Procs \ {p} : pc[q] \in {"end_step", "put"}
                                  => seen[q] = file'[op[q].crate]
  BY PutKeeps
<1>2. \A q \in Procs : pc'[q] \in {"end_step", "put"} =>
        q # p /\ pc'[q] = pc[q] /\ op'[q] = op[q] /\ seen'[q] = seen[q]
  BY DEF IInv, LockInv, TypeOK
<1>3. ReadyToWrite' /\ SnapshotCurrent'
  BY <1>1, <1>2 DEF IInv, DataInv, ReadyToWrite, SnapshotCurrent
<1>4. \A a \in acked' : HasEntry(file'[a.crate], a)
  BY <1>1, PutKeepsFiles
<1>5. AckedStay'
  BY <1>4 DEF AckedStay, HasEntry
<1> QED
  BY <1>1, <1>3, <1>5 DEF DataInv

LEMMA DataInvStep == ASSUME MaxLate = 0
                     PROVE  IInv /\ [Next]_vars => DataInv'
<1> SUFFICES ASSUME IInv, [Next]_vars PROVE DataInv'
  OBVIOUS
<1> USE DEF IInv, LockInv, TypeOK, Goto, Answer
<1>1. ASSUME NEW p \in Procs, Read(p) PROVE DataInv'
  <2> DEFINE f == file[op[p].crate]
             n == AfterRead(op[p], f)
  <2>1. op[p] \in Ops /\ seen' = [seen EXCEPT ![p] = f] /\ UNCHANGED <<file, late, op, acked>>
    BY <1>1 DEF Read
  <2>2. /\ n = "end_step" => op[p] \in Publications /\ ~Lists(f, op[p].vers)
        /\ n = "put" => op[p] \in Yanks /\ Lists(f, op[p].vers)
    BY <2>1 DEF AfterRead, Ops, Writes, Publications, Yanks, Queries
  <2>3. \E s \in States : pc' = [pc EXCEPT ![p] = s]
                          /\ (s \in {"end_step", "put"} => s = n)
    <3> HIDE DEF n
    <3> QED
      BY <1>1 DEF Read, States, n
  <2> HIDE DEF n
  <2>4. \A q \in Procs : pc'[q] \in {"end_step", "put"} =>
          \/ q # p /\ pc'[q] = pc[q] /\ seen'[q] = seen[q]
          \/ q = p /\ pc'[q] = n /\ seen'[q] = f
    BY <2>1, <2>3
  <2>5. SnapshotCurrent'
    BY <2>1, <2>4 DEF DataInv, SnapshotCurrent
  <2>6. ReadyToWrite'
    <3>1. \A o \in Yanks : o \notin Publications
      BY OpsTyped
    <3> QED
      BY <2>1, <2>2, <2>4, <3>1 DEF DataInv, ReadyToWrite
  <2> QED
    BY <2>1, <2>5, <2>6
       DEF DataInv, NothingLate, UniqueVersions, PublishLine, AckedStay
<1>2. ASSUME NEW p \in Procs, Put(p) PROVE DataInv'
  <2>1. op[p].kind = "publish" => op[p] \in Publications
    BY <1>2, OpsTyped DEF Put, Writes
  <2> QED
    BY <1>2, <2>1, WriteKeeps DEF Put
<1>3. ASSUME NEW p \in Procs, NEW e \in Effects, PutFails(p, e) PROVE DataInv'
  BY <1>3, WriteKeeps DEF PutFails
<1>4. ASSUME NEW p \in Procs, Cancel(p) PROVE DataInv'
  <2>1. CASE UNCHANGED <<file, late>>
    BY <1>4, <2>1, QuietKeeps DEF Cancel, Forget
  <2>2. CASE pc[p] = "put" /\ \E e \in Effects : PutEffect(p, e)
    BY <1>4, <2>2, WriteKeeps DEF Cancel, Forget
  <2> QED
    BY <1>4, <2>1, <2>2 DEF Cancel
<1>5. ASSUME NEW p \in Procs, NEW o \in Ops, Begin(p, o) PROVE DataInv'
  BY <1>5, QuietKeeps DEF Begin
<1>6. ASSUME NEW p \in Procs, Locked(p) \/ ReadFails(p) PROVE DataInv'
  BY <1>6, QuietKeeps DEF Locked, ReadFails
<1>7. ASSUME NEW p \in Procs, NEW ok \in BOOLEAN, EndStep(p, ok) PROVE DataInv'
  <2>1. op[p] \notin Yanks
    BY <1>7, OpsTyped DEF EndStep
  <2> QED
    BY <1>7, <2>1, QuietKeeps DEF EndStep
<1>8. ASSUME NEW p \in Procs, Return(p) PROVE DataInv'
  BY <1>8, QuietKeeps DEF Return, Forget
<1>9. ASSUME NEW k \in Keys, Land(k) PROVE DataInv'
  BY <1>9 DEF Land, DataInv, NothingLate
<1>10. CASE Crash
  BY <1>10, QuietKeeps DEF Crash
<1>11. CASE UNCHANGED vars
  BY <1>11, QuietKeeps DEF vars
<1> QED
  BY <1>1, <1>2, <1>3, <1>4, <1>5, <1>6, <1>7, <1>8, <1>9, <1>10, <1>11
     DEF Next, Step

LEMMA IInvStep == ASSUME MaxLate = 0
                 PROVE  IInv /\ [Next]_vars => IInv'
  BY TypeStep, LockInvStep, DataInvStep DEF IInv, LockInv

LEMMA Inductive == ASSUME MaxLate = 0 PROVE Spec => []IInv
<1>1. Init => DataInv
  BY NoFileFine DEF Init, Start, DataInv, NothingLate, ReadyToWrite, SnapshotCurrent,
     UniqueVersions, PublishLine, AckedStay
<1>2. IInv /\ [Next]_vars => DataInv'
  BY DataInvStep
<1> QED
  BY <1>1, <1>2, LockDiscipline, PTL DEF Spec, IInv

(***************************************************************************)
(* Without late puts: nothing read before an await is stale when it is      *)
(* written back; versions are unique; an acknowledged publication stays.    *)
(***************************************************************************)
THEOREM IndexSafe ==
  ASSUME MaxLate = 0
  PROVE  Spec => [](SnapshotCurrent /\ UniqueVersions /\ PublishLine /\ AckedStay)
<1>1. Spec => []IInv
  BY Inductive
<1> QED
  BY <1>1, PTL DEF IInv, DataInv

\* Which steps change a file: the puts that take effect.
LEMMA FileStep ==
  ASSUME MaxLate = 0, IInv, [Next]_vars
  PROVE  /\ Atomic!Next \/ UNCHANGED file
         /\ \A k \in Keys : Extends(file[k], file'[k])
         /\ \A r \in held : r.mode = "shared" => file'[r.key] = file[r.key]
<1>1. ASSUME NEW p \in Procs, pc[p] = "put", NEW e, PutEffect(p, e)
      PROVE  /\ Atomic!Next \/ UNCHANGED file
             /\ \A k \in Keys : Extends(file[k], file'[k])
             /\ \A r \in held : r.mode = "shared" => file'[r.key] = file[r.key]
  <2>1. CASE PutEffect(p, "applied")
    <3>1. LockOf(p, op[p]) \in held /\ LockOf(p, op[p]).mode = "exclusive"
          /\ LockOf(p, op[p]).key = op[p].crate /\ op[p].crate \in Keys
      BY <1>1, NewContentsTyped, LockOfTyped, OpsTyped
         DEF IInv, LockInv, LocksMatch, Inside, TypeOK, Ops
    <3>2. ASSUME NEW r \in held, r.mode = "shared" PROVE r.key # op[p].crate
      BY <3>1, <3>2 DEF IInv, LockInv, Lock!Exclusion, Lock!Compatible
    <3>3. \A r \in held : r.key \in Keys
      BY DEF IInv, LockInv, TypeOK, Lock!TypeOK, Lock!Request
    <3>4. \A r \in held : r.mode = "shared" => file'[r.key] = file[r.key]
      BY <2>1, <3>2, <3>3 DEF PutEffect, IInv, LockInv, TypeOK
    <3> QED
      BY <1>1, <2>1, <3>4, PutIsAtomic, PutKeepsFiles
  <2>2. CASE UNCHANGED <<file, late>>
    BY <2>2, ExtendsItself
  <2> QED
    BY <1>1, <2>1, <2>2, NotLate
<1>2. CASE UNCHANGED file
  BY <1>2, ExtendsItself
<1>3. ASSUME NEW k \in Keys PROVE ~Land(k)
  BY DEF Land, IInv, DataInv, NothingLate
<1> QED
  BY <1>1, <1>2, <1>3 DEF Next, Step, Begin, Locked, Read, ReadFails, EndStep, Put,
     PutFails, Return, Cancel, Crash, vars

(***************************************************************************)
(* Without late puts, publish and yank with all their awaits, failures and  *)
(* crashes amount to the atomic operations that IndexProvider demands.      *)
(***************************************************************************)
THEOREM IndexIsAtomic == ASSUME MaxLate = 0 PROVE Spec => ImplementsAtomicIndex
<1>1. Init => Atomic!Init
  BY DEF Init, Start, Atomic!Init, NoFile, Atomic!NoFile
<1>2. IInv /\ [Next]_vars => [Atomic!Next]_file
  BY FileStep
<1>3. Spec => []IInv
  BY Inductive
<1> QED
  BY <1>1, <1>2, <1>3, PTL DEF Spec, ImplementsAtomicIndex, Atomic!Spec

(***************************************************************************)
(* Without late puts, no entry of a file disappears, moves or changes its   *)
(* checksum, and no file is written while a reader has its lock.            *)
(***************************************************************************)
THEOREM FilesOnlyGrow ==
  ASSUME MaxLate = 0 PROVE Spec => EntriesImmutable /\ ReadersUndisturbed
<1>1. IInv /\ [Next]_vars
        => /\ [\A k \in Keys : Extends(file[k], file'[k])]_vars
           /\ [\A r \in held : r.mode = "shared" => file'[r.key] = file[r.key]]_vars
  BY FileStep
<1>2. Spec => []IInv
  BY Inductive
<1> QED
  BY <1>1, <1>2, PTL DEF Spec, EntriesImmutable, ReadersUndisturbed

(***************************************************************************)
(* A corollary: without late puts, a reader sees one file as long as it has *)
(* the lock (get_sparse_entry, confirm_existence).                          *)
(***************************************************************************)
THEOREM ReadersHaveTheFile == ASSUME MaxLate = 0 PROVE Spec => ReadersUndisturbed
  BY FilesOnlyGrow, PTL

(***************************************************************************)
(* A corollary: without late puts, an acknowledged publication stays.       *)
(***************************************************************************)
THEOREM AcknowledgedStay == ASSUME MaxLate = 0 PROVE Spec => []AckedStay
  BY IndexSafe, PTL

-----------------------------------------------------------------------------
\* With late puts the snapshot of a writer may be out of date, but every file
\* there is, read, written or under way, is one that was written by the rules.
WellFormed(f) == UniqueIn(f) /\ PublishLineIn(f)

FilesInv ==
  /\ \A k \in Keys : WellFormed(file[k]) /\ \A f \in late[k] : WellFormed(f)
  /\ \A p \in Procs : pc[p] \in {"end_step", "put"} => WellFormed(seen[p])
  /\ ReadyToWrite

LEMMA WrittenWellFormed ==
  ASSUME TypeOK, FilesInv, NEW p \in Procs, pc[p] = "put"
  PROVE  WellFormed(NewContents(p))
<1> DEFINE o == op[p]
           f == seen[p]
<1>1. f \in Contents /\ UniqueIn(f) /\ PublishLineIn(f) /\ o \in Writes
  BY DEF TypeOK, FilesInv, WellFormed
<1>2. CASE o \in Publications
  <2>1. NewContents(p) = WithVersion(f, o.vers, o.cksum) /\ ~Lists(f, o.vers)
    BY <1>2, OpsTyped DEF NewContents, FilesInv, ReadyToWrite
  <2>2. o.vers \in Versions /\ o.cksum \in Cksums
    BY <1>2, OpsTyped
  <2> QED
    BY <1>1, <2>1, <2>2, WithVersionKeeps DEF WellFormed
<1>3. CASE o \in Yanks
  <2>1. NewContents(p) = WithYanked(f, o.vers, o.yanked) /\ Lists(f, o.vers)
    BY <1>3, OpsTyped DEF NewContents, FilesInv, ReadyToWrite
  <2>2. o.vers \in Versions /\ o.yanked \in BOOLEAN
    BY <1>3, OpsTyped
  <2> QED
    BY <1>1, <2>1, <2>2, WithYankedKeeps DEF WellFormed
<1> QED
  BY <1>1, <1>2, <1>3 DEF Writes

LEMMA PutWellFormed ==
  ASSUME TypeOK, FilesInv, NEW p \in Procs, pc[p] = "put", NEW e, PutEffect(p, e)
  PROVE  \A k \in Keys : WellFormed(file'[k]) /\ \A f \in late'[k] : WellFormed(f)
<1>1. WellFormed(NewContents(p)) /\ op[p].crate \in Keys
  BY WrittenWellFormed, NewContentsTyped
<1> HIDE DEF NewContents, WellFormed
<1> QED
  BY <1>1 DEF PutEffect, FilesInv, TypeOK

\* Steps after which fewer requests are about to write, and of the files there
\* are only well-formed ones.
LEMMA OthersWellFormed ==
  ASSUME FilesInv,
         \A k \in Keys : WellFormed(file'[k]) /\ \A f \in late'[k] : WellFormed(f),
         \A q \in Procs : pc'[q] \in {"end_step", "put"} =>
           /\ pc[q] \in {"end_step", "put"}
           /\ op'[q] = op[q] /\ seen'[q] = seen[q]
           /\ pc'[q] = "put" /\ op[q] \in Yanks => pc[q] = "put"
  PROVE  FilesInv'
<1>1. ReadyToWrite'
  BY DEF ReadyToWrite, FilesInv
<1> HIDE DEF WellFormed
<1> QED
  BY <1>1 DEF FilesInv, WellFormed

LEMMA FilesInvStep == TypeOK /\ FilesInv /\ [Next]_vars => FilesInv'
<1> SUFFICES ASSUME TypeOK, FilesInv, [Next]_vars PROVE FilesInv'
  OBVIOUS
<1> USE DEF TypeOK, Goto, Answer
<1>0. \A k \in Keys : WellFormed(file[k]) /\ \A f \in late[k] : WellFormed(f)
  BY DEF FilesInv
<1>1. ASSUME NEW p \in Procs, Read(p) PROVE FilesInv'
  <2> DEFINE f == file[op[p].crate]
             n == AfterRead(op[p], f)
  <2>1. op[p] \in Ops /\ seen' = [seen EXCEPT ![p] = f] /\ UNCHANGED <<file, late, op>>
    BY <1>1 DEF Read
  <2>2. /\ n = "end_step" => op[p] \in Publications /\ ~Lists(f, op[p].vers)
        /\ n = "put" => op[p] \in Yanks /\ Lists(f, op[p].vers)
    BY <2>1 DEF AfterRead, Ops, Writes, Publications, Yanks, Queries
  <2>3. \E s \in States : pc' = [pc EXCEPT ![p] = s]
                          /\ (s \in {"end_step", "put"} => s = n)
    <3> HIDE DEF n
    <3> QED
      BY <1>1 DEF Read, States, n
  <2> HIDE DEF n
  <2>4. \A q \in Procs : pc'[q] \in {"end_step", "put"} =>
          \/ q # p /\ pc'[q] = pc[q] /\ seen'[q] = seen[q]
          \/ q = p /\ pc'[q] = n /\ seen'[q] = f
    BY <2>1, <2>3
  <2>5. WellFormed(f)
    BY <1>0, <2>1, OpsTyped
  <2>6. ReadyToWrite'
    <3>1. \A o \in Yanks : o \notin Publications
      BY OpsTyped
    <3> QED
      BY <2>1, <2>2, <2>4, <3>1 DEF FilesInv, ReadyToWrite
  <2> QED
    BY <1>0, <2>1, <2>4, <2>5, <2>6 DEF FilesInv, WellFormed
<1>2. ASSUME NEW p \in Procs, pc[p] = "put", NEW e, PutEffect(p, e),
             NEW s \in {"done", "idle"}, pc' = [pc EXCEPT ![p] = s],
             \A q \in Procs \ {p} : op'[q] = op[q] /\ seen'[q] = seen[q]
      PROVE  FilesInv'
  <2>1. \A q \in Procs : pc'[q] \in {"end_step", "put"} =>
          q # p /\ pc'[q] = pc[q] /\ op'[q] = op[q] /\ seen'[q] = seen[q]
    BY <1>2
  <2> QED
    BY <1>2, <2>1, PutWellFormed, OthersWellFormed
<1>3. ASSUME UNCHANGED <<file, late>>,
             \A q \in Procs : pc'[q] \in {"end_step", "put"} =>
               /\ pc[q] \in {"end_step", "put"}
               /\ op'[q] = op[q] /\ seen'[q] = seen[q]
               /\ pc'[q] = "put" /\ op[q] \in Yanks => pc[q] = "put"
      PROVE  FilesInv'
  BY <1>0, <1>3, OthersWellFormed
<1>4. ASSUME NEW p \in Procs, Cancel(p) PROVE FilesInv'
  <2>1. CASE UNCHANGED <<file, late>>
    BY <1>3, <1>4, <2>1 DEF Cancel, Forget
  <2>2. CASE pc[p] = "put" /\ \E e \in Effects : PutEffect(p, e)
    BY <1>2, <1>4, <2>2 DEF Cancel, Forget
  <2> QED
    BY <1>4, <2>1, <2>2 DEF Cancel
<1>5. ASSUME NEW p \in Procs, Put(p) \/ \E e \in Effects : PutFails(p, e)
      PROVE  FilesInv'
  BY <1>2, <1>5 DEF Put, PutFails
<1>6. ASSUME NEW p \in Procs, \/ \E o \in Ops : Begin(p, o)
                              \/ Locked(p) \/ ReadFails(p) \/ Return(p)
      PROVE  FilesInv'
  BY <1>3, <1>6 DEF Begin, Locked, ReadFails, Return, Forget
<1>7. ASSUME NEW p \in Procs, NEW ok \in BOOLEAN, EndStep(p, ok) PROVE FilesInv'
  <2>1. op[p] \notin Yanks
    BY <1>7, OpsTyped DEF EndStep
  <2> QED
    BY <1>3, <1>7, <2>1 DEF EndStep
<1>8. ASSUME NEW k \in Keys, Land(k) PROVE FilesInv'
  <2>1. \A j \in Keys : WellFormed(file'[j]) /\ \A f \in late'[j] : WellFormed(f)
    <3> HIDE DEF WellFormed
    <3> QED
      BY <1>0, <1>8 DEF Land
  <2> QED
    BY <1>8, <2>1, OthersWellFormed DEF Land
<1>9. CASE Crash
  BY <1>3, <1>9 DEF Crash
<1>10. CASE UNCHANGED vars
  BY <1>3, <1>10 DEF vars
<1> QED
  BY <1>1, <1>4, <1>5, <1>6, <1>7, <1>8, <1>9, <1>10 DEF Next, Step

(***************************************************************************)
(* Versions are unique, whatever abandoned puts land late: they may undo an *)
(* update, but put only such files in the place of others.                  *)
(***************************************************************************)
THEOREM VersionsUnique == Spec => []UniqueVersions
<1>1. Init => FilesInv
  BY NoFileFine DEF Init, Start, FilesInv, ReadyToWrite, WellFormed
<1>2. FilesInv => UniqueVersions
  BY DEF FilesInv, WellFormed, UniqueVersions
<1> QED
  BY <1>1, <1>2, TypeCorrect, FilesInvStep, PTL DEF Spec

(***************************************************************************)
(* The last line of a file is that of its newest version, also with late    *)
(* puts.                                                                    *)
(***************************************************************************)
THEOREM LastLineIsNewest == Spec => []PublishLine
<1>1. Init => FilesInv
  BY NoFileFine DEF Init, Start, FilesInv, ReadyToWrite, WellFormed
<1>2. FilesInv => PublishLine
  BY DEF FilesInv, WellFormed, PublishLine
<1> QED
  BY <1>1, <1>2, TypeCorrect, FilesInvStep, PTL DEF Spec
=============================================================================
