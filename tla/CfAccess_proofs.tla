--------------------------- MODULE CfAccess_proofs ---------------------------
(***************************************************************************)
(* Proofs about CfAccess, for any number of requests and keys, any refresh  *)
(* interval and any length of time: the cached keys are those of the newest *)
(* reply, they are recent, and downloads are begun apart.                   *)
(***************************************************************************)
EXTENDS CfAccess, TLAPS

\* The lock is held for writing from the start of a download to its end.
OneDownload == \A p, q \in Procs : p # q /\ pc[p] \in {"fetch", "reply"}
                                     => pc[q] \notin {"fetch", "reply"}

\* A reply that is under way is what Cloudflare serves, but for the changes
\* since; and it is newer than what is cached.
ReplyAsServed ==
  \A p \in Procs : pc[p] = "reply" =>
    /\ missed[p] \subseteq old
    /\ \A k \in Kids \ missed[p] : k \in reply[p] <=> k \in served

\* The next attempt is later than the last one.
RetryLater == tried <= now /\ (tried = 0 \/ tried < next_fetch)

\* The next attempt is due an hour after a success or a second after an attempt.
DueInTime == next_fetch <= fetched + RefreshEvery \/ next_fetch <= tried + 1

IInv == TypeOK /\ OneDownload /\ ReplyAsServed /\ KeysAsServed /\ RetryLater /\ DueInTime

(***************************************************************************)
(* Every variable keeps its type, and a request has an operation and an     *)
(* answer exactly while it should.                                          *)
(***************************************************************************)
THEOREM TypeCorrect == Spec => []TypeOK
<1>1. Init => TypeOK
  BY TimesAssumption, NoOpAssumption DEF Init, TypeOK, States, Results
<1>2. TypeOK /\ [Next]_vars => TypeOK'
  <2> SUFFICES ASSUME TypeOK, [Next]_vars PROVE TypeOK'
    OBVIOUS
  <2> USE TimesAssumption, NoOpAssumption, RequestsAssumption DEF TypeOK, States, Results
  <2>1. ASSUME NEW p \in Procs, NEW o \in Requests, Begin(p, o) PROVE TypeOK'
    BY <2>1 DEF Begin, Goto, cache, history, Operations
  <2>2. ASSUME NEW p \in Procs, Check(p) PROVE TypeOK'
    <3>1. op[p] # NoOp /\ Granted(op[p]) \in Results \ {"none"}
      BY <2>2 DEF Check, Granted
    <3> QED
      BY <2>2, <3>1 DEF Check, Goto, Answer, cache
  <2>3. ASSUME NEW p \in Procs, UseRecent(p) PROVE TypeOK'
    BY <2>3 DEF UseRecent, Refreshed, Goto, Answer, cache
  <2>4. ASSUME NEW p \in Procs, StartFetch(p) PROVE TypeOK'
    BY <2>4 DEF StartFetch, RetryAt, Goto
  <2>5. ASSUME NEW p \in Procs, Respond(p) PROVE TypeOK'
    BY <2>5 DEF Respond, Goto, cache
  <2>6. ASSUME NEW p \in Procs, FetchFails(p) PROVE TypeOK'
    BY <2>6 DEF FetchFails, Goto, Answer, cache
  <2>7. ASSUME NEW p \in Procs, Install(p) PROVE TypeOK'
    BY <2>7 DEF Install, Refreshed, Goto, Answer
  <2>8. ASSUME NEW p \in Procs, Return(p) \/ Cancel(p) PROVE TypeOK'
    BY <2>8 DEF Return, Cancel, Forget, Goto, cache
  <2>9. ASSUME NEW S \in SUBSET Kids, Rotate(S) PROVE TypeOK'
    BY <2>9 DEF Rotate, cache, local
  <2>10. CASE Tick
    BY <2>10 DEF Tick, cache, local, history
  <2>11. CASE UNCHANGED vars
    BY <2>11 DEF vars, cache, local, history
  <2> QED
    BY <2>1, <2>2, <2>3, <2>4, <2>5, <2>6, <2>7, <2>8, <2>9, <2>10, <2>11 DEF Next
<1> QED
  BY <1>1, <1>2, PTL DEF Spec

\* At most one download is under way.
LEMMA OneDownloadStep == TypeOK /\ OneDownload /\ [Next]_vars => OneDownload'
<1> SUFFICES ASSUME TypeOK, OneDownload, [Next]_vars PROVE OneDownload'
  OBVIOUS
<1> USE DEF TypeOK, OneDownload
<1>1. ASSUME NEW p \in Procs, StartFetch(p) PROVE OneDownload'
  BY <1>1 DEF StartFetch, WriteLocked, Goto
<1>2. ASSUME NEW p \in Procs, Respond(p) PROVE OneDownload'
  BY <1>2 DEF Respond, Goto
<1>3. ASSUME NEW p \in Procs, NEW s \in States \ {"fetch", "reply"},
             pc' = [pc EXCEPT ![p] = s]
      PROVE  OneDownload'
  BY <1>3
<1>4. ASSUME UNCHANGED pc PROVE OneDownload'
  BY <1>4
<1>5. ASSUME NEW p \in Procs, NEW o \in Requests, Begin(p, o) PROVE OneDownload'
  BY <1>5, <1>3 DEF Begin, Goto, States
<1>6. ASSUME NEW p \in Procs,
             Check(p) \/ UseRecent(p) \/ FetchFails(p) \/ Install(p) \/ Return(p) \/ Cancel(p)
      PROVE  OneDownload'
  BY <1>6, <1>3 DEF Check, UseRecent, FetchFails, Install, Return, Cancel, Forget,
                    Refreshed, Answer, Goto, States
<1>7. ASSUME NEW S \in SUBSET Kids, Rotate(S) PROVE OneDownload'
  BY <1>7, <1>4 DEF Rotate, local
<1>8. CASE Tick
  BY <1>8, <1>4 DEF Tick, local
<1>9. CASE UNCHANGED vars
  BY <1>9, <1>4 DEF vars, local
<1> QED
  BY <1>1, <1>2, <1>5, <1>6, <1>7, <1>8, <1>9 DEF Next

\* What is cached and what is under way keep to what Cloudflare sends.
LEMMA KeysStep ==
  IInv /\ [Next]_vars => ReplyAsServed' /\ KeysAsServed'
<1> SUFFICES ASSUME IInv, [Next]_vars PROVE ReplyAsServed' /\ KeysAsServed'
  OBVIOUS
<1> USE DEF IInv, TypeOK, ReplyAsServed, KeysAsServed
<1>1. ASSUME NEW p \in Procs, NEW s \in States \ {"reply"}, Goto(p, s),
             UNCHANGED <<served, keys, old>>,
             \A q \in Procs \ {p} : reply'[q] = reply[q] /\ missed'[q] = missed[q]
      PROVE  ReplyAsServed' /\ KeysAsServed'
  BY <1>1 DEF Goto
<1>2. ASSUME NEW p \in Procs, NEW o \in Requests, Begin(p, o)
      PROVE  ReplyAsServed' /\ KeysAsServed'
  BY <1>2, <1>1 DEF Begin, cache, history, States
<1>3. ASSUME NEW p \in Procs, Check(p) PROVE ReplyAsServed' /\ KeysAsServed'
  BY <1>3, <1>1 DEF Check, Answer, cache, States
<1>4. ASSUME NEW p \in Procs, UseRecent(p) PROVE ReplyAsServed' /\ KeysAsServed'
  BY <1>4, <1>1 DEF UseRecent, Refreshed, Answer, cache, States
<1>5. ASSUME NEW p \in Procs, StartFetch(p) PROVE ReplyAsServed' /\ KeysAsServed'
  BY <1>5, <1>1 DEF StartFetch, States
<1>6. ASSUME NEW p \in Procs, Respond(p) PROVE ReplyAsServed' /\ KeysAsServed'
  BY <1>6 DEF Respond, Goto, cache
<1>7. ASSUME NEW p \in Procs, FetchFails(p) PROVE ReplyAsServed' /\ KeysAsServed'
  BY <1>7, <1>1 DEF FetchFails, Answer, cache, States
<1>8. ASSUME NEW p \in Procs, Install(p) PROVE ReplyAsServed' /\ KeysAsServed'
  <2>1. \A q \in Procs : pc'[q] # "reply"
    BY <1>8 DEF Install, Refreshed, Answer, Goto, OneDownload
  <2>2. /\ keys' = reply[p] /\ served' = served
        /\ old' = missed[p]
    BY <1>8 DEF Install
  <2> QED
    BY <1>8, <2>1, <2>2 DEF Install
<1>9. ASSUME NEW p \in Procs, Return(p) \/ Cancel(p) PROVE ReplyAsServed' /\ KeysAsServed'
  BY <1>9, <1>1 DEF Return, Cancel, Forget, cache, States
<1>10. ASSUME NEW S \in SUBSET Kids, Rotate(S) PROVE ReplyAsServed' /\ KeysAsServed'
  BY <1>10 DEF Rotate, cache, local
<1>11. CASE Tick
  BY <1>11 DEF Tick, cache, local, history
<1>12. CASE UNCHANGED vars
  BY <1>12 DEF vars, cache, local, history
<1> QED
  BY <1>2, <1>3, <1>4, <1>5, <1>6, <1>7, <1>8, <1>9, <1>10, <1>11, <1>12 DEF Next

\* The times of the cache fit together.
LEMMA TimesStep ==
  TypeOK /\ RetryLater /\ DueInTime /\ [Next]_vars => RetryLater' /\ DueInTime'
<1> SUFFICES ASSUME TypeOK, RetryLater, DueInTime, [Next]_vars
             PROVE  RetryLater' /\ DueInTime'
  OBVIOUS
<1> USE TimesAssumption DEF TypeOK, RetryLater, DueInTime
<1>1. ASSUME UNCHANGED <<now, next_fetch, tried, fetched>>
      PROVE  RetryLater' /\ DueInTime'
  BY <1>1
<1>2. ASSUME NEW p \in Procs, StartFetch(p) PROVE RetryLater' /\ DueInTime'
  BY <1>2 DEF StartFetch, RetryAt, Recent
<1>3. ASSUME NEW p \in Procs, Install(p) PROVE RetryLater' /\ DueInTime'
  BY <1>3 DEF Install
<1>4. CASE Tick
  BY <1>4 DEF Tick, cache, history
<1>5. ASSUME NEW p \in Procs,
             \/ \E o \in Requests : Begin(p, o)
             \/ Check(p) \/ UseRecent(p) \/ Respond(p) \/ FetchFails(p)
             \/ Return(p) \/ Cancel(p)
      PROVE  RetryLater' /\ DueInTime'
  BY <1>5, <1>1 DEF Begin, Check, UseRecent, Respond, FetchFails, Return, Cancel,
                    Forget, cache, history
<1>6. ASSUME NEW S \in SUBSET Kids, Rotate(S) PROVE RetryLater' /\ DueInTime'
  BY <1>6, <1>1 DEF Rotate, cache
<1>7. CASE UNCHANGED vars
  BY <1>7, <1>1 DEF vars, cache, history
<1> QED
  BY <1>2, <1>3, <1>4, <1>5, <1>6, <1>7 DEF Next

THEOREM Inductive == Spec => []IInv
<1>1. Init => OneDownload /\ ReplyAsServed /\ KeysAsServed /\ RetryLater /\ DueInTime
  BY TimesAssumption DEF Init, OneDownload, ReplyAsServed, KeysAsServed, RetryLater, DueInTime
<1>2. IInv /\ [Next]_vars => (OneDownload /\ ReplyAsServed /\ KeysAsServed
                              /\ RetryLater /\ DueInTime)'
  BY OneDownloadStep, KeysStep, TimesStep DEF IInv
<1> QED
  BY <1>1, <1>2, TypeCorrect, PTL DEF Spec, IInv

(***************************************************************************)
(* What is cached is what Cloudflare served in the newest reply that was    *)
(* stored, whatever failed or was cancelled.                                *)
(***************************************************************************)
THEOREM CacheIsAsServed == Spec => []KeysAsServed
  BY Inductive, PTL DEF IInv

(***************************************************************************)
(* Two downloads are never begun within one unit of time.                   *)
(***************************************************************************)
THEOREM DownloadsApart == Spec => FetchesApart
<1>1. IInv /\ [Next]_vars
        => [\A p \in Procs : StartFetch(p) => tried = 0 \/ now > tried]_vars
  BY DEF IInv, TypeOK, RetryLater, StartFetch, Recent
<1> QED
  BY <1>1, Inductive, PTL DEF Spec, FetchesApart

(***************************************************************************)
(* A token is verified with recent keys, or soon after an attempt to get    *)
(* newer ones.                                                              *)
(***************************************************************************)
THEOREM VerifiedWithRecentKeys == Spec => KeysRecent
<1>1. ASSUME IInv, [Next]_vars, NEW p \in Procs, Verified(p)
      PROVE  now <= fetched + RefreshEvery \/ now <= tried + 1
  <2>1. pc[p] = "check" /\ res'[p] # res[p]
    BY <1>1 DEF Verified, IInv, TypeOK
  <2>2. Check(p) \/ Cancel(p)
    BY <1>1, <2>1 DEF IInv, TypeOK, Next, Begin, Check, UseRecent, StartFetch, Respond,
       FetchFails, Install, Return, Cancel, Forget, Rotate, Tick, Goto, Answer, Refreshed,
       cache, local, history, vars
  <2>3. ~Due
    BY <1>1, <2>1, <2>2 DEF Check, Cancel, Forget, Verified, IInv, TypeOK
  <2> QED
    BY <1>1, <2>3, TimesAssumption DEF Due, IInv, TypeOK, DueInTime
<1>2. IInv /\ [Next]_vars
        => [\A p \in Procs : Verified(p) => \/ now <= fetched + RefreshEvery
                                            \/ now <= tried + 1]_vars
  BY <1>1
<1> QED
  BY <1>2, Inductive, PTL DEF Spec, KeysRecent
=============================================================================
