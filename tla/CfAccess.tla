------------------------------ MODULE CfAccess ------------------------------
(***************************************************************************)
(* Authentication by Cloudflare Access (freighter-auth: cf_access.rs and    *)
(* cf_backend.rs).  Tokens are verified with signing keys that are cached   *)
(* behind a reader-writer lock.  Whoever finds them due for a refresh       *)
(* downloads them, holding the lock for writing: everyone else waits.  The  *)
(* clock counts the pauses between attempts after a failure (1 s).          *)
(***************************************************************************)
EXTENDS Naturals

CONSTANTS Procs,         \* the requests being served concurrently
          Kids,          \* ids of signing keys
          Requests,      \* bound: what may be requested
          RefreshEvery,  \* REFRESH_DURATION (1 h, in units of the clock)
          MaxTime,       \* bound on the clock
          NoOp           \* no request

Holders == {"ci",        \* a service token of publish_access_ids
            "service",   \* another service token
            "user",      \* a person
            "mismatch",  \* claims that are neither
           "nobody"}    \* not signed with its key, expired, or for others

Tokens == [kid : Kids, holder : Holders]

Operations == [kind : {"healthcheck"}]
                \cup [kind : {"publish", "remove_owners", "auth_yank"}, token : Tokens]

ASSUME RequestsAssumption == Requests \subseteq Operations
ASSUME NoOpAssumption == NoOp \notin Operations
ASSUME TimesAssumption == /\ RefreshEvery \in Nat /\ RefreshEvery > 1
                            /\ MaxTime \in Nat /\ MaxTime > 0

VARIABLES now,         \* Instant::now()
          served,      \* the usable signing keys Cloudflare serves
          keys,        \* KeySet.keys
          next_fetch,  \* KeySet.next_fetch
          pc, op, res, \* where each request is, what it was asked, its answer
          reply,       \* the keys that were sent to it
          tried,       \* history: when the last download was begun
          fetched,     \* history: when the last download succeeded
          missed,      \* history: the keys that changed since the reply
          old          \* history: the keys that changed since the newest reply
                       \* that was ever stored
cache == <<keys, next_fetch>>
local == <<pc, op, res, reply>>
history == <<tried, fetched, missed, old>>
vars == <<now, served, cache, local, history>>

States == {"idle", "check", "refresh", "fetch", "reply", "done"}
Results == {"none", "Ok", "Unauthorized", "Forbidden", "Unimplemented",
            "InvalidCredentials", "ServiceError"}

TypeOK == /\ now \in 1 .. MaxTime
          /\ served \subseteq Kids /\ keys \subseteq Kids
          /\ next_fetch \in 0 .. MaxTime + RefreshEvery
          /\ pc \in [Procs -> States]
          /\ op \in [Procs -> Operations \cup {NoOp}]
          /\ res \in [Procs -> Results]
          /\ reply \in [Procs -> SUBSET Kids]
          /\ tried \in 0 .. MaxTime /\ fetched \in 0 .. MaxTime
          /\ missed \in [Procs -> SUBSET Kids] /\ old \subseteq Kids
          /\ \A p \in Procs : /\ op[p] = NoOp <=> pc[p] = "idle"
                              /\ res[p] # "none" <=> pc[p] = "done"
                              /\ pc[p] = "check" => op[p].kind # "healthcheck"

\* CfAccess::new; the clock has moved on when the first request arrives.
Init == /\ now = 1
        /\ served = Kids /\ keys = {}
        /\ next_fetch = 0
        /\ pc = [p \in Procs |-> "idle"]
        /\ op = [p \in Procs |-> NoOp]
        /\ res = [p \in Procs |-> "none"]
        /\ reply = [p \in Procs |-> {}]
        /\ tried = 0 /\ fetched = 0
        /\ missed = [p \in Procs |-> {}] /\ old = Kids

Goto(p, s) == pc' = [pc EXCEPT ![p] = s]

Answer(p, r) == /\ Goto(p, "done")
                /\ res' = [res EXCEPT ![p] = r]
                /\ reply' = [reply EXCEPT ![p] = {}]
                /\ missed' = [missed EXCEPT ![p] = {}]
                /\ UNCHANGED op

\* Mistake: the lock is taken for writing only to store what was downloaded.
WriteLocked_ToInstall == FALSE

\* A download is under way.
WriteLocked == \E q \in Procs : pc[q] \in {"fetch", "reply"}

\* register answers Unimplemented at once and is left out.
Begin(p, o) ==
  /\ pc[p] = "idle"
  /\ op' = [op EXCEPT ![p] = o]
  /\ Goto(p, IF o.kind = "healthcheck" THEN "refresh" ELSE "check")
  /\ UNCHANGED <<now, served, cache, res, reply, history>>

\* Mistake: the keys are kept for as long as they are usable.
Due_Empty == keys = {}

Due == next_fetch < now

\* What becomes of a token whose key is known: it is decoded with the key, its
\* claims are looked at, and the backend decides.
Granted(o) ==
  CASE o.token.holder = "nobody" -> "Unauthorized"
    [] o.token.holder = "mismatch" -> "ServiceError"
    [] o.token.holder \notin {"nobody", "mismatch"} /\ o.kind = "remove_owners"
         -> "Unimplemented"
    [] o.token.holder \in {"service", "user"} /\ o.kind = "publish" -> "Forbidden"
    [] OTHER -> "Ok"

\* validated_user_id, under the read lock; then what the backend makes of it.
\* A token that names no key at all is refused before, and is left out.
Check(p) ==
  /\ pc[p] = "check" /\ ~WriteLocked
  /\ IF Due
     THEN Goto(p, "refresh") /\ UNCHANGED <<op, res, reply, missed>>
     ELSE Answer(p, IF op[p].token.kid \in keys THEN Granted(op[p])
                    ELSE "InvalidCredentials")
  /\ UNCHANGED <<now, served, cache, tried, fetched, old>>
-----------------------------------------------------------------------------
(* refresh *)

\* Mistake: a health check goes on like everybody else.
Refreshed_Check(p) == /\ Goto(p, "check")
                      /\ reply' = [reply EXCEPT ![p] = {}]
                      /\ missed' = [missed EXCEPT ![p] = {}]
                      /\ UNCHANGED <<op, res>>

\* What the caller of refresh does when it returns Ok.
Refreshed(p) == IF op[p].kind = "healthcheck" THEN Answer(p, "Ok")
                ELSE /\ Goto(p, "check")
                     /\ reply' = [reply EXCEPT ![p] = {}]
                     /\ missed' = [missed EXCEPT ![p] = {}]
                     /\ UNCHANGED <<op, res>>

\* Mistake: keys that are due are good enough for whoever refreshes them.
Recent_Known == next_fetch > now \/ keys # {}

\* Somebody else has downloaded the keys in the meantime.
Recent == next_fetch > now

UseRecent(p) ==
  /\ pc[p] = "refresh" /\ ~WriteLocked
  /\ Recent
  /\ IF keys = {} THEN Answer(p, "ServiceError") ELSE Refreshed(p)
  /\ UNCHANGED <<now, served, cache, tried, fetched, old>>

\* Mistake: the next attempt is put off only when a download has succeeded.
RetryAt_Unset == next_fetch

\* "in case of failure, retry 1/s".
RetryAt == now + 1

StartFetch(p) ==
  /\ pc[p] = "refresh" /\ ~WriteLocked
  /\ ~Recent
  /\ next_fetch' = RetryAt
  /\ tried' = now
  /\ Goto(p, "fetch")
  /\ UNCHANGED <<now, served, keys, op, res, reply, fetched, missed, old>>

\* Cloudflare sends the keys it has.
Respond(p) ==
  /\ pc[p] = "fetch"
  /\ reply' = [reply EXCEPT ![p] = served]
  /\ missed' = [missed EXCEPT ![p] = {}]
  /\ Goto(p, "reply")
  /\ UNCHANGED <<now, served, cache, op, res, tried, fetched, old>>

\* The request fails, or what was sent is not a set of keys.
FetchFails(p) ==
  /\ pc[p] \in {"fetch", "reply"}
  /\ Answer(p, "ServiceError")
  /\ UNCHANGED <<now, served, cache, tried, fetched, old>>

\* The keys are replaced, and good for an hour if there are any.
Install(p) ==
  /\ pc[p] = "reply"
  /\ keys' = reply[p]
  /\ old' = old \cap missed[p]
  /\ IF keys' = {}
     THEN Answer(p, "ServiceError") /\ UNCHANGED <<next_fetch, fetched>>
     ELSE Refreshed(p) /\ next_fetch' = now + RefreshEvery /\ fetched' = now
  /\ UNCHANGED <<now, served, tried>>
-----------------------------------------------------------------------------
Forget(p) == /\ Goto(p, "idle")
             /\ op' = [op EXCEPT ![p] = NoOp]
             /\ res' = [res EXCEPT ![p] = "none"]
             /\ reply' = [reply EXCEPT ![p] = {}]
             /\ missed' = [missed EXCEPT ![p] = {}]
             /\ UNCHANGED <<now, served, cache, tried, fetched, old>>

Return(p) == pc[p] = "done" /\ Forget(p)

\* The client disconnects, or a health check times out.
Cancel(p) == pc[p] \notin {"idle", "done"} /\ Forget(p)

\* Cloudflare changes its keys.
Rotate(S) ==
  /\ S # served
  /\ served' = S
  /\ LET changed == (S \ served) \cup (served \ S)
     IN /\ old' = old \cup changed
        /\ missed' = [p \in Procs |-> IF pc[p] = "reply" THEN missed[p] \cup changed
                                       ELSE {}]
  /\ UNCHANGED <<now, cache, local, tried, fetched>>

Tick == /\ now < MaxTime
        /\ now' = now + 1
        /\ UNCHANGED <<served, cache, local, history>>

Next == \/ \E p \in Procs : \/ \E o \in Requests : Begin(p, o)
                            \/ Check(p)
                            \/ UseRecent(p) \/ StartFetch(p)
                            \/ Respond(p) \/ FetchFails(p) \/ Install(p)
                            \/ Return(p) \/ Cancel(p)
        \/ \E S \in SUBSET Kids : Rotate(S)
        \/ Tick

Spec == Init /\ [][Next]_vars

\* The lock is fair, so that whoever waits for it gets it; a download ends.
Fairness ==
  \A p \in Procs : /\ SF_vars(Check(p))
                   /\ SF_vars(UseRecent(p) \/ StartFetch(p))
                   /\ WF_vars(Respond(p) \/ FetchFails(p))
                   /\ WF_vars(Install(p) \/ FetchFails(p))

FairSpec == Spec /\ Fairness
-----------------------------------------------------------------------------
(***************************************************************************)
(* "in case of failure, retry 1/s": two downloads are never begun within    *)
(* one unit of time, whoever was cancelled or has failed in between.        *)
(***************************************************************************)
FetchesApart ==
  [][\A p \in Procs : StartFetch(p) => tried = 0 \/ now > tried]_vars

Verified(p) == pc[p] = "check" /\ res'[p] \in {"Ok", "Forbidden", "Unimplemented"}

(***************************************************************************)
(* A token is verified with keys that were downloaded at most an hour ago,  *)
(* unless an attempt to get newer ones was begun a second ago or later.     *)
(***************************************************************************)
KeysRecent ==
  [][\A p \in Procs : Verified(p) => \/ now <= fetched + RefreshEvery
                                     \/ now <= tried + 1]_vars

(***************************************************************************)
(* A key verifies tokens if and only if Cloudflare served it in the newest  *)
(* reply that was stored: a key that was withdrawn before verifies none, no *)
(* key is lost to a download that fails or is cancelled, and keys that were *)
(* sent earlier never replace keys that were sent later.                    *)
(***************************************************************************)
KeysAsServed == \A k \in Kids \ old : k \in keys <=> k \in served

(***************************************************************************)
(* Every request is answered or given up, although downloads fail, and      *)
(* requests are cancelled while they hold the lock.                         *)
(***************************************************************************)
RequestsEnd == \A p \in Procs : pc[p] # "idle" ~> pc[p] \in {"idle", "done"}
=============================================================================
