------------------------------ MODULE FsAuth ------------------------------
(***************************************************************************)
(* Users, tokens and crate owners kept in owners.json (freighter-auth,      *)
(* fs_backend.rs).  The file is loaded on first use after a start and       *)
(* written by sync_owners; every operation runs under one RwLock and has no *)
(* await inside, so it is one step.  What can go wrong is what memory and   *)
(* disk make of each other over failing writes and restarts.                *)
(***************************************************************************)
EXTENDS Naturals, Sequences, FiniteSets, Functions

CONSTANTS Users,       \* logins
          Tokens,      \* (hashed) tokens; they are random, hence never repeated
          Crates,      \* crate names as the client spells them
          MaxListed,   \* bound: users named in one request to change owners
          CanTear,     \* may the disk fill up while the file is written?
          NotLoaded,   \* owners.json has not been read since the start
          Torn         \* owners.json is not valid JSON

ASSUME MaxListedAssumption == MaxListed \in Nat
ASSUME CanTearAssumption == CanTear \in BOOLEAN

VARIABLES mem,       \* FsAuthProvider.owners
          disk,      \* owners.json
          granted,   \* history: tokens handed out, with their users
          settled,   \* history: owners as the answered requests left them
          claimed    \* history: crates given to the user who published first
vars == <<mem, disk, granted, settled, claimed>>

\* A HashMap: a function on the keys it has.
Maps(D, R) == UNION {[S -> R] : S \in SUBSET D}

Owners == [token_owners : Maps(Tokens, Users),
           crate_owners : Maps(Crates, SUBSET Users),
           owner_tokens : SUBSET Users]        \* the keys of the reverse index

NoOwners == [token_owners |-> <<>>, crate_owners |-> <<>>, owner_tokens |-> {}]

Grants == [token : Tokens, user : Users]
Claims == [crate : Crates, user : Users]

\* The lists of users of a request to add or remove owners.
UserLists == UNION {[1 .. n -> Users] : n \in 1 .. MaxListed}

TypeOK == /\ mem \in Owners \cup {NotLoaded}
          /\ disk \in {o \in Owners : o.owner_tokens = {}} \cup {Torn}
          /\ granted \subseteq Grants
          /\ settled \in [Claims -> {"in", "out", "open"}]
          /\ claimed \subseteq Claims

Init == /\ mem = NotLoaded
        /\ disk = NoOwners
        /\ granted = {}
        /\ settled = [a \in Claims |-> "open"]
        /\ claimed = {}

Insert(f, k, v) == [x \in DOMAIN f \cup {k} |-> IF x = k THEN v ELSE f[x]]

\* owners() and owners_mut(): what is in memory, or else what the file holds.
Loadable == mem # NotLoaded \/ disk # Torn
Loaded == IF mem = NotLoaded THEN disk ELSE mem

\* Mistake: the reverse index is written too, and read back as it was.
OnDisk_All(m) == m

\* serde(skip): the reverse index is not written.
OnDisk(m) == [m EXCEPT !.owner_tokens = {}]

\* Mistake: the file is rewritten in place, so that a failure destroys it.
sync_owners_InPlace(m, outcome) ==
  \/ outcome = "saved" /\ disk' = OnDisk(m)
  \/ outcome = "failed" /\ disk' = NoOwners

\* Mistake: nothing is written, although the answer is Ok.
sync_owners_Nothing(m, outcome) == outcome \in {"saved", "failed"} /\ UNCHANGED disk

\* A temporary file is renamed over owners.json.  An error leaves the old file,
\* but an error in the flush of the BufWriter, which is dropped, goes unnoticed.
sync_owners(m, outcome) ==
  \/ outcome = "saved" /\ disk' = OnDisk(m)
  \/ outcome = "failed" /\ UNCHANGED disk
  \/ outcome = "torn" /\ CanTear /\ disk' = Torn

Outcomes == {"saved", "failed", "torn"}

\* Mistake: the reverse index is not rebuilt after a restart.
KnownLogins_Stale(m) == m.owner_tokens

\* The reverse index, rebuilt when it is empty.
KnownLogins(m) ==
  IF m.owner_tokens = {} THEN Range(m.token_owners) ELSE m.owner_tokens

\* The owners of c are asked for a change by the holder of token t.
Authorized(m, t, c) == /\ c \in DOMAIN m.crate_owners
                       /\ t \in DOMAIN m.token_owners
                       /\ m.token_owners[t] \in m.crate_owners[c]

\* register: a login that is taken is refused.
RegisterForbidden(u) ==
  /\ Loadable
  /\ u \in KnownLogins(Loaded)
  /\ mem' = [Loaded EXCEPT !.owner_tokens = KnownLogins(Loaded)]
  /\ UNCHANGED <<disk, granted, settled, claimed>>

Register(u, t, outcome) ==
  /\ Loadable
  /\ u \notin KnownLogins(Loaded)
  /\ t \notin DOMAIN Loaded.token_owners /\ \A g \in granted : g.token # t
  /\ mem' = [Loaded EXCEPT !.owner_tokens = KnownLogins(Loaded) \cup {u},
                           !.token_owners = Insert(@, t, u)]
  /\ sync_owners(mem', outcome)
  /\ granted' = IF outcome = "failed" THEN granted
                ELSE granted \cup {[token |-> t, user |-> u]}
  /\ UNCHANGED <<settled, claimed>>

\* What an answered or failed change of the owners of c says of those it names.
Settle(c, us, outcome, word) ==
  settled' = [a \in Claims |->
                IF a.crate = c /\ a.user \in Range(us)
                THEN IF outcome = "failed" THEN "open" ELSE word
                ELSE settled[a]]

AddOwners(t, c, us, outcome) ==
  /\ Loadable
  /\ Authorized(Loaded, t, c)
  /\ mem' = [Loaded EXCEPT !.crate_owners[c] = @ \cup Range(us)]
  /\ sync_owners(mem', outcome)
  /\ Settle(c, us, outcome, "in")
  /\ UNCHANGED <<granted, claimed>>

\* Mistake: the last owner may be removed as well.
AfterRemoval_All(s, us) == [i \in 0 .. Len(us) |-> s \ {us[j] : j \in 1 .. i}]

\* remove_owners: one user after the other, as long as more than one is left.
AfterRemoval(s, us) ==
  LET left[i \in 0 .. Len(us)] ==
        IF i = 0 THEN s
        ELSE IF Cardinality(left[i - 1]) > 1 THEN left[i - 1] \ {us[i]}
        ELSE left[i - 1]
  IN left

RemoveOwners(t, c, us, outcome) ==
  /\ Loadable
  /\ Authorized(Loaded, t, c)
  /\ LET left == AfterRemoval(Loaded.crate_owners[c], us)
         refused == \E i \in 0 .. Len(us) - 1 : Cardinality(left[i]) <= 1
     IN
     /\ mem' = [Loaded EXCEPT !.crate_owners[c] = left[Len(us)]]
     /\ sync_owners(mem', outcome)
     /\ Settle(c, us, IF refused THEN "failed" ELSE outcome, "out")
     /\ claimed' = {a \in claimed : ~(a.crate = c /\ a.user \in Range(us))}
     /\ UNCHANGED granted

\* publish: a crate without an entry is given to whoever asks, in memory only.
Publish(t, c) ==
  /\ Loadable
  /\ t \in DOMAIN Loaded.token_owners
  /\ LET u == Loaded.token_owners[t]
     IN IF c \in DOMAIN Loaded.crate_owners
        THEN mem' = Loaded /\ UNCHANGED claimed
        ELSE /\ mem' = [Loaded EXCEPT !.crate_owners = Insert(@, c, {u})]
             /\ claimed' = claimed \cup {[crate |-> c, user |-> u]}
  /\ UNCHANGED <<disk, granted, settled>>

\* auth_yank, list_owners and the checks of a token only load the file.
Look == /\ Loadable
        /\ mem' = Loaded
        /\ UNCHANGED <<disk, granted, settled, claimed>>

\* The server stops and starts again.
Restart == mem' = NotLoaded /\ UNCHANGED <<disk, granted, settled, claimed>>

Change == \E t \in Tokens, c \in Crates, us \in UserLists, o \in Outcomes :
            AddOwners(t, c, us, o) \/ RemoveOwners(t, c, us, o)

Registration == \/ \E u \in Users : RegisterForbidden(u)
                \/ \E u \in Users, t \in Tokens, o \in Outcomes : Register(u, t, o)

Requests == \/ Change
            \/ \E t \in Tokens, c \in Crates : Publish(t, c)
            \/ Look

Next == Registration \/ Requests \/ Restart

Spec == Init /\ [][Next]_vars
-----------------------------------------------------------------------------
\* What an operation would work with: memory, and the file after a restart.
Views == {m \in {mem, disk} : m \notin {NotLoaded, Torn}}

(***************************************************************************)
(* A login belongs to one token at most, also when the reverse index was    *)
(* lost with a restart.                                                     *)
(***************************************************************************)
UniqueLogins == \A m \in Views : IsInjective(m.token_owners)

(***************************************************************************)
(* A crate that has an entry has an owner, after any list of removals.      *)
(***************************************************************************)
NoOwnerlessCrate ==
  \A m \in Views : \A c \in DOMAIN m.crate_owners : m.crate_owners[c] # {}

(***************************************************************************)
(* A token that was handed out is valid whenever the owners can be read,    *)
(* over restarts and writes that fail: nobody can register their login      *)
(* again.                                                                   *)
(***************************************************************************)
Valid(g) == /\ g.token \in DOMAIN Loaded.token_owners
            /\ Loaded.token_owners[g.token] = g.user

TokensKept == \A g \in granted : Loadable => Valid(g)

(***************************************************************************)
(* A change of owners that was answered with Ok is in force whenever the    *)
(* owners can be read, until the next attempt to change the same user, over *)
(* restarts and failing writes.                                             *)
(***************************************************************************)
OwnersAsAnswered ==
  \A a \in Claims :
    (Loadable /\ settled[a] # "open") =>
      /\ a.crate \in DOMAIN Loaded.crate_owners
      /\ (settled[a] = "in" <=> a.user \in Loaded.crate_owners[a.crate])

(***************************************************************************)
(* "If the crate has never been published before to the registry, the user  *)
(* should be given ownership of the new crate" (freighter-auth, lib.rs): it *)
(* stays theirs until somebody removes them.                                *)
(***************************************************************************)
FirstPublisherOwns ==
  \A a \in claimed : Loadable => /\ a.crate \in DOMAIN Loaded.crate_owners
                                 /\ a.user \in Loaded.crate_owners[a.crate]
=============================================================================
