--------------------------- MODULE Session_proofs ---------------------------
(***************************************************************************)
(* For any number of users, tokens and crates, over lost answers, failing   *)
(* writes, torn files and restarts: logins are unique, tokens stay valid,   *)
(* and a client's token is served; what the server takes out of a frame is  *)
(* what the client put into it, for every length a u32 can hold.  The first *)
(* part is about FsAuth alone.                                              *)
(***************************************************************************)
EXTENDS Session, SequenceTheorems, FiniteSetTheorems, WellFoundedInduction, TLAPS

\* Sets of numbers have a least one.
LEMMA NatMin ==
  ASSUME NEW T \in SUBSET Nat, T # {}
  PROVE  \E n \in T : \A m \in T : n <= m
<1> DEFINE R == OpToRel(<, Nat)
<1>1. IsWellFoundedOn(R, Nat)
  BY NatLessThanWellFounded, Zenon
<1>2. R = {ss \in Nat \X Nat : ss[1] < ss[2]}
  BY DEF OpToRel
<1> HIDE DEF R
<1>3. \E x \in T : \A y \in T : ~ (<<y, x>> \in R)
  BY <1>1, WFMin
<1>4. \A x, y \in Nat : y < x => <<y, x>> \in R
  BY <1>2
<1>5. \A x, y \in Nat : <<y, x>> \notin R => x <= y
  BY <1>4
<1> QED
  BY <1>3, <1>5

\* Induction, for a set of numbers.
LEMMA NatInd ==
  ASSUME NEW S, 0 \in S, \A n \in Nat : n \in S => n + 1 \in S
  PROVE  Nat \subseteq S
<1> SUFFICES ASSUME Nat \ S # {} PROVE FALSE
  OBVIOUS
<1>1. PICK n \in Nat \ S : \A m \in Nat \ S : n <= m
  BY NatMin
<1>2. n # 0 /\ n - 1 \in Nat /\ n - 1 \notin Nat \ S
  BY <1>1
<1>3. (n - 1) + 1 = n
  BY <1>2
<1> QED
  BY <1>1, <1>2, <1>3
-----------------------------------------------------------------------------

\* The parts of Owners that registrations deal with.  The reverse index is empty
\* or complete, and the file has none.
Sound(m) ==
  /\ m = [token_owners |-> m.token_owners, crate_owners |-> m.crate_owners,
          owner_tokens |-> m.owner_tokens]
  /\ DOMAIN m.token_owners \subseteq Tokens
  /\ m.token_owners = [t \in DOMAIN m.token_owners |-> m.token_owners[t]]
  /\ IsInjective(m.token_owners)
  /\ Range(m.token_owners) \subseteq Users
  /\ m.owner_tokens \in {{}, Range(m.token_owners)}

\* m has the tokens gs that were handed out.
Knows(m, gs) == \A g \in gs : /\ g.token \in DOMAIN m.token_owners
                              /\ m.token_owners[g.token] = g.user

OwnersInv ==
  /\ mem # NotLoaded => Sound(mem) /\ Knows(mem, granted)
  /\ disk # Torn => Sound(disk) /\ Knows(disk, granted) /\ disk.owner_tokens = {}

\* What can be loaded is sound, and registrations see all logins.
LEMMA LoadedSound ==
  ASSUME OwnersInv, Loadable
  PROVE  /\ Sound(Loaded) /\ Knows(Loaded, granted)
         /\ KnownLogins(Loaded) = Range(Loaded.token_owners)
<1>1. Sound(Loaded) /\ Knows(Loaded, granted)
  BY DEF OwnersInv, Loadable, Loaded
<1>2. Loaded.owner_tokens \in {{}, Range(Loaded.token_owners)}
  BY <1>1 DEF Sound
<1> QED
  BY <1>1, <1>2 DEF KnownLogins

\* An operation that changes memory to m and writes the file.
LEMMA WrittenSound ==
  ASSUME OwnersInv, NEW m, Sound(m), Knows(m, granted'),
         NEW outcome, sync_owners(m, outcome), mem' = m,
         outcome = "failed" => UNCHANGED granted
  PROVE  OwnersInv'
<1> DEFINE d == OnDisk(m)
<1>1. d = [token_owners |-> m.token_owners, crate_owners |-> m.crate_owners,
           owner_tokens |-> {}]
  BY DEF Sound, OnDisk
<1>2. Sound(d) /\ Knows(d, granted') /\ d.owner_tokens = {}
  BY <1>1 DEF Sound, Knows
<1>3. Sound(mem)' /\ Knows(mem', granted')
  BY DEF Sound
<1>4. CASE disk' = d
  <2>1. Sound(disk)' /\ Knows(disk', granted') /\ disk'.owner_tokens = {}
    BY <1>2, <1>4 DEF Sound
  <2> QED
    BY <1>3, <2>1 DEF OwnersInv
<1>5. CASE outcome = "failed" /\ UNCHANGED disk
  <2>1. disk' # Torn => Sound(disk)' /\ Knows(disk', granted') /\ disk'.owner_tokens = {}
    BY <1>5 DEF OwnersInv, Sound
  <2> QED
    BY <1>3, <2>1 DEF OwnersInv
<1>6. CASE disk' = Torn
  BY <1>3, <1>6 DEF OwnersInv
<1> QED
  BY <1>4, <1>5, <1>6 DEF sync_owners

\* An operation that changes memory, and tokens neither there nor in the file.
LEMMA KeptSound ==
  ASSUME OwnersInv, UNCHANGED <<disk, granted>>,
         mem' = NotLoaded \/ (Sound(mem') /\ Knows(mem', granted))
  PROVE  OwnersInv'
  BY DEF OwnersInv, Sound

\* A change of crate_owners alone.
LEMMA CratesChanged ==
  ASSUME NEW m, Sound(m), NEW gs, Knows(m, gs), NEW f
  PROVE  Sound([m EXCEPT !.crate_owners = f]) /\ Knows([m EXCEPT !.crate_owners = f], gs)
<1> DEFINE n == [m EXCEPT !.crate_owners = f]
<1>1. n = [token_owners |-> m.token_owners, crate_owners |-> f,
           owner_tokens |-> m.owner_tokens]
  BY DEF Sound
<1> HIDE DEF n
<1>2. Sound(n) /\ Knows(n, gs)
  BY <1>1 DEF Sound, Knows
<1> QED
  BY <1>2 DEF n

LEMMA LoginsChanged ==
  ASSUME NEW m, Sound(m), NEW f, NEW s
  PROVE  [m EXCEPT !.owner_tokens = s, !.token_owners = f]
           = [token_owners |-> f, crate_owners |-> m.crate_owners, owner_tokens |-> s]
<1> DEFINE r == [m EXCEPT !.owner_tokens = s]
<1>1. r = [token_owners |-> m.token_owners, crate_owners |-> m.crate_owners,
           owner_tokens |-> s]
  BY DEF Sound
<1>2. [r EXCEPT !.token_owners = f]
        = [token_owners |-> f, crate_owners |-> m.crate_owners, owner_tokens |-> s]
  <2> HIDE DEF r
  <2> QED
    BY <1>1
<1>3. [m EXCEPT !.owner_tokens = s, !.token_owners = f] = [r EXCEPT !.token_owners = f]
  BY DEF r
<1> QED
  BY <1>2, <1>3

LEMMA RegisterSound ==
  ASSUME OwnersInv, NEW u \in Users, NEW t \in Tokens, NEW outcome,
         Register(u, t, outcome)
  PROVE  OwnersInv'
<1> DEFINE o == Loaded.token_owners
           f == Insert(o, t, u)
           m == [Loaded EXCEPT !.owner_tokens = KnownLogins(Loaded) \cup {u},
                               !.token_owners = f]
<1>1. /\ Sound(Loaded) /\ Knows(Loaded, granted)
      /\ KnownLogins(Loaded) = Range(o)
      /\ u \notin Range(o) /\ t \notin DOMAIN o /\ \A g \in granted : g.token # t
  BY LoadedSound DEF Register
<1>2. m = [token_owners |-> f, crate_owners |-> Loaded.crate_owners,
           owner_tokens |-> Range(o) \cup {u}]
  BY <1>1, LoginsChanged
<1>3. /\ DOMAIN f = DOMAIN o \cup {t} /\ f[t] = u
      /\ \A x \in DOMAIN o : f[x] = o[x]
      /\ f = [x \in DOMAIN f |-> f[x]]
  BY <1>1 DEF Insert
<1> HIDE DEF f
<1>4. Range(f) = Range(o) \cup {u}
  BY <1>3 DEF Range
<1>5. IsInjective(f)
  BY <1>1, <1>3 DEF Sound, IsInjective, Range
<1> HIDE DEF m
<1>6. Sound(m)
  <2>1. /\ m.token_owners = f /\ m.owner_tokens = Range(f)
        /\ m = [token_owners |-> m.token_owners, crate_owners |-> m.crate_owners,
                owner_tokens |-> m.owner_tokens]
    BY <1>2, <1>4
  <2>2. DOMAIN f \subseteq Tokens /\ Range(f) \subseteq Users
    BY <1>1, <1>3, <1>4 DEF Sound
  <2> QED
    BY <1>3, <1>5, <2>1, <2>2 DEF Sound
<1>7. Knows(m, granted \cup {[token |-> t, user |-> u]})
  BY <1>1, <1>2, <1>3 DEF Knows
<1>8. /\ mem' = m /\ sync_owners(m, outcome)
      /\ granted' = IF outcome = "failed" THEN granted
                    ELSE granted \cup {[token |-> t, user |-> u]}
  BY DEF Register, m, f
<1>9. Knows(m, granted')
  BY <1>7, <1>8 DEF Knows
<1> QED
  BY <1>6, <1>8, <1>9, WrittenSound

LEMMA OwnersStep == OwnersInv /\ [Next]_vars => OwnersInv'
<1> SUFFICES ASSUME OwnersInv, [Next]_vars PROVE OwnersInv'
  OBVIOUS
<1>1. ASSUME NEW u \in Users, RegisterForbidden(u) PROVE OwnersInv'
  <2>1. /\ Sound(Loaded) /\ Knows(Loaded, granted)
        /\ KnownLogins(Loaded) = Range(Loaded.token_owners)
    BY <1>1, LoadedSound DEF RegisterForbidden
  <2>2. mem' = [token_owners |-> Loaded.token_owners,
                crate_owners |-> Loaded.crate_owners,
                owner_tokens |-> Range(Loaded.token_owners)]
    BY <1>1, <2>1 DEF RegisterForbidden, Sound
  <2>3. Sound(mem') /\ Knows(mem', granted)
    BY <2>1, <2>2 DEF Sound, Knows
  <2> QED
    BY <1>1, <2>3, KeptSound DEF RegisterForbidden
<1>2. ASSUME NEW t \in Tokens, NEW c \in Crates, NEW us \in UserLists,
             NEW x \in Outcomes, AddOwners(t, c, us, x) \/ RemoveOwners(t, c, us, x)
      PROVE  OwnersInv'
  <2>1. Loadable /\ UNCHANGED granted /\ sync_owners(mem', x)
    BY <1>2 DEF AddOwners, RemoveOwners
  <2>2. \E f : mem' = [Loaded EXCEPT !.crate_owners = f]
    <3>1. CASE AddOwners(t, c, us, x)
      BY <3>1 DEF AddOwners
    <3>2. CASE RemoveOwners(t, c, us, x)
      BY <3>2 DEF RemoveOwners
    <3> QED
      BY <1>2, <3>1, <3>2
  <2>3. Sound(mem') /\ Knows(mem', granted')
    BY <2>1, <2>2, LoadedSound, CratesChanged
  <2> QED
    BY <2>1, <2>3, WrittenSound
<1>3. ASSUME NEW t \in Tokens, NEW c \in Crates, Publish(t, c) PROVE OwnersInv'
  <2>1. Loadable /\ UNCHANGED <<disk, granted>>
    BY <1>3 DEF Publish
  <2>2. mem' = Loaded \/ \E f : mem' = [Loaded EXCEPT !.crate_owners = f]
    BY <1>3 DEF Publish
  <2>3. Sound(mem') /\ Knows(mem', granted)
    BY <2>1, <2>2, LoadedSound, CratesChanged
  <2> QED
    BY <2>1, <2>3, KeptSound
<1>4. CASE Look
  BY <1>4, LoadedSound, KeptSound DEF Look
<1>5. CASE Restart
  BY <1>5, KeptSound DEF Restart
<1>6. CASE UNCHANGED vars
  BY <1>6 DEF vars, OwnersInv, Sound, Knows
<1> QED
  BY <1>1, <1>2, <1>3, <1>4, <1>5, <1>6, RegisterSound
     DEF Next, Registration, Requests, Change

LEMMA OwnersInit == Init => OwnersInv
<1>1. NoOwners = [token_owners |-> NoOwners.token_owners,
                  crate_owners |-> NoOwners.crate_owners,
                  owner_tokens |-> NoOwners.owner_tokens]
      /\ NoOwners.token_owners = <<>> /\ NoOwners.owner_tokens = {}
  BY DEF NoOwners
<1>2. DOMAIN <<>> = {} /\ <<>> = [t \in DOMAIN <<>> |-> <<>>[t]]
  OBVIOUS
<1>3. Sound(NoOwners)
  BY <1>1, <1>2 DEF Sound, IsInjective, Range
<1> QED
  BY <1>1, <1>3 DEF Init, OwnersInv, Sound, Knows

THEOREM Inductive == Spec => []OwnersInv
  BY OwnersInit, OwnersStep, PTL DEF Spec

LEMMA LoginsAndTokens == OwnersInv => UniqueLogins /\ TokensKept
<1>1. OwnersInv => UniqueLogins
  BY DEF OwnersInv, Sound, UniqueLogins, Views
<1>2. OwnersInv => TokensKept
  BY LoadedSound DEF TokensKept, Valid, Knows
<1> QED
  BY <1>1, <1>2

(***************************************************************************)
(* A login belongs to one token at most, in memory and in the file.         *)
(***************************************************************************)
THEOREM LoginsUnique == Spec => []UniqueLogins
  BY Inductive, LoginsAndTokens, PTL

(***************************************************************************)
(* A token that was handed out stays valid, over failing writes and         *)
(* restarts.                                                                *)
(***************************************************************************)
THEOREM TokensStay == Spec => []TokensKept
  BY Inductive, LoginsAndTokens, PTL
-----------------------------------------------------------------------------
\* One step of remove_owners.
Spared(r, u) == IF Cardinality(r) > 1 THEN r \ {u} ELSE r

\* left is what remove_owners makes of s, user after user, for the first n of us.
Removal(left, s, us, n) ==
  left = [i \in 0 .. n |-> IF i = 0 THEN s ELSE Spared(left[i - 1], us[i])]

LEMMA RemovalExists ==
  ASSUME NEW s, NEW us, NEW n \in Nat
  PROVE  \E left : Removal(left, s, us, n)
<1> DEFINE S == {m \in Nat : \E left : Removal(left, s, us, m)}
<1>1. 0 \in S
  <2> DEFINE f == [i \in 0 .. 0 |-> s]
  <2>1. f = [i \in 0 .. 0 |-> IF i = 0 THEN s ELSE Spared(f[i - 1], us[i])]
    OBVIOUS
  <2> QED
    BY <2>1 DEF Removal
<1>2. ASSUME NEW m \in Nat, m \in S PROVE m + 1 \in S
  <2>1. PICK f : Removal(f, s, us, m)
    BY <1>2
  <2> DEFINE g == [i \in 0 .. m + 1 |-> IF i = m + 1 THEN Spared(f[m], us[m + 1]) ELSE f[i]]
  <2>2. \A i \in 0 .. m : f[i] = IF i = 0 THEN s ELSE Spared(f[i - 1], us[i])
    BY <2>1 DEF Removal
  <2>3. ASSUME NEW i \in 0 .. m + 1
        PROVE  g[i] = IF i = 0 THEN s ELSE Spared(g[i - 1], us[i])
    <3>1. CASE i = m + 1
      <4>1. g[i] = Spared(f[m], us[m + 1]) /\ g[m] = f[m] /\ i - 1 = m /\ i # 0
        BY <3>1
      <4> QED
        BY <3>1, <4>1
    <3>2. CASE i \in 0 .. m
      <4>1. g[i] = f[i] /\ (i # 0 => g[i - 1] = f[i - 1])
        BY <3>2
      <4> QED
        BY <2>2, <3>2, <4>1
    <3> QED
      BY <3>1, <3>2
  <2>4. Removal(g, s, us, m + 1)
    <3>1. g = [i \in 0 .. m + 1 |-> g[i]]
      OBVIOUS
    <3> HIDE DEF g
    <3> QED
      BY <2>3, <3>1 DEF Removal
  <2> QED
    BY <2>4
<1> HIDE DEF S
<1>3. Nat \subseteq S
  BY <1>1, <1>2, NatInd
<1> QED
  BY <1>3 DEF S

LEMMA RemovalIs ==
  ASSUME NEW s, NEW us, Len(us) \in Nat
  PROVE  Removal(AfterRemoval(s, us), s, us, Len(us))
<1> DEFINE P(left) == Removal(left, s, us, Len(us))
<1>1. \E left : P(left)
  BY RemovalExists
<1>2. AfterRemoval(s, us) = CHOOSE left : P(left)
  BY DEF AfterRemoval, Removal, Spared
<1> QED
  BY <1>1, <1>2, Zenon

LEMMA SparedSome ==
  ASSUME NEW r, NEW u, r # {}
  PROVE  Spared(r, u) # {}
<1>1. ASSUME r \ {u} = {} PROVE r = {u}
  BY <1>1
<1>2. Cardinality({u}) = 1
  BY FS_Singleton
<1> QED
  BY <1>1, <1>2 DEF Spared

(***************************************************************************)
(* Whatever is asked for, remove_owners leaves an owner; it removes nobody  *)
(* that it was not asked to, and all that it was asked to unless it refused. *)
(***************************************************************************)
LEMMA RemovalKeeps ==
  ASSUME NEW s, s # {}, NEW us, NEW n \in Nat, NEW left, Removal(left, s, us, n)
  PROVE  \A i \in 0 .. n :
           /\ left[i] \subseteq s /\ left[i] # {}
           /\ \A u \in s : (\A j \in 1 .. i : us[j] # u) => u \in left[i]
           /\ (\A j \in 0 .. i - 1 : Cardinality(left[j]) > 1)
                => \A j \in 1 .. i : us[j] \notin left[i]
<1> DEFINE Kept(i) ==
             /\ left[i] \subseteq s /\ left[i] # {}
             /\ \A u \in s : (\A j \in 1 .. i : us[j] # u) => u \in left[i]
             /\ (\A j \in 0 .. i - 1 : Cardinality(left[j]) > 1)
                  => \A j \in 1 .. i : us[j] \notin left[i]
           S == {i \in Nat : i <= n => Kept(i)}
<1>1. \A i \in 0 .. n : left[i] = IF i = 0 THEN s ELSE Spared(left[i - 1], us[i])
  BY DEF Removal
<1>2. 0 \in S
  BY <1>1
<1>3. ASSUME NEW i \in Nat, i \in S PROVE i + 1 \in S
  <2> SUFFICES ASSUME i + 1 <= n PROVE Kept(i + 1)
    OBVIOUS
  <2>1. Kept(i)
    BY <1>3
  <2>2. left[i + 1] = Spared(left[i], us[i + 1])
    BY <1>1
  <2>3. left[i + 1] \subseteq s /\ left[i + 1] # {}
    BY <2>1, <2>2, SparedSome DEF Spared
  <2>4. ASSUME NEW u \in s, \A j \in 1 .. i + 1 : us[j] # u PROVE u \in left[i + 1]
    BY <2>1, <2>2, <2>4 DEF Spared
  <2>5. ASSUME \A j \in 0 .. (i + 1) - 1 : Cardinality(left[j]) > 1, NEW j \in 1 .. i + 1
        PROVE  us[j] \notin left[i + 1]
    <3>1. left[i + 1] = left[i] \ {us[i + 1]}
      BY <2>2, <2>5 DEF Spared
    <3>2. \A k \in 0 .. i - 1 : Cardinality(left[k]) > 1
      BY <2>5
    <3> QED
      BY <2>1, <3>1, <3>2
  <2> QED
    BY <2>3, <2>4, <2>5
<1> HIDE DEF S
<1>4. Nat \subseteq S
  BY <1>2, <1>3, NatInd
<1> QED
  BY <1>4 DEF S

\* The owners f of crates are typed, nobody is left without, and they are as
\* the answered requests st left them.
Agrees(f, st) ==
  \A a \in Claims : st[a] # "open" =>
    a.crate \in DOMAIN f /\ (st[a] = "in" <=> a.user \in f[a.crate])

Good(f, st) ==
  /\ DOMAIN f \subseteq Crates /\ f = [c \in DOMAIN f |-> f[c]]
  /\ \A c \in DOMAIN f : f[c] \subseteq Users /\ f[c] # {} /\ IsFiniteSet(f[c])
  /\ Agrees(f, st)

CratesInv ==
  /\ granted \subseteq Grants /\ claimed \subseteq Claims
  /\ settled \in [Claims -> {"in", "out", "open"}]
  /\ mem # NotLoaded => Good(mem.crate_owners, settled)
  /\ disk # Torn => Good(disk.crate_owners, settled)

AuthInv == OwnersInv /\ CratesInv

LEMMA LoadedGood ==
  ASSUME AuthInv, Loadable
  PROVE  Good(Loaded.crate_owners, settled)
  BY DEF AuthInv, CratesInv, Loadable, Loaded

\* A change of the owners of crates alone, as a record.
LEMMA CratesRecord ==
  ASSUME NEW m, Sound(m), NEW f
  PROVE  [m EXCEPT !.crate_owners = f].crate_owners = f
  BY DEF Sound

\* An operation that changes memory and writes the file, or not.
LEMMA WrittenGood ==
  ASSUME AuthInv, NEW m, Sound(m), Good(m.crate_owners, settled'), mem' = m,
         granted' \subseteq Grants, claimed' \subseteq Claims,
         settled' \in [Claims -> {"in", "out", "open"}],
         NEW outcome, sync_owners(m, outcome),
         outcome = "failed" /\ disk # Torn => Good(disk.crate_owners, settled')
  PROVE  CratesInv'
<1>1. OnDisk(m).crate_owners = m.crate_owners
  BY DEF Sound, OnDisk
<1>2. disk' # Torn => Good(disk'.crate_owners, settled')
  BY <1>1 DEF sync_owners
<1> QED
  BY <1>2 DEF CratesInv, Good, Agrees

\* Nothing but memory changes, and not its crates.
LEMMA KeptGood ==
  ASSUME AuthInv, UNCHANGED <<disk, granted, settled, claimed>>,
         mem' = NotLoaded \/ Good(mem'.crate_owners, settled)
  PROVE  CratesInv'
  BY DEF AuthInv, CratesInv, Good, Agrees

LEMMA RegisterGood ==
  ASSUME AuthInv, NEW u \in Users, NEW t \in Tokens, NEW x, Register(u, t, x)
  PROVE  CratesInv'
<1> DEFINE f == Insert(Loaded.token_owners, t, u)
<1>1. Loadable /\ Sound(Loaded) /\ Good(Loaded.crate_owners, settled)
  BY LoadedSound, LoadedGood DEF Register, AuthInv
<1>2. mem'.crate_owners = Loaded.crate_owners
  <2>1. mem' = [Loaded EXCEPT !.owner_tokens = KnownLogins(Loaded) \cup {u},
                              !.token_owners = f]
    BY DEF Register
  <2> HIDE DEF f
  <2> QED
    BY <1>1, <2>1, LoginsChanged
<1>3. /\ UNCHANGED <<settled, claimed>> /\ sync_owners(mem', x)
      /\ granted' \subseteq Grants
  BY DEF Register, AuthInv, CratesInv, Grants
<1>4. OnDisk(mem').crate_owners = mem'.crate_owners
  <2>1. mem' = [token_owners |-> f, crate_owners |-> Loaded.crate_owners,
                owner_tokens |-> KnownLogins(Loaded) \cup {u}]
    BY <1>1, LoginsChanged DEF Register
  <2> QED
    BY <2>1 DEF OnDisk
<1>5. disk' # Torn => Good(disk'.crate_owners, settled)
  BY <1>1, <1>2, <1>3, <1>4 DEF sync_owners, AuthInv, CratesInv
<1> QED
  BY <1>1, <1>2, <1>3, <1>5 DEF AuthInv, CratesInv, Good, Agrees

\* What a change of c's owners says of those it names, and of the others.
LEMMA SettleIs ==
  ASSUME CratesInv, NEW c \in Crates, NEW us, NEW x, NEW w \in {"in", "out"},
         Settle(c, us, x, w)
  PROVE  /\ settled' \in [Claims -> {"in", "out", "open"}]
         /\ \A a \in Claims :
              settled'[a] = IF a.crate = c /\ a.user \in Range(us)
                            THEN IF x = "failed" THEN "open" ELSE w
                            ELSE settled[a]
  BY DEF CratesInv, Settle

\* Owners f become g: those of c change to s, as the answer says of those named.
LEMMA CrateAgrees ==
  ASSUME CratesInv, NEW f, Good(f, settled), NEW c \in DOMAIN f,
         NEW s \in SUBSET Users, s # {}, IsFiniteSet(s),
         NEW us, NEW x, NEW w \in {"in", "out"},
         Settle(c, us, x, w),
         \A u \in Users : u \notin Range(us) => (u \in s <=> u \in f[c]),
         x # "failed" => \A u \in Range(us) : (w = "in" <=> u \in s)
  PROVE  Good([f EXCEPT ![c] = s], settled')
<1> DEFINE g == [f EXCEPT ![c] = s]
<1>1. /\ DOMAIN g = DOMAIN f /\ g[c] = s /\ \A k \in DOMAIN f : k # c => g[k] = f[k]
      /\ g = [k \in DOMAIN g |-> g[k]]
  BY DEF Good
<1> HIDE DEF g
<1>2. c \in Crates
  BY DEF Good
<1>3. ASSUME NEW a \in Claims, settled'[a] # "open"
      PROVE  a.crate \in DOMAIN g /\ (settled'[a] = "in" <=> a.user \in g[a.crate])
  <2>1. settled'[a] = IF a.crate = c /\ a.user \in Range(us)
                      THEN IF x = "failed" THEN "open" ELSE w
                      ELSE settled[a]
    BY <1>2, SettleIs
  <2>2. a.user \in Users
    BY DEF Claims
  <2>3. CASE a.crate = c /\ a.user \in Range(us)
    BY <1>1, <1>3, <2>1, <2>3
  <2>4. CASE ~(a.crate = c /\ a.user \in Range(us))
    <3>1. /\ settled'[a] = settled[a] /\ a.crate \in DOMAIN f
          /\ settled[a] = "in" <=> a.user \in f[a.crate]
      BY <1>3, <2>1, <2>4 DEF Good, Agrees
    <3> QED
      BY <1>1, <2>2, <2>4, <3>1
  <2> QED
    BY <2>3, <2>4
<1>4. Agrees(g, settled')
  BY <1>3 DEF Agrees
<1>5. \A k \in DOMAIN g : g[k] \subseteq Users /\ g[k] # {} /\ IsFiniteSet(g[k])
  BY <1>1 DEF Good
<1> QED
  BY <1>1, <1>4, <1>5 DEF Good, g

\* The file stays as it was when the change failed.
LEMMA FileAgrees ==
  ASSUME CratesInv, NEW f, Good(f, settled), NEW c \in Crates, NEW us, NEW x,
         NEW w \in {"in", "out"}, Settle(c, us, x, w), x = "failed"
  PROVE  Good(f, settled')
<1>1. \A a \in Claims : settled'[a] # "open" => settled'[a] = settled[a]
  BY SettleIs
<1>2. Agrees(f, settled')
  BY <1>1 DEF Good, Agrees
<1> QED
  BY <1>2 DEF Good

LEMMA ListsTyped ==
  ASSUME NEW us \in UserLists
  PROVE  /\ Len(us) \in Nat /\ DOMAIN us = 1 .. Len(us) /\ Range(us) \subseteq Users
         /\ Range(us) = {us[j] : j \in 1 .. Len(us)} /\ IsFiniteSet(Range(us))
<1>1. PICK n \in 1 .. MaxListed : us \in [1 .. n -> Users]
  BY DEF UserLists
<1>2. n \in Nat
  BY MaxListedAssumption
<1>3. us \in Seq(Users) /\ Len(us) = n
  BY <1>1, <1>2
<1>4. IsFiniteSet(Range(us))
  <2>1. IsFiniteSet(1 .. n)
    BY <1>2, FS_Interval
  <2>2. us \in Surjection(1 .. n, Range(us))
    BY <1>1 DEF Surjection, Range
  <2> QED
    BY <2>1, <2>2, FS_Surjection
<1> QED
  BY <1>2, <1>3, <1>4 DEF Range

LEMMA AddOwnersGood ==
  ASSUME AuthInv, NEW t, NEW c \in Crates, NEW us \in UserLists, NEW x \in Outcomes,
         AddOwners(t, c, us, x)
  PROVE  CratesInv'
<1> DEFINE f == Loaded.crate_owners
           s == f[c] \cup Range(us)
<1>1. /\ Sound(Loaded) /\ Good(f, settled) /\ c \in DOMAIN f /\ CratesInv
      /\ Settle(c, us, x, "in") /\ sync_owners(mem', x)
      /\ UNCHANGED <<granted, claimed>>
  BY LoadedSound, LoadedGood DEF AddOwners, AuthInv, Authorized
<1>2. mem' = [Loaded EXCEPT !.crate_owners = [f EXCEPT ![c] = s]]
  BY DEF AddOwners
<1>3. s \subseteq Users /\ s # {} /\ IsFiniteSet(s)
  BY <1>1, ListsTyped, FS_Union DEF Good
<1>4. Good([f EXCEPT ![c] = s], settled')
  BY <1>1, <1>3, CrateAgrees
<1> HIDE DEF s, f
<1>5. mem'.crate_owners = [f EXCEPT ![c] = s] /\ Sound(mem')
  <2>1. OwnersInv
    BY DEF AuthInv
  <2>2. Knows(Loaded, granted)
    BY <2>1, LoadedSound DEF AddOwners
  <2> QED
    BY <1>1, <1>2, <2>2, CratesRecord, CratesChanged
<1>6. settled' \in [Claims -> {"in", "out", "open"}]
  BY <1>1, SettleIs
<1>7. x = "failed" /\ disk # Torn => Good(disk.crate_owners, settled')
  BY <1>1, FileAgrees DEF CratesInv
<1> QED
  BY <1>1, <1>4, <1>5, <1>6, <1>7, WrittenGood DEF AuthInv, CratesInv

LEMMA RemoveOwnersGood ==
  ASSUME AuthInv, NEW t, NEW c \in Crates, NEW us \in UserLists, NEW x \in Outcomes,
         RemoveOwners(t, c, us, x)
  PROVE  CratesInv'
<1> DEFINE f == Loaded.crate_owners
           left == AfterRemoval(f[c], us)
           n == Len(us)
           refused == \E i \in 0 .. n - 1 : Cardinality(left[i]) <= 1
           s == left[n]
           y == IF refused THEN "failed" ELSE x
<1>1. /\ Sound(Loaded) /\ Good(f, settled) /\ c \in DOMAIN f /\ CratesInv
      /\ Settle(c, us, y, "out") /\ sync_owners(mem', x)
      /\ UNCHANGED granted /\ claimed' \subseteq claimed
  BY LoadedSound, LoadedGood DEF RemoveOwners, AuthInv, Authorized
<1>2. mem' = [Loaded EXCEPT !.crate_owners = [f EXCEPT ![c] = s]]
  BY DEF RemoveOwners
<1>3. f[c] \subseteq Users /\ f[c] # {} /\ IsFiniteSet(f[c])
  BY <1>1 DEF Good
<1>4. /\ n \in Nat /\ Range(us) = {us[j] : j \in 1 .. n} /\ Range(us) \subseteq Users
  BY ListsTyped
<1>5. Removal(left, f[c], us, n)
  BY <1>4, RemovalIs
<1> HIDE DEF f, n, left
<1>6. \A i \in 0 .. n :
           /\ left[i] \subseteq f[c] /\ left[i] # {}
           /\ \A u \in f[c] : (\A j \in 1 .. i : us[j] # u) => u \in left[i]
           /\ (\A j \in 0 .. i - 1 : Cardinality(left[j]) > 1)
                => \A j \in 1 .. i : us[j] \notin left[i]
  BY <1>3, <1>4, <1>5, RemovalKeeps
<1>7. n \in 0 .. n
  BY <1>4
<1>8. /\ s \subseteq f[c] /\ s # {} /\ IsFiniteSet(s)
      /\ \A u \in f[c] : u \notin Range(us) => u \in s
  BY <1>3, <1>4, <1>6, <1>7, FS_Subset
<1>9. ASSUME ~refused PROVE \A u \in Range(us) : u \notin s
  <2>1. ASSUME NEW j \in 0 .. n - 1 PROVE Cardinality(left[j]) > 1
    <3>1. IsFiniteSet(left[j])
      BY <1>3, <1>4, <1>6, FS_Subset
    <3>2. Cardinality(left[j]) \in Nat /\ ~(Cardinality(left[j]) <= 1)
      BY <1>9, <3>1, FS_CardinalityType
    <3> QED
      BY <3>2
  <2> QED
    BY <1>4, <1>6, <1>7, <2>1
<1> HIDE DEF s, refused
<1>10. Good([f EXCEPT ![c] = s], settled')
  <2>1. y # "failed" => \A u \in Range(us) : ("out" = "in" <=> u \in s)
    BY <1>9
  <2>2. \A u \in Users : u \notin Range(us) => (u \in s <=> u \in f[c])
    BY <1>8
  <2>3. s \in SUBSET Users
    BY <1>3, <1>8
  <2> HIDE DEF y
  <2> QED
    BY <1>1, <1>8, <2>1, <2>2, <2>3, CrateAgrees
<1>11. mem'.crate_owners = [f EXCEPT ![c] = s] /\ Sound(mem')
  <2>1. OwnersInv
    BY DEF AuthInv
  <2>2. Knows(Loaded, granted)
    BY <2>1, LoadedSound DEF RemoveOwners
  <2> QED
    BY <1>1, <1>2, <2>2, CratesRecord, CratesChanged
<1>12. settled' \in [Claims -> {"in", "out", "open"}]
  BY <1>1, SettleIs
<1>13. x = "failed" /\ disk # Torn => Good(disk.crate_owners, settled')
  <2>1. x = "failed" => y = "failed"
    OBVIOUS
  <2> HIDE DEF y
  <2> QED
    BY <1>1, <2>1, FileAgrees DEF CratesInv
<1> QED
  BY <1>1, <1>10, <1>11, <1>12, <1>13, WrittenGood DEF AuthInv, CratesInv

LEMMA PublishGood ==
  ASSUME AuthInv, NEW t \in Tokens, NEW c \in Crates, Publish(t, c)
  PROVE  CratesInv'
<1> DEFINE f == Loaded.crate_owners
           u == Loaded.token_owners[t]
           g == Insert(f, c, {u})
<1>1. /\ Sound(Loaded) /\ Good(f, settled) /\ CratesInv
      /\ u \in Users /\ UNCHANGED <<disk, granted, settled>>
  <2>1. Loadable /\ t \in DOMAIN Loaded.token_owners
    BY DEF Publish
  <2> QED
    BY <2>1, LoadedSound, LoadedGood DEF AuthInv, Sound, Range, Publish
<1>2. CASE c \in DOMAIN f
  BY <1>1, <1>2, KeptGood DEF Publish
<1>3. CASE c \notin DOMAIN f
  <2>1. /\ DOMAIN g = DOMAIN f \cup {c} /\ g[c] = {u}
        /\ \A k \in DOMAIN f : g[k] = f[k]
        /\ g = [k \in DOMAIN g |-> g[k]]
    BY <1>3 DEF Insert
  <2>2. mem' = [Loaded EXCEPT !.crate_owners = g]
    BY <1>3 DEF Publish
  <2>3. claimed' \subseteq Claims
    <3>1. claimed' = claimed \cup {[crate |-> c, user |-> u]}
      BY <1>3 DEF Publish
    <3> QED
      BY <1>1, <3>1 DEF CratesInv, Claims
  <2> HIDE DEF g, u
  <2>4. Agrees(g, settled)
    BY <1>1, <1>3, <2>1 DEF Good, Agrees
  <2> HIDE DEF f
  <2>5. Good(g, settled)
    <3>1. IsFiniteSet({u}) /\ {u} \subseteq Users /\ {u} # {}
      BY <1>1, FS_Singleton
    <3>2. DOMAIN g \subseteq Crates
      BY <1>1, <2>1 DEF Good
    <3>3. \A k \in DOMAIN g : g[k] \subseteq Users /\ g[k] # {} /\ IsFiniteSet(g[k])
      BY <1>1, <2>1, <3>1 DEF Good
    <3> QED
      BY <2>1, <2>4, <3>2, <3>3 DEF Good
  <2>6. mem'.crate_owners = g
    BY <1>1, <2>2, CratesRecord
  <2> QED
    BY <1>1, <2>3, <2>5, <2>6 DEF CratesInv, Good, Agrees
<1> QED
  BY <1>2, <1>3

LEMMA CratesStep == AuthInv /\ [Next]_vars => CratesInv'
<1> SUFFICES ASSUME AuthInv, [Next]_vars PROVE CratesInv'
  OBVIOUS
<1>1. ASSUME NEW u \in Users, RegisterForbidden(u) PROVE CratesInv'
  <2>1. Sound(Loaded) /\ Good(Loaded.crate_owners, settled)
    BY <1>1, LoadedSound, LoadedGood DEF RegisterForbidden, AuthInv
  <2>2. mem'.crate_owners = Loaded.crate_owners
    BY <1>1, <2>1 DEF RegisterForbidden, Sound
  <2> QED
    BY <1>1, <2>1, <2>2, KeptGood DEF RegisterForbidden
<1>2. CASE Look
  BY <1>2, LoadedGood, KeptGood DEF Look
<1>3. CASE Restart
  BY <1>3, KeptGood DEF Restart
<1>4. CASE UNCHANGED vars
  BY <1>4 DEF vars, AuthInv, CratesInv, Good, Agrees
<1> QED
  BY <1>1, <1>2, <1>3, <1>4, RegisterGood, AddOwnersGood, RemoveOwnersGood, PublishGood
     DEF Next, Registration, Requests, Change

LEMMA AuthInit == Init => AuthInv
<1> SUFFICES ASSUME Init PROVE CratesInv
  BY OwnersInit DEF AuthInv
<1>1. NoOwners.crate_owners = <<>>
  BY DEF NoOwners
<1>2. DOMAIN <<>> = {} /\ <<>> = [c \in DOMAIN <<>> |-> <<>>[c]]
  OBVIOUS
<1>3. settled \in [Claims -> {"in", "out", "open"}] /\ \A a \in Claims : settled[a] = "open"
  BY DEF Init
<1>4. Good(<<>>, settled)
  BY <1>2, <1>3 DEF Good, Agrees
<1> QED
  BY <1>1, <1>3, <1>4 DEF Init, CratesInv

LEMMA AuthAlways == Spec => []AuthInv
<1>1. AuthInv /\ [Next]_vars => AuthInv'
  BY OwnersStep, CratesStep DEF AuthInv
<1> QED
  BY <1>1, AuthInit, PTL DEF Spec

LEMMA SoundTyped ==
  ASSUME NEW m, Sound(m), Good(m.crate_owners, settled)
  PROVE  m \in Owners
<1> DEFINE f == m.token_owners
           g == m.crate_owners
<1>1. f \in [DOMAIN f -> Users]
  BY DEF Sound, Range
<1>2. f \in Maps(Tokens, Users)
  BY <1>1 DEF Sound, Maps
<1>3. g \in [DOMAIN g -> SUBSET Users]
  <2> HIDE DEF g
  <2>1. g = [c \in DOMAIN g |-> g[c]] /\ \A c \in DOMAIN g : g[c] \in SUBSET Users
    BY DEF Good, g
  <2> QED
    BY <2>1
<1>4. g \in Maps(Crates, SUBSET Users)
  BY <1>3 DEF Good, Maps
<1>5. m.owner_tokens \subseteq Users
  BY DEF Sound
<1>6. m = [token_owners |-> f, crate_owners |-> g, owner_tokens |-> m.owner_tokens]
  BY DEF Sound
<1> QED
  BY <1>2, <1>4, <1>5, <1>6 DEF Owners

LEMMA AuthTyped == AuthInv => TypeOK
  BY SoundTyped DEF AuthInv, OwnersInv, CratesInv, TypeOK

LEMMA OwnersKept == AuthInv => NoOwnerlessCrate /\ OwnersAsAnswered
<1>1. AuthInv => NoOwnerlessCrate
  BY DEF AuthInv, CratesInv, Good, NoOwnerlessCrate, Views
<1>2. AuthInv => OwnersAsAnswered
  BY LoadedGood DEF Good, Agrees, OwnersAsAnswered
<1> QED
  BY <1>1, <1>2

(***************************************************************************)
(* Memory and file keep their types.                                        *)
(***************************************************************************)
THEOREM AuthTypeCorrect == Spec => []TypeOK
  BY AuthAlways, AuthTyped, PTL

(***************************************************************************)
(* A crate that has an entry has an owner, for lists of removals of any     *)
(* length.                                                                  *)
(***************************************************************************)
THEOREM CratesHaveOwners == Spec => []NoOwnerlessCrate
  BY AuthAlways, OwnersKept, PTL

(***************************************************************************)
(* A change of owners that was answered with Ok stays in force, over        *)
(* failing writes, torn files and restarts.                                 *)
(***************************************************************************)
THEOREM ChangesStay == Spec => []OwnersAsAnswered
  BY AuthAlways, OwnersKept, PTL
-----------------------------------------------------------------------------

(***************************************************************************)
(* A length survives its little-endian form.                                *)
(***************************************************************************)
LEMMA LengthKept ==
  ASSUME NEW n \in Nat, Fits(n)
  PROVE  /\ to_le_bytes(n) \in Seq(Bytes)
         /\ Len(to_le_bytes(n)) = 4
         /\ from_le_bytes(to_le_bytes(n)) = n
<1>1. /\ n % 256 \in Bytes
      /\ (n \div 256) % 256 \in Bytes
      /\ (n \div 65536) % 256 \in Bytes
      /\ n \div 16777216 \in Bytes
  BY SMT DEF Bytes, Fits
<1>2. n = (n % 256) + 256 * ((n \div 256) % 256) + 65536 * ((n \div 65536) % 256)
            + 16777216 * (n \div 16777216)
  BY SMT
<1>3. QED
  BY <1>1, <1>2 DEF to_le_bytes, from_le_bytes

(***************************************************************************)
(* split_to undoes a concatenation.                                         *)
(***************************************************************************)
LEMMA SplitConcat ==
  ASSUME NEW S, NEW a \in Seq(S), NEW b \in Seq(S)
  PROVE  /\ Front(a \o b, Len(a)) = a
         /\ Rest(a \o b, Len(a)) = b
<1> DEFINE ab == a \o b
<1>1. /\ ab \in Seq(S)
      /\ Len(ab) = Len(a) + Len(b)
      /\ \A i \in 1 .. Len(a) + Len(b) :
           ab[i] = IF i <= Len(a) THEN a[i] ELSE b[i - Len(a)]
  BY ConcatProperties
<1>2. Len(a) \in Nat /\ Len(b) \in Nat
  OBVIOUS
<1>3. \A i \in 1 .. Len(ab) : ab[i] \in S
  BY <1>1
<1> HIDE DEF ab
<1>4. Front(ab, Len(a)) = a
  <2>1. \A i \in 1 .. Len(a) : ab[i] \in S
    BY <1>1, <1>2, <1>3
  <2>2. /\ SubSeq(ab, 1, Len(a)) \in Seq(S)
        /\ Len(SubSeq(ab, 1, Len(a))) = IF 1 <= Len(a) THEN Len(a) - 1 + 1 ELSE 0
        /\ \A i \in 1 .. Len(a) - 1 + 1 : SubSeq(ab, 1, Len(a))[i] = ab[1 + i - 1]
    BY <2>1, <1>2, SubSeqProperties
  <2>3. /\ Len(SubSeq(ab, 1, Len(a))) = Len(a)
        /\ \A i \in 1 .. Len(a) : SubSeq(ab, 1, Len(a))[i] = a[i]
    BY <2>2, <1>1, <1>2
  <2>4. QED
    BY <2>2, <2>3, SeqEqual DEF Front
<1>5. Rest(ab, Len(a)) = b
  <2>1. \A i \in Len(a) + 1 .. Len(ab) : ab[i] \in S
    BY <1>1, <1>2, <1>3
  <2> DEFINE m == Len(a) + 1
             r == SubSeq(ab, m, Len(ab))
  <2>2. m \in Int /\ Len(ab) \in Int
    BY <1>1, <1>2
  <2>3. /\ r \in Seq(S)
        /\ Len(r) = IF m <= Len(ab) THEN Len(ab) - m + 1 ELSE 0
        /\ \A i \in 1 .. Len(ab) - m + 1 : r[i] = ab[m + i - 1]
    BY <2>1, <2>2, SubSeqProperties
  <2>4. Len(ab) - m + 1 = Len(b) /\ (m <= Len(ab) <=> 1 <= Len(b))
    BY <1>1, <1>2
  <2> HIDE DEF r
  <2>5. Len(r) = Len(b)
    BY <2>3, <2>4, <1>2
  <2>6. \A i \in 1 .. Len(b) : r[i] = b[i]
    <3>1. TAKE i \in 1 .. Len(b)
    <3>2. r[i] = ab[m + i - 1]
      BY <2>3, <2>4
    <3>3. m + i - 1 = Len(a) + i /\ Len(a) + i \in 1 .. Len(a) + Len(b)
      BY <1>2
    <3>4. ab[Len(a) + i] = b[(Len(a) + i) - Len(a)]
      BY <1>1, <1>2, <3>3
    <3>5. QED
      BY <1>2, <3>2, <3>3, <3>4
  <2>7. QED
    BY <2>3, <2>5, <2>6, SeqEqual DEF Rest, r
<1>6. QED
  BY <1>4, <1>5 DEF ab

(***************************************************************************)
(* The parts of a frame are told apart, one split_to after the other.       *)
(***************************************************************************)
LEMMA PartsParsed ==
  ASSUME NEW S, NEW l1 \in Seq(S), NEW json \in Seq(S),
         NEW l2 \in Seq(S), NEW tarball \in Seq(S),
         Len(l1) = 4, from_le_bytes(l1) = Len(json),
         Len(l2) = 4, from_le_bytes(l2) = Len(tarball), tarball # <<>>
  PROVE  Parse(l1 \o (json \o (l2 \o tarball)))
           = [ok |-> TRUE, json |-> json, tarball |-> tarball]
<1> DEFINE after == l2 \o tarball
           afterLen == json \o after
<1>1. after \in Seq(S) /\ Len(after) = Len(l2) + Len(tarball)
  BY ConcatProperties
<1>2. Front(after, Len(l2)) = l2 /\ Rest(after, Len(l2)) = tarball
  BY SplitConcat
<1> HIDE DEF after
<1>3. afterLen \in Seq(S) /\ Len(afterLen) = Len(json) + Len(after)
  BY <1>1, ConcatProperties
<1>4. Front(afterLen, Len(json)) = json /\ Rest(afterLen, Len(json)) = after
  BY <1>1, SplitConcat
<1> HIDE DEF afterLen
<1>5. /\ Len(l1 \o afterLen) = Len(l1) + Len(afterLen)
      /\ Front(l1 \o afterLen, Len(l1)) = l1
      /\ Rest(l1 \o afterLen, Len(l1)) = afterLen
  <2>1. afterLen \in Seq(S)
    BY <1>3
  <2>2. Len(l1 \o afterLen) = Len(l1) + Len(afterLen)
    BY <2>1, ConcatProperties
  <2>3. QED
    BY <2>1, <2>2, SplitConcat
<1> DEFINE body == l1 \o afterLen
<1>6. /\ Front(body, 4) = l1 /\ Rest(body, 4) = afterLen
      /\ Len(body) = 4 + Len(afterLen)
  BY <1>5
<1>7. Len(json) \in Nat /\ Len(tarball) \in Nat /\ Len(tarball) > 0
  BY EmptySeq
<1>8. Front(tarball, Len(tarball)) = tarball
  BY SplitConcat, ConcatEmptySeq, EmptySeq
<1> HIDE DEF body
<1>9. /\ ~(Len(body) <= 4)
       /\ ~(Len(afterLen) < Len(json))
       /\ ~(Len(after) <= 4)
       /\ ~(Len(tarball) < Len(tarball))
  BY <1>1, <1>3, <1>6, <1>7
<1>10. Parse(body) = [ok |-> TRUE, json |-> json, tarball |-> tarball]
  BY <1>2, <1>4, <1>6, <1>8, <1>9 DEF Parse
<1>11. QED
  BY <1>10 DEF body, afterLen, after

(***************************************************************************)
(* The server takes out of a frame exactly the metadata and the tarball     *)
(* that the client put into it, unless the tarball is empty.                *)
(***************************************************************************)
THEOREM FrameIsParsed ==
  ASSUME NEW json \in Seq(Bytes), NEW tarball \in Seq(Bytes),
         Fits(Len(json)), Fits(Len(tarball)), tarball # <<>>
  PROVE  Parse(Frame(json, tarball))
           = [ok |-> TRUE, json |-> json, tarball |-> tarball]
<1>1. Len(json) \in Nat /\ Len(tarball) \in Nat
  OBVIOUS
<1>2. /\ to_le_bytes(Len(json)) \in Seq(Bytes)
      /\ Len(to_le_bytes(Len(json))) = 4
      /\ from_le_bytes(to_le_bytes(Len(json))) = Len(json)
  BY <1>1, LengthKept
<1>3. /\ to_le_bytes(Len(tarball)) \in Seq(Bytes)
      /\ Len(to_le_bytes(Len(tarball))) = 4
      /\ from_le_bytes(to_le_bytes(Len(tarball))) = Len(tarball)
  BY <1>1, LengthKept
<1>4. QED
  BY <1>2, <1>3, PartsParsed DEF Frame

(***************************************************************************)
(* AsSent: whatever crates are published, with whatever tarballs.           *)
(***************************************************************************)
THEOREM PublicationsAsSent == SessionSpec => []AsSent
<1>1. AsSent
  <2> SUFFICES ASSUME NEW c \in Crates, NEW b \in Tarballs \ {<<>>}
               PROVE  LET took == Parse(Frame(Doc[c], b))
                      IN took.ok /\ took.json = Doc[c] /\ took.tarball = b
    BY Zenon DEF AsSent
  <2>1. Doc[c] \in Seq(Bytes) /\ Fits(Len(Doc[c]))
    BY DocAssumption
  <2>2. b \in Seq(Bytes) /\ Fits(Len(b)) /\ b # <<>>
    BY TarballsAssumption
  <2>3. Parse(Frame(Doc[c], b)) = [ok |-> TRUE, json |-> Doc[c], tarball |-> b]
    BY <2>1, <2>2, FrameIsParsed
  <2>4. QED
    BY <2>3
<1>2. QED
  BY <1>1, PTL

-----------------------------------------------------------------------------
\* Whatever the client and the others do, to the owners it is an operation of
\* FsAuthProvider.
LEMMA AuthStep == OwnersInv /\ [SessionNext]_sessionVars => [Next]_vars
<1> SUFFICES ASSUME OwnersInv, [SessionNext]_sessionVars PROVE [Next]_vars
  OBVIOUS
<1> USE DEF authVars
<1>1. ASSUME NEW t, Checked(t) PROVE [Next]_vars
  BY <1>1 DEF Checked, Next, Requests
<1>2. ASSUME NEW c \in Crates, NEW b \in Tarballs, ClientPublishes(c, b)
      PROVE  [Next]_vars
  <2> DEFINE t == client.token
             took == Parse(Frame(Doc[c], b))
             docs == {d \in Crates : took.ok /\ Doc[d] = took.json}
  <2>1. \/ UNCHANGED vars
        \/ Look
        \/ /\ Loadable /\ t \in DOMAIN Loaded.token_owners
           /\ \E d \in docs : Publish(t, d)
    BY <1>2 DEF ClientPublishes, HandlePublish
  <2>2. docs \subseteq Crates
    OBVIOUS
  <2> HIDE DEF docs
  <2>3. Loadable => DOMAIN Loaded.token_owners \subseteq Tokens
    BY LoadedSound DEF Sound
  <2> QED
    BY <2>1, <2>2, <2>3 DEF Next, Requests
<1>3. ASSUME NEW u \in Users, NEW t \in Tokens, NEW o \in Outcomes, NEW lost \in BOOLEAN,
             ClientRegisters(u, t, o, lost)
      PROVE  [Next]_vars
  BY <1>3 DEF ClientRegisters, Next, Registration
<1>4. CASE UNCHANGED vars
  BY <1>4
<1>5. CASE OtherRequest
  BY <1>5 DEF OtherRequest, Next
<1>6. CASE ServerRestart
  BY <1>6 DEF ServerRestart, Next
<1>7. ASSUME NEW lost \in BOOLEAN, FromReqwestAgain(lost) PROVE [Next]_vars
  BY <1>1, <1>7 DEF FromReqwestAgain
<1>8. CASE ClientReads
  BY <1>1, <1>8 DEF ClientReads
<1> QED
  BY <1>2, <1>3, <1>4, <1>5, <1>6, <1>7, <1>8
     DEF SessionNext, ClientCall, FromReqwest, SetToken, Exit, sessionVars

(***************************************************************************)
(* With a client, the owners behave as FsAuth says, so that what holds of   *)
(* FsAuth holds here.                                                       *)
(***************************************************************************)
THEOREM SessionIsAuth == SessionSpec => Spec
<1>1. SessionInit => Init
  BY DEF SessionInit
<1>2. Spec => []OwnersInv
  BY Inductive
<1>3. Init => OwnersInv
  BY OwnersInit
<1>4. OwnersInv /\ [Next]_vars => OwnersInv'
  BY OwnersStep
<1> QED
  BY <1>1, <1>3, <1>4, AuthStep, PTL DEF SessionSpec, Spec

\* A token of the client was handed out, and it knows that auth is required.
ClientInv ==
  /\ config \in Configs /\ tightened \in BOOLEAN
  /\ client \in Clients =>
       /\ client.token \in Tokens /\ backend = "fs"
            => \E g \in granted : g.token = client.token
       /\ client.made /\ config.auth_required => client.auth_required \/ tightened

LEMMA GrantedGrow == [Next]_vars => granted \subseteq granted'
  BY DEF Next, Registration, Requests, Change, RegisterForbidden, Register, AddOwners,
     RemoveOwners, Publish, Look, Restart, vars

LEMMA ClientStep ==
  OwnersInv /\ ClientInv /\ [SessionNext]_sessionVars => ClientInv'
<1> SUFFICES ASSUME OwnersInv, ClientInv, [SessionNext]_sessionVars PROVE ClientInv'
  OBVIOUS
<1> DEFINE Handed(t, gs) == t \in Tokens /\ backend = "fs" => \E g \in gs : g.token = t
<1>1. granted \subseteq granted'
  BY AuthStep, GrantedGrow
<1>2. \A t : Handed(t, granted) => Handed(t, granted')
  BY <1>1
<1>3. \A t \in Known : Handed(t, granted)
  BY TokenAssumption DEF Known
<1>4. CASE UNCHANGED <<config, client, backend, tightened>>
  BY <1>2, <1>4 DEF ClientInv
<1>5. ASSUME NEW t, FromReqwest(t) PROVE ClientInv'
  <2>1. \/ UNCHANGED client
        \/ /\ client' = [token |-> t, auth_required |-> TRUE, made |-> FALSE]
        \/ /\ client' = [token |-> t, auth_required |-> FALSE, made |-> TRUE]
           /\ ~config.auth_required
    <3>1. config.auth_required => Guarded(NoToken) # "200"
      BY DEF Guarded
    <3> QED
      BY <1>5, <3>1 DEF FromReqwest, Reply
  <2>2. UNCHANGED <<config, backend, tightened>> /\ t \in Known
    BY <1>5 DEF FromReqwest
  <2> QED
    BY <1>2, <1>3, <1>4, <2>1, <2>2 DEF ClientInv
<1>6. ASSUME NEW lost \in BOOLEAN, FromReqwestAgain(lost) PROVE ClientInv'
  <2>1. UNCHANGED <<config, backend>> /\ client \in Clients
    BY <1>6 DEF FromReqwestAgain
  <2>2. CASE client' = NoClient /\ tightened' = FALSE
    BY <2>1, <2>2, NoClientAssumption DEF ClientInv, Clients
  <2>3. CASE /\ client' = [token |-> client.token, made |-> TRUE,
                           auth_required |-> client.auth_required \/ config.auth_required]
             /\ UNCHANGED tightened
    BY <1>2, <2>1, <2>3 DEF ClientInv
  <2> QED
    BY <1>6, <2>2, <2>3 DEF FromReqwestAgain, Reply
<1>7. ASSUME NEW u \in Users, NEW t \in Tokens, NEW o \in Outcomes, NEW lost \in BOOLEAN,
             ClientRegisters(u, t, o, lost)
      PROVE  ClientInv'
  <2> DEFINE k == TokenFrom(t, o, lost)
  <2>1. /\ UNCHANGED <<config, backend, tightened>> /\ client \in Clients
        /\ client' = [client EXCEPT !.token = k]
    BY <1>7 DEF ClientRegisters
  <2>2. Handed(k, granted')
    <3>1. CASE k = client.token
      BY <1>2, <2>1, <3>1 DEF ClientInv
    <3>2. CASE k # client.token
      <4>1. k = t /\ o # "failed"
        BY <3>2 DEF TokenFrom
      <4>2. backend = "fs" => [token |-> t, user |-> u] \in granted'
        BY <1>7, <4>1 DEF ClientRegisters, Register
      <4>3. [token |-> t, user |-> u].token = t
        OBVIOUS
      <4> QED
        BY <4>1, <4>2, <4>3
    <3> QED
      BY <3>1, <3>2
  <2> HIDE DEF k, Handed
  <2>3. /\ client'.token = k /\ client'.made = client.made
        /\ client'.auth_required = client.auth_required
    BY <2>1 DEF Clients
  <2> QED
    BY <2>1, <2>2, <2>3 DEF ClientInv, Handed
<1>8. ASSUME NEW t, SetToken(t) PROVE ClientInv'
  <2>1. /\ UNCHANGED <<config, backend, tightened>> /\ client \in Clients
        /\ client' = [client EXCEPT !.token = t] /\ t \in Known
    BY <1>8 DEF SetToken
  <2>2. /\ client'.token = t /\ client'.made = client.made
        /\ client'.auth_required = client.auth_required
    BY <2>1 DEF Clients
  <2>3. Handed(t, granted')
    BY <1>2, <1>3, <2>1
  <2> HIDE DEF Handed
  <2> QED
    BY <2>1, <2>2, <2>3 DEF ClientInv, Handed
<1>9. CASE Exit
  BY <1>9, NoClientAssumption DEF Exit, ClientInv, Clients
<1>10. CASE ServerRestart
  <2>1. /\ UNCHANGED <<client, backend>> /\ config' \in Configs
        /\ tightened' \in BOOLEAN
        /\ tightened \/ (client \in Clients /\ config'.auth_required /\ ~config.auth_required)
             <=> tightened'
    BY <1>10 DEF ServerRestart, ClientInv
  <2> HIDE DEF Handed
  <2> QED
    BY <1>2, <2>1 DEF ClientInv, Handed
<1> QED
  BY <1>4, <1>5, <1>6, <1>7, <1>8, <1>9, <1>10
     DEF SessionNext, ClientCall, ClientReads, ClientPublishes, OtherRequest, sessionVars

LEMMA ServedNow == OwnersInv /\ ClientInv /\ backend \in {"fs", "yes"} => TokenServes
<1> SUFFICES ASSUME OwnersInv, ClientInv, backend \in {"fs", "yes"},
                    client \in Clients, client.made, client.token \in Tokens
             PROVE  /\ TokenStatus(client.token) # "401"
                    /\ (tightened => client.auth_required) => Guarded(Attached) # "401"
  BY DEF TokenServes
<1>1. backend = "fs" /\ Loadable => client.token \in DOMAIN Loaded.token_owners
  BY LoadedSound DEF ClientInv, Knows
<1>2. TokenStatus(client.token) # "401"
  BY <1>1 DEF TokenStatus
<1>3. ASSUME tightened => client.auth_required PROVE Guarded(Attached) # "401"
  <2>1. CASE ~config.auth_required
    BY <2>1 DEF Guarded
  <2>2. CASE config.auth_required
    <3>1. Attached = client.token /\ client.token # NoToken
      BY <1>3, <2>2, TokenAssumption DEF Attached, ClientInv
    <3> QED
      BY <1>2, <2>2, <3>1 DEF Guarded
  <2> QED
    BY <2>1, <2>2
<1> QED
  BY <1>2, <1>3

(***************************************************************************)
(* A client with a token that was handed out is never told 401, over lost   *)
(* answers, failing writes and restarts, unless auth is required only since *)
(* it was made.                                                             *)
(***************************************************************************)
THEOREM TokensServe == SessionSpec => []TokenServes
<1>1. SessionInit => OwnersInv /\ ClientInv /\ backend \in {"fs", "yes"}
  BY OwnersInit, NoClientAssumption DEF SessionInit, ClientInv
<1>2. OwnersInv /\ [SessionNext]_sessionVars => OwnersInv'
  BY AuthStep, OwnersStep
<1>3. backend \in {"fs", "yes"} /\ [SessionNext]_sessionVars => (backend \in {"fs", "yes"})'
  BY DEF SessionNext, ClientCall, FromReqwest, FromReqwestAgain, ClientReads,
     ClientPublishes, ClientRegisters, SetToken, Exit, OtherRequest, ServerRestart,
     sessionVars
<1> QED
  BY <1>1, <1>2, <1>3, ClientStep, ServedNow, PTL DEF SessionSpec
-----------------------------------------------------------------------------
\* The types of what Session adds to FsAuth.
ClientTyped ==
  /\ config \in Configs
  /\ backend \in {"fs", "yes"}
  /\ client \in Clients \cup {NoClient}
  /\ tightened \in BOOLEAN

\* The backend that says yes has no owners.
YesHasNone == backend = "yes" => mem = NotLoaded /\ disk = NoOwners

LEMMA ClientTypedStep == ClientTyped /\ [SessionNext]_sessionVars => ClientTyped'
<1> SUFFICES ASSUME ClientTyped, [SessionNext]_sessionVars PROVE ClientTyped'
  OBVIOUS
<1> USE DEF ClientTyped
<1>a. ASSUME NEW k \in Tokens \cup {NoToken, WrongToken}, NEW b \in BOOLEAN, NEW m \in BOOLEAN
      PROVE  [token |-> k, auth_required |-> b, made |-> m] \in Clients
  BY DEF Clients
<1>b. ASSUME NEW k \in Tokens \cup {NoToken, WrongToken}, NEW r \in Clients
      PROVE  [r EXCEPT !.token = k] \in Clients
  BY DEF Clients
<1>1. ASSUME NEW t \in Tokens \cup {NoToken, WrongToken}, FromReqwest(t) \/ SetToken(t)
      PROVE  ClientTyped'
  <2>1. CASE FromReqwest(t)
    <3>1. /\ \/ UNCHANGED client
             \/ client' = [token |-> t, auth_required |-> FALSE, made |-> TRUE]
             \/ client' = [token |-> t, auth_required |-> TRUE, made |-> FALSE]
          /\ UNCHANGED <<config, backend, tightened>>
      BY <2>1 DEF FromReqwest, Reply
    <3>2. client' \in Clients \cup {NoClient}
      BY <1>a, <3>1
    <3> QED
      BY <3>1, <3>2
  <2>2. CASE SetToken(t)
    <3>1. /\ client \in Clients /\ client' = [client EXCEPT !.token = t]
          /\ UNCHANGED <<config, backend, tightened>>
      BY <2>2 DEF SetToken
    <3> QED
      BY <1>b, <3>1
  <2> QED
    BY <1>1, <2>1, <2>2
<1>2. ASSUME NEW lost \in BOOLEAN, FromReqwestAgain(lost) PROVE  ClientTyped'
  <2> DEFINE b == client.auth_required \/ config.auth_required
             k == client.token
  <2>1. client \in Clients /\ UNCHANGED <<config, backend>>
    BY <1>2 DEF FromReqwestAgain
  <2>2. k \in Tokens \cup {NoToken, WrongToken} /\ b \in BOOLEAN
    BY <2>1, Zenon DEF Clients, Configs
  <2>3. CASE client' = [token |-> k, auth_required |-> b, made |-> TRUE] /\ UNCHANGED tightened
    <3> HIDE DEF k, b
    <3>1. client' \in Clients
      BY <1>a, <2>2, <2>3
    <3> QED
      BY <2>1, <2>3, <3>1
  <2>4. CASE client' = NoClient /\ tightened' = FALSE
    BY <2>1, <2>4
  <2> QED
    BY <1>2, <2>3, <2>4, Zenon DEF FromReqwestAgain, Reply
<1>3. ASSUME NEW u \in Users, NEW t \in Tokens, NEW o \in Outcomes, NEW lost \in BOOLEAN,
             ClientRegisters(u, t, o, lost)
      PROVE  ClientTyped'
  <2> DEFINE k == TokenFrom(t, o, lost)
  <2>1. /\ client \in Clients /\ client' = [client EXCEPT !.token = k]
        /\ UNCHANGED <<config, backend, tightened>>
    BY <1>3 DEF ClientRegisters
  <2>2. k \in Tokens \cup {NoToken, WrongToken}
    <3>1. k = client.token \/ k = t
      BY DEF TokenFrom
    <3> QED
      BY <2>1, <3>1 DEF Clients
  <2> HIDE DEF k
  <2>3. client' \in Clients
    BY <1>b, <2>1, <2>2
  <2> QED
    BY <2>1, <2>3
<1>4. CASE ServerRestart
  <2>1. tightened' \in BOOLEAN
    BY <1>4 DEF ServerRestart
  <2> QED
    BY <1>4, <2>1 DEF ServerRestart
<1>5. CASE Exit
  BY <1>5 DEF Exit
<1>6. CASE UNCHANGED <<config, backend, client, tightened>>
  BY <1>6
<1> QED
  BY <1>1, <1>2, <1>3, <1>4, <1>5, <1>6
     DEF SessionNext, ClientCall, ClientReads, ClientPublishes, OtherRequest, sessionVars

LEMMA YesStep ==
  ClientTyped /\ YesHasNone /\ [SessionNext]_sessionVars => YesHasNone'
<1> SUFFICES ASSUME ClientTyped, YesHasNone, [SessionNext]_sessionVars,
                    backend' = "yes"
             PROVE  mem' = NotLoaded /\ disk' = NoOwners
  BY DEF YesHasNone
<1>1. UNCHANGED backend
  BY DEF SessionNext, ClientCall, FromReqwest, FromReqwestAgain, ClientReads,
     ClientPublishes, ClientRegisters, SetToken, Exit, OtherRequest, ServerRestart,
     sessionVars
<1>2. mem = NotLoaded /\ disk = NoOwners /\ backend = "yes"
  BY <1>1 DEF YesHasNone
<1>3. ServerRestart \/ UNCHANGED authVars
  BY <1>2 DEF SessionNext, ClientCall, FromReqwest, FromReqwestAgain, ClientReads,
     ClientPublishes, ClientRegisters, SetToken, Exit, OtherRequest, sessionVars,
     Checked, Consulted, HandlePublish
<1> QED
  BY <1>2, <1>3 DEF ServerRestart, Restart, authVars, vars

(***************************************************************************)
(* Client and server keep their types, and the backend that says yes never  *)
(* has any owners.                                                          *)
(***************************************************************************)
THEOREM SessionTypeCorrect == SessionSpec => []SessionTypeOK
<1>1. SessionInit => ClientTyped /\ YesHasNone
  BY DEF SessionInit, Init, ClientTyped, YesHasNone
<1>2. SessionSpec => []TypeOK
  BY SessionIsAuth, AuthTypeCorrect
<1>3. TypeOK /\ ClientTyped /\ YesHasNone => SessionTypeOK
  BY DEF ClientTyped, YesHasNone, SessionTypeOK
<1> QED
  BY <1>1, <1>2, <1>3, ClientTypedStep, YesStep, PTL DEF SessionSpec

(***************************************************************************)
(* What was proved of the owners holds with clients around.                 *)
(***************************************************************************)
THEOREM OwnersWithClients ==
  SessionSpec => [](UniqueLogins /\ TokensKept /\ NoOwnerlessCrate /\ OwnersAsAnswered)
  BY SessionIsAuth, LoginsUnique, TokensStay, CratesHaveOwners, ChangesStay, PTL
=============================================================================
