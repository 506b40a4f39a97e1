------------------------- MODULE IndexFile_proofs -------------------------
(***************************************************************************)
(* What publishing and yanking do to one metadata file, for files of any    *)
(* length.                                                                  *)
(***************************************************************************)
EXTENDS IndexFile, TLAPS

\* With no version listed twice, rfind finds the one entry of a version.
LEMMA RfindUnique ==
  ASSUME NEW f \in Contents, NEW v \in Versions, UniqueIn(f), Lists(f, v)
  PROVE  /\ Rfind(f, v) \in DOMAIN f.versions
         /\ f.versions[Rfind(f, v)].vers = v
<1>1. PICK i \in DOMAIN f.versions : f.versions[i].vers = v
  BY DEF Lists
<1>2. IsLastOf(f, v, i)
  BY <1>1 DEF IsLastOf, UniqueIn, Contents
<1> QED
  BY <1>2 DEF Rfind, IsLastOf

LEMMA WithVersionContents ==
  ASSUME NEW f \in Contents, NEW v \in Versions, NEW c \in Cksums
  PROVE  WithVersion(f, v, c) \in Contents
  BY DEF WithVersion, Contents, CrateVersion

\* Publishing appends one entry and leaves the others alone.
LEMMA WithVersionEntries ==
  ASSUME NEW f \in Contents, NEW v \in Versions, NEW c \in Cksums
  PROVE  LET g == WithVersion(f, v, c)
             n == Len(f.versions)
         IN /\ DOMAIN g.versions = DOMAIN f.versions \cup {n + 1}
            /\ n + 1 \notin DOMAIN f.versions
            /\ \A i \in DOMAIN f.versions : g.versions[i] = f.versions[i]
            /\ g.versions[n + 1] = [vers |-> v, cksum |-> c, yanked |-> FALSE]
            /\ Len(g.versions) = n + 1
            /\ g.publish = v
  BY DEF WithVersion, Contents, CrateVersion

LEMMA WithVersionKeeps ==
  ASSUME NEW f \in Contents, NEW v \in Versions, NEW c \in Cksums
  PROVE  /\ UniqueIn(f) /\ ~Lists(f, v) => UniqueIn(WithVersion(f, v, c))
         /\ PublishLineIn(WithVersion(f, v, c))
         /\ Extends(f, WithVersion(f, v, c))
<1> DEFINE g == WithVersion(f, v, c)
           n == Len(f.versions)
<1>1. /\ DOMAIN g.versions = DOMAIN f.versions \cup {n + 1}
      /\ n + 1 \notin DOMAIN f.versions
      /\ \A i \in DOMAIN f.versions : g.versions[i] = f.versions[i]
      /\ g.versions[n + 1] = [vers |-> v, cksum |-> c, yanked |-> FALSE]
      /\ Len(g.versions) = n + 1
      /\ g.publish = v
  BY WithVersionEntries
<1>2. g \in Contents /\ n \in Nat
  BY WithVersionContents DEF Contents
<1> HIDE DEF g
<1>3. UniqueIn(f) /\ ~Lists(f, v) => UniqueIn(g)
  BY <1>1 DEF UniqueIn, Lists
<1>4. PublishLineIn(g)
  BY <1>1, <1>2 DEF PublishLineIn, Contents
<1>5. Extends(f, g)
  BY <1>1 DEF Extends
<1> QED
  BY <1>3, <1>4, <1>5 DEF g

\* Rewriting a yank flag, wherever it is, leaves a well-formed file.
LEMMA WithYankedContents ==
  ASSUME NEW f \in Contents, NEW v \in Versions, NEW b \in BOOLEAN
  PROVE  /\ WithYanked(f, v, b) \in Contents
         /\ DOMAIN WithYanked(f, v, b).versions = DOMAIN f.versions
         /\ Len(WithYanked(f, v, b).versions) = Len(f.versions)
<1> DEFINE i == Rfind(f, v)
           s == f.versions
           t == [s EXCEPT ![i].yanked = b]
<1>1. WithYanked(f, v, b) = [versions |-> t, publish |-> f.publish]
  BY DEF WithYanked
<1> HIDE DEF i
<1>2. s \in Seq(CrateVersion) /\ f.publish \in Versions \cup {NoVersion}
  BY DEF Contents
<1> HIDE DEF s
<1>3. DOMAIN s = 1 .. Len(s) /\ Len(s) \in Nat /\ s \in [1 .. Len(s) -> CrateVersion]
  BY <1>2
<1>4. DOMAIN t = DOMAIN s
  OBVIOUS
<1>5. ASSUME NEW r \in CrateVersion PROVE [r EXCEPT !.yanked = b] \in CrateVersion
  BY Zenon DEF CrateVersion
<1>6. t \in [1 .. Len(s) -> CrateVersion]
  BY <1>3, <1>5
<1> HIDE DEF t
<1>7. t \in Seq(CrateVersion) /\ Len(t) = Len(s)
  BY <1>3, <1>4, <1>6
<1> QED
  BY <1>1, <1>2, <1>4, <1>7 DEF Contents, s

\* Yanking changes nothing but one yank flag.
LEMMA WithYankedEntries ==
  ASSUME NEW f \in Contents, NEW v \in Versions, NEW b \in BOOLEAN,
         UniqueIn(f), Lists(f, v)
  PROVE  LET g == WithYanked(f, v, b)
         IN /\ g \in Contents
            /\ DOMAIN g.versions = DOMAIN f.versions
            /\ Len(g.versions) = Len(f.versions)
            /\ \A i \in DOMAIN f.versions :
                 /\ g.versions[i].vers = f.versions[i].vers
                 /\ g.versions[i].cksum = f.versions[i].cksum
            /\ g.publish = f.publish
<1> DEFINE i == Rfind(f, v)
           g == WithYanked(f, v, b)
           s == f.versions
           t == [s EXCEPT ![i].yanked = b]
<1>1. i \in DOMAIN s
  BY RfindUnique
<1>2. g.versions = t /\ g.publish = f.publish
  BY DEF WithYanked
<1>3. s \in Seq(CrateVersion)
  BY DEF Contents
<1>4. \A j \in DOMAIN s : t[j].vers = s[j].vers /\ t[j].cksum = s[j].cksum
  <2> HIDE DEF i, s
  <2> QED
    BY <1>1, <1>3 DEF CrateVersion
<1> HIDE DEF t
<1> QED
  BY <1>2, <1>4, WithYankedContents

LEMMA WithYankedKeeps ==
  ASSUME NEW f \in Contents, NEW v \in Versions, NEW b \in BOOLEAN,
         UniqueIn(f), Lists(f, v)
  PROVE  /\ WithYanked(f, v, b) \in Contents
         /\ UniqueIn(WithYanked(f, v, b))
         /\ PublishLineIn(f) => PublishLineIn(WithYanked(f, v, b))
         /\ Extends(f, WithYanked(f, v, b))
<1> DEFINE g == WithYanked(f, v, b)
<1>1. /\ g \in Contents
      /\ DOMAIN g.versions = DOMAIN f.versions
      /\ Len(g.versions) = Len(f.versions)
      /\ \A i \in DOMAIN f.versions :
           /\ g.versions[i].vers = f.versions[i].vers
           /\ g.versions[i].cksum = f.versions[i].cksum
      /\ g.publish = f.publish
  BY WithYankedEntries
<1> HIDE DEF g
<1>2. UniqueIn(g)
  BY <1>1 DEF UniqueIn
<1>3. Extends(f, g)
  BY <1>1 DEF Extends
<1>4. PublishLineIn(f) => PublishLineIn(g)
  <2>1. f.versions = <<>> <=> g.versions = <<>>
    BY <1>1 DEF Contents
  <2>2. f.versions # <<>> => Len(f.versions) \in DOMAIN f.versions
    BY DEF Contents
  <2> QED
    BY <1>1, <2>1, <2>2 DEF PublishLineIn
<1> QED
  BY <1>1, <1>2, <1>3, <1>4 DEF g

\* A file extends itself, and the empty file satisfies every requirement.
LEMMA NoFileFine == /\ NoFile \in Contents
                    /\ UniqueIn(NoFile) /\ PublishLineIn(NoFile)
  BY DEF NoFile, Contents, UniqueIn, PublishLineIn

LEMMA ExtendsItself == ASSUME NEW f PROVE Extends(f, f)
  BY DEF Extends
=============================================================================
