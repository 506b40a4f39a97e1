----------------------------- MODULE IndexFile -----------------------------
(***************************************************************************)
(* The contents of a crate's metadata file (freighter-fs-index): one        *)
(* CrateVersion per line in order of publication, and the Publish request   *)
(* of the newest version as the last line.  A missing file has no lines.    *)
(***************************************************************************)
EXTENDS Naturals, Sequences

CONSTANTS Versions,   \* version numbers
          Cksums,     \* SHA-256 sums of tarballs
          NoVersion   \* no Publish line

ASSUME NoVersionAssumption == NoVersion \notin Versions

\* What a CrateVersion keeps that the operations look at.
CrateVersion == [vers : Versions, cksum : Cksums, yanked : BOOLEAN]

Contents == [versions : Seq(CrateVersion), publish : Versions \cup {NoVersion}]

NoFile == [versions |-> <<>>, publish |-> NoVersion]

Lists(f, v) == \E i \in DOMAIN f.versions : f.versions[i].vers = v

\* The position rfind stops at: the last entry of the version.
IsLastOf(f, v, i) ==
  /\ i \in DOMAIN f.versions
  /\ f.versions[i].vers = v
  /\ \A j \in DOMAIN f.versions : f.versions[j].vers = v => j <= i

Rfind(f, v) == CHOOSE i \in DOMAIN f.versions : IsLastOf(f, v, i)

\* Mistake: the new version goes first.
WithVersion_Front(f, v, c) ==
  [versions |-> <<[vers |-> v, cksum |-> c, yanked |-> FALSE]>> \o f.versions,
   publish |-> v]

\* Mistake: the versions that were read are not written back.
WithVersion_Alone(f, v, c) ==
  [versions |-> <<[vers |-> v, cksum |-> c, yanked |-> FALSE]>>, publish |-> v]

\* versions.push(release), and the request as the last line.
WithVersion(f, v, c) ==
  [versions |-> Append(f.versions, [vers |-> v, cksum |-> c, yanked |-> FALSE]),
   publish |-> v]

\* Mistake: the Publish line is lost when the file is rewritten.
WithYanked_NoPublish(f, v, b) ==
  [versions |-> [f.versions EXCEPT ![Rfind(f, v)].yanked = b],
   publish |-> NoVersion]

\* release.yanked = yank; the Publish line is written back as it was.
WithYanked(f, v, b) ==
  [versions |-> [f.versions EXCEPT ![Rfind(f, v)].yanked = b],
   publish |-> f.publish]

\* No version is listed twice.
UniqueIn(f) ==
  \A i, j \in DOMAIN f.versions :
    f.versions[i].vers = f.versions[j].vers => i = j

\* The last line describes the newest version.
PublishLineIn(f) ==
  IF f.versions = <<>> THEN f.publish = NoVersion
  ELSE f.publish = f.versions[Len(f.versions)].vers

\* g keeps every entry of f in its place, except for the yank flags.
Extends(f, g) ==
  /\ DOMAIN f.versions \subseteq DOMAIN g.versions
  /\ \A i \in DOMAIN f.versions :
       /\ g.versions[i].vers = f.versions[i].vers
       /\ g.versions[i].cksum = f.versions[i].cksum
=============================================================================
