SPECIFICATION FairSpec
CONSTANTS
  Procs = {p1, p2, p3}
  Keys = {k1}
  Versions = {v1}
  Cksums = {c1}
  NoVersion = NoVersion
  NoOp = NoOp
  Remote = TRUE
  MaxLate = 1
INVARIANT UniqueVersions
PROPERTY RequestsEnd
