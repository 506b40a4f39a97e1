SPECIFICATION Spec
CONSTANTS
  k1 = k1
  k2 = k2
  w1 = w1
  w2 = w2
  v1 = v1
  v2 = v2
  c1 = c1
  Procs = {p1, p2}
  Keys = {k1, k2}
  Words = {w1, w2}
  Versions = {v1, v2}
  Cksums = {c1}
  NoVersion = NoVersion
  NoOp = NoOp
  Publications <- FewPublications
  Faults = FALSE
SYMMETRY Symmetry
INVARIANTS ConflictReported
