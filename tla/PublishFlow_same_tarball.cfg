SPECIFICATION FlowSpec
CONSTANTS
  Procs = {p1, p2}
  Keys = {k1}
  Versions = {v1, v2}
  Cksums = {c1, c2}
  NoVersion = NoVersion
  NoOp = NoOp
  Remote = FALSE
  MaxLate = 0
  SharedTarballs = TRUE
  OldPath = OldPath
SYMMETRY Symmetry
INVARIANTS ListedIsAvailable
