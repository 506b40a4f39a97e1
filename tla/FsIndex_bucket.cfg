SPECIFICATION Spec
CONSTANTS
  Procs = {p1, p2, p3}
  Keys = {k1}
  Versions = {v1, v2}
  Cksums = {c1, c2}
  NoVersion = NoVersion
  NoOp = NoOp
  Remote = TRUE
  MaxLate = 0
SYMMETRY Symmetry
INVARIANTS TypeOK SnapshotCurrent PublishLine AckedStay
PROPERTIES EntriesImmutable ReadersUndisturbed ImplementsAtomicIndex
