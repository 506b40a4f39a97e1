SPECIFICATION Spec
CONSTANTS
  Users = {u1, u2}
  Tokens = {t1, t2}
  Crates = {c1}
  MaxListed = 2
  CanTear = FALSE
  NotLoaded = NotLoaded
  Torn = Torn
SYMMETRY Symmetry
INVARIANTS FirstPublisherOwns
