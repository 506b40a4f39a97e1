SPECIFICATION SessionSpec
CONSTANTS
  Users = {u1, u2}
  Tokens = {t1, t2}
  Crates = {c1}
  MaxListed = 3
  CanTear = TRUE
  NotLoaded = NotLoaded
  Torn = Torn
  NoClient = NoClient
  NoToken = NoToken
  WrongToken = WrongToken
  Doc <- MCDoc
  Tarballs <- MCTarballs
  SizeLimit = 12
SYMMETRY Symmetry
INVARIANTS SessionTypeOK UniqueLogins NoOwnerlessCrate TokensKept OwnersAsAnswered AsSent TokenServes
