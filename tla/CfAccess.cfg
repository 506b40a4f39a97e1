SPECIFICATION FairSpec
CONSTANTS
  k1 = k1
  k2 = k2
  Procs = {p1, p2}
  Kids = {k1, k2}
  NoOp = NoOp
  Requests <- FewRequests
  RefreshEvery = 2
  MaxTime = 4
INVARIANTS TypeOK KeysAsServed
PROPERTIES FetchesApart KeysRecent RequestsEnd
