SPECIFICATION Spec
CONSTANTS
  NumCrates = 2
  NumVersions = 2
  Backends <- AllBackends
  ObjectLimit = 1
  DefaultLimit = 1
  MaxLimit = 2
  MaxPage = 1
  Queries <- FewQueries
  MaxLeft = 1
  Faults = TRUE
  None = None
INVARIANTS TypeOK NothingMissed ShownIsCurrent
