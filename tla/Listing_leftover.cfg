SPECIFICATION Spec
CONSTANTS
  NumCrates = 2
  NumVersions = 1
  Backends <- OnlyDirectory
  ObjectLimit = 2
  DefaultLimit = 1
  MaxLimit = 2
  MaxPage = 0
  Queries <- OnlyWholeList
  MaxLeft = 1
  Faults = FALSE
  None = None
INVARIANTS AllListed
