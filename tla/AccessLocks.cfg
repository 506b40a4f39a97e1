SPECIFICATION FairSpec
CONSTANTS
  Procs = {p1, p2, p3}
  Keys = {k1, k2}
  Locks = {l1, l2, l3}
  NoLock = NoLock
  NoKey = NoKey
INVARIANTS TypeOK MutualExclusion NoLeakedEntry
PROPERTIES LiveEntryKept WaiterServed ImplementsFairKeyedLock
