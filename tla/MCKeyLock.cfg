CONSTANTS
  p1 = p1
  p2 = p2
  p3 = p3
  k1 = k1
  k2 = k2
  o1 = o1
  o2 = o2
  o3 = o3
  o4 = o4
  NoLock = NoLock
  Procs = {p1, p2, p3}
  Keys = {k1, k2}
  Objects = {o1, o2, o3, o4}
SPECIFICATION FairSpec
INVARIANTS TypeOK EntryStays CountsUsers UnlocksOwn
PROPERTIES ImplementsMutexes EveryLockReturns UnusedEntriesGo
