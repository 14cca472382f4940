SPECIFICATION MCSpec
CONSTANTS
  Items <- LockItems
  NumLocks <- LockCounts
  Threads = {"t1", "t2", "t3", "t4"}
  ProcOf <- ThreadProcs
  NspaceOf <- ProcNspaces
  NoOne = "none"
  Parts = {"hash table", "lists", "hash store", "dstore", "lock"}
  NoProc = NoProc  NoVal = NoVal
  k1 = k1  k2 = k2  va = va  vb = vb  vc = vc
INVARIANTS ContainersSound JobDataArrives StoreReadable
PROPERTIES IsRWLock LockServes
CHECK_DEADLOCK FALSE
