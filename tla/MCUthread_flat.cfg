SPECIFICATION Spec
CONSTANTS
  k1 = k1
  k2 = k2
  k3 = k3
  s1 = s1
  KThread = {k1, k2, k3}
  MainK = k1
  MaxThreads = 3
  Parents <- OnlyMain
  Quota = 3
  Sem = {s1}
  MaxCount = 2
  MallocFails = FALSE
  NULL = NULL
  ExitAll = ExitAll
SYMMETRY WorkerSymmetry
INVARIANTS
  TeardownClean NoFault NoLockInUserCode NoLostWakeup IdleMeansBlocked
CHECK_DEADLOCK FALSE
