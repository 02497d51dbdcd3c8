SPECIFICATION Spec
CONSTANTS
  k1 = k1
  k2 = k2
  k3 = k3
  s1 = s1
  KThread = {k1, k2}
  MainK = k1
  MaxThreads = 3
  Parents <- Everyone
  Quota = 4
  Sem = {s1}
  MaxCount = 1
  MallocFails = TRUE
  NULL = NULL
  ExitAll = ExitAll
INVARIANTS
  TypeOK TcbsLockOwned SemLockOwned NotDuplicated NotLost NoDanglingUse StateMatchesPlace AssertsHold JoinJustified
PROPERTIES
  ThreadsSpec
CHECK_DEADLOCK FALSE
