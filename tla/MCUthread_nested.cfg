SPECIFICATION Spec
CONSTANTS
  k1 = k1
  k2 = k2
  k3 = k3
  s1 = s1
  KThread = {k1}
  MainK = k1
  MaxThreads = 3
  Parents <- Everyone
  Quota = 3
  Sem = {}
  MaxCount = 0
  MallocFails = FALSE
  NULL = NULL
  ExitAll = ExitAll
INVARIANTS
  JoinAssertHolds
CHECK_DEADLOCK FALSE
