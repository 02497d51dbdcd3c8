SPECIFICATION TestsSpec
CONSTANTS
  k1 = k1
  p1 = p1
  p2 = p2
  p3 = p3
  c1 = c1
  c2 = c2
  KThread = {k1}
  MainK = k1
  MaxThreads = 4
  Parents = {0, 1, 2, 3}
  Quota = 4
  Sem = {"sem", "sem1", "spare"}
  MaxCount = 2
  MallocFails = FALSE
  NULL = NULL
  ExitAll = ExitAll
  Producers = {p1, p2, p3}
  Consumers = {c1, c2}
  Slots = 2
  Done = 2
INVARIANTS
  NothingLost
PROPERTIES
  TestsEnd
CHECK_DEADLOCK FALSE
