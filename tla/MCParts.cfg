SPECIFICATION PartsSpec
CONSTANTS
  n1 = n1
  n2 = n2
  n3 = n3
  a = a
  b = b
  k1 = k1
  k2 = k2
  k3 = k3
  Node = {n1, n2, n3}
  Item = {a, b}
  Head0 = Head0
  NULL = NULL
  NBits = 9
  Byte = 3
  KThread = {k1, k2, k3}
  Tcb = {a, b}
  MaxLen = 2
  Nil = Nil
  MaxKthreads = 4
  Requests = {1, 2, 4, 5}
  PthreadFails = TRUE
  NONE = NONE
INVARIANTS
  ListSound NoMemoryError
  NotEmptyCounts DequeueFinds
  StartTypeOK InfoFound ArgsAlive AllStarted AllCollected
PROPERTIES
  ItemListSpec TidSetSpec FifoSpec
  ClaimServed StartupEnds
