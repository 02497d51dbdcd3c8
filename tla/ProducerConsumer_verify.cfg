SPECIFICATION FairSpec
CONSTANTS
  Producers = {p1, p2, p3}
  Consumers = {c1, c2}
  Slots = 2
  Done = 2
INVARIANTS
  VerifySucceeds
CHECK_DEADLOCK FALSE
