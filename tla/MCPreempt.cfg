SPECIFICATION FairSpec
CONSTANTS
  MaxK = 2
  NumT = 2
  Quanta = {0, 5, 1000000000}
  NONE = NONE
  ExitAll = ExitAll
INVARIANTS
  TypeOK SignalHeldOff HandlerSafe PromptPreemption
PROPERTIES
  ReadyRuns CallGoesOn
CHECK_DEADLOCK FALSE
