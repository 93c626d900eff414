\* Two commands, two requests, one restart.
CONSTANTS
  Id = {c1, c2}
  None = None
  MaxCalls = 2
  MaxRuns = 2
SPECIFICATION FairSpec
INVARIANTS
  AckedOnceInOrder
  PausedIsQuiet
  MessageGetsATurn
  InteractionIntact
PROPERTIES
  EveryCommandIsRead
CHECK_DEADLOCK FALSE
