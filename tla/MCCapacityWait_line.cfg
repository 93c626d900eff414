\* Three tasks, two calls each, two seconds; no deadline needed.
CONSTANTS
  Task = {t1, t2, t3}
  Total = 2
  MaxHold = 2
  MaxCalls = 2
SPECIFICATION FairSpec
INVARIANTS
  SomebodyComes
  NoLostWakeup
PROPERTIES
  EveryWaiterLeaves
CHECK_DEADLOCK FALSE
