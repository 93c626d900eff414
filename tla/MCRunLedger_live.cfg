\* Every task halts, with a money limit: one call per task, one second for the
\* run, one restart.
CONSTANTS
  Task = {t1, t2}
  Root = root
  NoTask = none
  Unknown = unknown
  Dim <- MoneyDim
  Limit <- LiveLimit
  Estimate <- MoneyEstimate
  Receipt <- MoneyReceipt
  MaxSeconds = 1
  MaxRequests = 2
  MaxRestarts = 1
SPECIFICATION FairSpec
PROPERTIES
  EveryTaskHalts
CHECK_DEADLOCK FALSE
