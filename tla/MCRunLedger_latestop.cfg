\* The time stop of a late request is lost by a resume.
CONSTANTS
  Task = {t1}
  Root = root
  NoTask = none
  Unknown = unknown
  Dim <- MoneyDim
  Limit <- MoneyLimit
  Estimate <- MoneyEstimate
  Receipt <- MoneyReceipt
  MaxSeconds = 1
  MaxRequests = 2
  MaxRestarts = 1
SPECIFICATION Spec
INVARIANTS
  LateStopIsKept
CHECK_DEADLOCK FALSE
