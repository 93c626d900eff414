\* Tokens, seconds and calls; two tasks, one restart.
CONSTANTS
  Task = {t1, t2}
  Root = root
  NoTask = none
  Unknown = unknown
  Dim <- BasicDim
  Limit <- BasicLimit
  Estimate <- BasicEstimate
  Receipt <- BasicReceipt
  MaxSeconds = 1
  MaxRequests = 2
  MaxRestarts = 1
SYMMETRY Symmetry
SPECIFICATION Spec
INVARIANTS
  CommittedWithinLimit
  ProjectionsAgree
  ReleasedNeverSent
  NoForgottenHold
  AnswerFullyCharged
PROPERTIES
  EscrowSpec
  SettlementIsFinal
  NoAdmissionBeforeBooking
CHECK_DEADLOCK FALSE
