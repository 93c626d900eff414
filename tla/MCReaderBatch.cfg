\* Two readers at a time, one truncation, two delegations, two lives interrupted.
CONSTANTS
  Readers = 2
  Drawings = {1, 2}
  Slots = 2
  MaxTotal = 1
  MaxConsecutive = 1
  Requests = {{1}}
  ModelCalls = 2
  MaxDelegations = 2
  MaxRestarts = 2
SPECIFICATION Spec
INVARIANTS
  AnswerIsComplete
  CancelledIsNoResult
  DeliveredIsCommitted
  TruncationsBounded
PROPERTIES
  DeliveryIsFinal
CHECK_DEADLOCK FALSE
