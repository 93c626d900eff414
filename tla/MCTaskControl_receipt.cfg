\* A completion interrupted before its receipt.
CONSTANTS
  Id = {c1}
  None = None
  MaxCalls = 2
  MaxRuns = 3
SPECIFICATION Spec
INVARIANTS
  ReceiptOfCompletion
CHECK_DEADLOCK FALSE
