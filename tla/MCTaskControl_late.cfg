\* A command against a completion.
CONSTANTS
  Id = {c1}
  None = None
  MaxCalls = 2
  MaxRuns = 1
SPECIFICATION Spec
PROPERTIES
  NoControlAfterCompletion
CHECK_DEADLOCK FALSE
