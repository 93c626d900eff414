\* Two calls, in one batch or in two, three roles, and three resumes.
CONSTANTS
  Call = {c1, c2}
  Roles = {"agent", "reader", "coordinator"}
  MaxRetries = 1
  RootToolCalls = 4
  MaxBatch = 2
  MaxReplies = 2
  MaxResumes = 3
  MaxEdits = 1
SPECIFICATION FairSpec
INVARIANTS
  EffectAtMostOnce
  ConversationIsWhole
  ConversationIsJournal
  WorksOnKnownFiles
PROPERTIES
  UnknownWriteIsFinal
  EveryProcessEnds
CHECK_DEADLOCK FALSE
