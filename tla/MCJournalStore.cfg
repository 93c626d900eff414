\* Two processes and four records, any of them torn, killed or lost.
CONSTANTS
  Process = {p1, p2}
  MaxRecords = 4
SPECIFICATION Spec
INVARIANTS
  Numbered
  MemoryIsFile
PROPERTIES
  RemovedBytesAreKept
  JournalSpec
CHECK_DEADLOCK FALSE
