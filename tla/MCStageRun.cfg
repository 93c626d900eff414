\* The stages up to mep, two draws each.
CONSTANTS
  LastStage = "mep"
  PerStageDraws = 2
  ReviewStages = {"reading"}
  Verdict = {"pass", "unrouted", "reading", "correction", "mep"}
  ReadingRunner = TRUE
  MaxCommands = 4
SPECIFICATION FairSpec
INVARIANTS
  AcceptedIsFresh
  CorrectionReadsGatedViews
  OnlyApprovedGeometryGoesOn
PROPERTIES
  EveryCommandEnds
CHECK_DEADLOCK FALSE
