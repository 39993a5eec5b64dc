CONSTANTS
  N = 2
  MaxRuns = 2
  MaxPolls = 1
  MaxInterrupts = 2
  MaxRefusals = 1
  PkillMayFail = TRUE
SPECIFICATION Spec
INVARIANTS
  SingleInstance
  NoOrphans
  CleanStart
  GateAnsweredByOwn
  MeasuresFreshConfig
PROPERTIES
  RecordedAreKilled
  RemovedOnlyWhenPublished
CHECK_DEADLOCK FALSE
