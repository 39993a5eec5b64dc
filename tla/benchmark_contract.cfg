CONSTANTS
  N = 2
  MaxRuns = 2
  MaxPolls = 2
  MaxInterrupts = 2
  MaxRefusals = 0
  PkillMayFail = FALSE
SPECIFICATION FairSpec
PROPERTIES
  KeepsContract
  EveryRunEnds
CHECK_DEADLOCK FALSE
