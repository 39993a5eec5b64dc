CONSTANTS
  N = 1
  MaxRuns = 1
  MaxPolls = 1
  MaxInterrupts = 0
  MaxRefusals = 0
  PkillMayFail = TRUE
SPECIFICATION Spec
INVARIANT FailureLeavesRecord
CHECK_DEADLOCK FALSE
