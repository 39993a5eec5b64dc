SPECIFICATION FairSpec
CONSTANTS
  N = 2
  MinHeight = 1
  Spread = 1
  Timeout = 2
  Interval = 1
  Stabilization = 3
  MaxHead = 3
INVARIANTS OpensWithoutLaggard RefusedForCause DeadlineKept
PROPERTY GateEnds
