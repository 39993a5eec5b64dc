SPECIFICATION FairSpec
CONSTANTS
  Shard = {s1, s2}
  Labels = 2
  Moved = {s1}
  MaxRetries = 1
  MinHead = 1
  MaxHead = 2
  MaxTx = 1
INVARIANTS NeverOverstates WindowCounted AcceptedMeansLive
PROPERTY MeasurementEnds
