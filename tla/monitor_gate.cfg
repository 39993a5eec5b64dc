SPECIFICATION FairSpec
CONSTANTS
  N = 1
  MaxSamples = 4
INVARIANTS OneDatabaseHolder PanicExplained MonitorCoversMeasurement DeltasOfOneLaunch
PROPERTY ScriptEnds
