SPECIFICATION FairSpec
CONSTANTS
  NValidators = 2
  NObservers = 2
  MaxRuns = 2
  MaxDeaths = 1
  PkillMayFail = TRUE
  InitReplaces = TRUE
INVARIANTS TypeOK GoneAfterRun ForeignLoadExplained EveryShardFed FilesAgree ObserversDoNotValidate
PROPERTY EveryRunEnds
