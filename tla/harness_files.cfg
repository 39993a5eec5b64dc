SPECIFICATION FilesSpec
CONSTANTS
  N = 2
  MaxAccounts = 2
  MaxRuns = 3
  MaxEdits = 1
  Counts = {1, 2}
  MaxPublished = 4
  BakeShards = 2
  BakeAccounts = 2
  BakeHomes = 1
  MaxBakes = 3
INVARIANTS FreshSetupAgrees ReusedSetupAgrees HistoryKept SummaryIsOfLastRecord BakedKeysAreKnown DatabasesAreOfGenesis
CHECK_DEADLOCK FALSE
