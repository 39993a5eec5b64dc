SPECIFICATION FairSpec
CONSTANTS
  NShards = 2
  NAccounts = 2
  MaxSubmitted = 5
  MaxUnknown = 1
  MaxTroubles = 1
INVARIANTS SubmittedOnce EvenLoad
PROPERTY KeepsFeeding
