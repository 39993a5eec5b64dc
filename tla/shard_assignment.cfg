SPECIFICATION Spec
CONSTANTS
  N = 16
  Assignments <- MCAssignments
  MaxPolls = 2
  MaxEpochs = 2
INVARIANTS PredictionIsSorted GeneratorsMatch
