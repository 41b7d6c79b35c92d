SPECIFICATION Spec
CONSTANTS
  Tables <- MCTables
  Weights <- MCWeights
  MaxRows = 5
  Cap = 3
  Hold = 4
  Limits = {0, 1, 2, 3}
INVARIANTS
  LosesOnlyBuffers
  LoadedIsPrefix
  EvaluatorsAgree
  AucIsAShareOfPairs
  ReportsWhatWasPrepared
