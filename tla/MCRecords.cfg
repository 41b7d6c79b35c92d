SPECIFICATION Spec
CONSTANTS
  Base = 32
  Width = 2
  Milli = 2
  Names <- MCNames
  Saves <- MCSaves
  Finds = {f1}
  Limits <- MCLimits
  MaxLimit = 2
  DefaultLimit = 1
  FirstBatch = 3
  Inputs <- MCInputs
  Zero = 0
  Now = 8
  MaxMessage = 400
INVARIANTS
  RoundTrip
  RecentHistory
PROPERTIES
  ImplementsHistory
