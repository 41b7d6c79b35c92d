SPECIFICATION Spec
CONSTANTS
  Saves = {s1, s2}
  Finds = {f1}
  Limits <- MCLimits
  MaxLimit = 2
  DefaultLimit = 1
  FirstBatch = 3
  Times = {0, 1}
INVARIANTS
  EmptyMeansNone
