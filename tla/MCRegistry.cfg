SPECIFICATION Spec
CONSTANTS
  N = 4
  Callers = {c1, c2}
  MaxNext = 14
INVARIANTS
  Balanced
  ErrorMeansNone
