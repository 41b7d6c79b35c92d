SPECIFICATION CellSpec
CONSTANTS
  MaxDistrict = 2
  MaxArea = 2
  Inputs <- MCInputs
INVARIANTS
  ServedAsTrained
