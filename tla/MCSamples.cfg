SPECIFICATION Spec
CONSTANTS
  Slot = {1, 2, 3, 4}
  YearOf <- MCYearOf
  Hash <- MCHash
  Calls <- MCCalls
INVARIANTS
  TrainBeforeTest
  NoLookahead
  NothingDropped
  ResplitIsProper
