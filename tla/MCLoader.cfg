SPECIFICATION FairSpec
CONSTANTS
  Row <- MCRow
  MinYear <- MCMinYear
  Workers = {w1, w2}
  BatchSize = 2
  Inputs <- MCInputs
INVARIANTS
  TypeOK
  NoRowLost
  NoRowTwice
  ReadsWhatItShould
  NoSendOnClosed
  BooksBalance
  BoundedMemory
  ResultsNeverBlock
PROPERTIES
  ImplementsSequential
  Termination
