SPECIFICATION FairSpec
CONSTANTS
  Requests <- MCRequests
  Invalid <- MCInvalid
  MaxCrashes = 1
INVARIANTS
  AllOrNothing
  PartsAreFair
  SendersNeverBlock
PROPERTIES
  ImplementsTopN
  Termination
