SPECIFICATION FairSpec
CONSTANTS
  Calls <- MCCalls
  NumCPU = 2
INVARIANTS
  PartialsNeverBlock
PROPERTIES
  ImplementsDescent
  Termination
