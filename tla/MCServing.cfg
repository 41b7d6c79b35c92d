SPECIFICATION FairSpec
CONSTANTS
  Handlers = {h1, h2}
  Keys = {k1}
  N = 2
  Versions = 2
  TTL = 2
  Delay = 1
INVARIANTS
  TypeOK
PROPERTIES
  StaleBounded
  FreshEventually
