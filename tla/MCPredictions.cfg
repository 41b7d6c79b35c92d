SPECIFICATION FairSpec
CONSTANTS
  Handlers = {h1, h2}
  p1 = p1
  p2 = p2
  Place = {p1, p2}
  Week = {k1, k2}
  Vector = {v1}
  NoFeatures = NoFeatures
  Invalid <- MCInvalid
INVARIANTS
  ScoreOfTheQuery
PROPERTIES
  EveryQueryAnswered
