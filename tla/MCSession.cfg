CONSTANTS
  Workers = {w1, w2}
  Poster = poster
  MaxLives = 2
  Faults = {}
SPECIFICATION Spec
INVARIANTS
  TypeOK
  IoHoldsReference
PROPERTY
  SessionReturns
CHECK_DEADLOCK FALSE
