CONSTANTS
  Workers = {w1, w2}
  Poster = poster
  MaxLives = 1
  Faults = {"accept"}
SPECIFICATION Spec
PROPERTY
  SessionReturns
CHECK_DEADLOCK FALSE
