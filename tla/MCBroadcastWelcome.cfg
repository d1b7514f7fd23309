CONSTANTS
  Workers = {w1}
  Poster = poster
  Senders = {b1}
  MaxLives = 2
  Faults = {}
SPECIFICATION BSpec
INVARIANT
  WelcomeGoesOut
CHECK_DEADLOCK FALSE
