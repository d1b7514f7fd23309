CONSTANTS
  Workers = {w1, w2, w3}
  Poster = poster
  Senders = {b1}
  MaxLives = 2
  Faults = {"accept", "disconnect", "send"}
SPECIFICATION BSpec
SYMMETRY Symmetry
CONSTRAINT UntilOutlived
INVARIANTS
  BroadcastRefExact
  BroadcastFreedIsUnused
  BroadcastOneOwner
  BroadcastAsserts
  BroadcastGate
CHECK_DEADLOCK FALSE
