CONSTANTS
  Workers = {w1}
  Main = main
  Slots = {s1, s2, s3}
  kAcceptCount = 2
  MaxNest = 1
  AcceptExMayFail = FALSE
  NoSlot = noSlot
SPECIFICATION Spec
INVARIANT
  ServerStaysUp
CHECK_DEADLOCK FALSE
