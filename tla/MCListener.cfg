CONSTANTS
  Workers = {w1}
  Main = main
  Slots = {s1, s2, s3}
  kAcceptCount = 2
  MaxNest = 1
  AcceptExMayFail = TRUE
  NoSlot = noSlot
SPECIFICATION Spec
INVARIANTS
  TypeOK
  AcceptAccounting
  AcceptBound
  RefillBound
PROPERTY
  NeverDeaf
CHECK_DEADLOCK FALSE
