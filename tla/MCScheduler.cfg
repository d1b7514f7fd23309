CONSTANTS
  Workers = {w1, w2, w3}
  TaskCount = 3
  kQueueSize_ = 2
  kMaxBufferSize_ = 1
  fillBatch = 1
  batchSize = 2
  Rounds = 2
SPECIFICATION Spec
INVARIANTS
  TypeOK
  EachTaskOnce
  RingsFit
  PendingExact
  StopMeansDone
PROPERTIES
  AllDone
  DoneOrStolen
CHECK_DEADLOCK FALSE
