CONSTANTS
  Workers = {w1, w2}
  TaskCount = 2
  kQueueSize_ = 2
  kMaxBufferSize_ = 1
  fillBatch = 1
  batchSize = 2
  Rounds = 1
SPECIFICATION Spec
PROPERTY
  AllRoundsRun
CHECK_DEADLOCK FALSE
