CONSTANTS
  num_threads = 3
  TaskCount = 5
  CAPACITY = 4
  iterations = 2
SPECIFICATION Spec
INVARIANTS
  TypeOK
  EachTaskOnce
  RingsFit
  PendingExact
  StopMeansDone
PROPERTY
  DoneOrStolen
CHECK_DEADLOCK FALSE
