CONSTANTS
  size_ = 6
  SizeMod = 6
  HeaderSize = 2
  HandleSize = 1
  MoveSize = 1
  WelcomeSize = 2
  MaxPackets = 1
  Packets <- All
SPECIFICATION Spec
INVARIANT
  HandleAdded
CHECK_DEADLOCK FALSE
