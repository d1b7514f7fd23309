CONSTANTS
  size_ = 6
  SizeMod = 6
  HeaderSize = 2
  HandleSize = 1
  MoveSize = 1
  WelcomeSize = 2
  MaxPackets = 3
  Packets <- Some
SPECIFICATION Spec
INVARIANTS
  TypeOK
  Framing
  RingsInside
  RelayedWhole
  NothingStranded
PROPERTIES
  ReadIsQueue
  WriteIsQueue
CHECK_DEADLOCK FALSE
