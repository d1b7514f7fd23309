CONSTANTS
  N = 3
  stateCount = 3
  GenMod = 2
  Scanned = {1}
SPECIFICATION SSpec
INVARIANTS
  STypeOK
  Consistent
PROPERTIES
  ScanExact
  PushRetiresHandle
  CallsReturn
  ImplementsSlotTable
