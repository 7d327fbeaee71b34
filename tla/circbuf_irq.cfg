SPECIFICATION IrqSpec
CONSTANTS
  Slots = 3
  MaxPushes = 9
INVARIANTS
  IrqTypeOK
  NoPhantom
PROPERTIES
  DrainEnds
CHECK_DEADLOCK FALSE
