SPECIFICATION Spec
CONSTANTS
  Points <- Touches
  Rows = 12
  Options = 48
  MaskBits = 32
  Defaults <- DefaultOutputs
  KeyBoxes <- Keys
  SlideSpeed = 8
INVARIANTS
  TypeOK
  Consistent
PROPERTIES
  AppliedAsShown
  Unhurried
  SlideEnds
CHECK_DEADLOCK TRUE
