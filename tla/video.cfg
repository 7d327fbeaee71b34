SPECIFICATION Spec
CONSTANTS
  PixelCount = 4
  RGB <- TwoColours
  KeyframeEvery = 2
  FallbackPct = 60
  MaxRun = 3
  HeaderLen = 1
  PaletteLen = 1
  LengthMod = 8
  LinkMax = 7
  RingSlots = 1
  MaxFaults = 1
INVARIANTS
  TypeOK
  InSync
CHECK_DEADLOCK TRUE
