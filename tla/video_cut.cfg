SPECIFICATION Spec
CONSTANTS
  PixelCount = 4
  RGB <- TwoColours
  KeyframeEvery = 2
  FallbackPct = 60
  MaxRun = 3
  HeaderLen = 1
  PaletteLen = 6
  LengthMod = 100
  LinkMax = 6
  RingSlots = 1
  MaxFaults = 0
PROPERTIES
  LossRecovery
CHECK_DEADLOCK TRUE
