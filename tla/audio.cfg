SPECIFICATION AudioSpec
CONSTANTS
  PcmCap = 3
  ChunkMin = 2
  ChunkMax = 2
  InRate = 2
  OutRate = 1
  HalfSize = 3
  PayloadMax = 2
  Heaps = 1
  Slots = 2
CONSTRAINT PcEndsTheRace
INVARIANTS
  AudioTypeOK
  HeardInOrder
  FramesWhole
CHECK_DEADLOCK TRUE
