SPECIFICATION Spec
CONSTANTS
  ReportFrames = 3
  DropThreshold = 10
  ClearThreshold = 2
  InitialFps = 30
  SpoofsHeard = 4
  MaxRejects = 0
  MaxCount = 15
  MaxFaults = 0
PROPERTIES
  Recovers
CHECK_DEADLOCK TRUE
