SPECIFICATION Spec
CONSTANTS
  ReportFrames = 2
  DropThreshold = 2
  ClearThreshold = 3
  InitialFps = 12
  SpoofsHeard = 0
  MaxRejects = 1
  MaxCount = 3
  MaxFaults = 1
INVARIANTS
  TypeOK
PROPERTIES
  StepUpEarned
  OverflowSlows
  Recovers
CHECK_DEADLOCK TRUE
