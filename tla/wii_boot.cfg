SPECIFICATION Spec
CONSTANTS
  home = home
  default = default
  Ips <- TwoIps
  DefaultIp = default
  HandWritten <- Files
  MaxSaved = 2
  HandLists <- Lists
  Hosts <- TwoIps
  SocketCap = 1
  Probes = 2
  Rtts <- QuickAndSlow
INVARIANTS
  TypeOK
  Remembered
  ListKept
  ChoiceHeld
  ChannelsAgree
PROPERTIES
  TalkerHears
CHECK_DEADLOCK TRUE
