SPECIFICATION Spec
CONSTANTS
  TokenMod = 2
  WiiTokens <- OneWiiToken
  NoToken = NoToken
  RadioCap = 1
  MaxFaults = 1
  ProbeInterval = 1
  ProbeBackoff = 2
  DsHeartbeat = 2
  DsTimeout = 2
  Modes <- FlashcartOnly
  AnnounceInterval = 1
  WiiHeartbeat = 1
  WiiTimeout = 1
  PcStreams = TRUE
  Prompt = FALSE
INVARIANTS
  TypeOK
  GateInvariant
  ConnectedWasAccepted
PROPERTIES
  LockedSilence
  GateSpec
CHECK_DEADLOCK TRUE
