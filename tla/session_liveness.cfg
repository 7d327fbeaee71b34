SPECIFICATION FairSpec
CONSTANTS
  TokenMod = 2
  WiiTokens <- OneWiiToken
  NoToken = NoToken
  RadioCap = 1
  MaxFaults = 1
  ProbeInterval = 1
  ProbeBackoff = 2
  DsHeartbeat = 1
  DsTimeout = 2
  Modes <- FlashcartOnly
  AnnounceInterval = 1
  WiiHeartbeat = 1
  WiiTimeout = 5
  PcStreams = FALSE
  Prompt = TRUE
PROPERTIES
  ArmedConnects
  DsNotices
  WiiNotices
CHECK_DEADLOCK TRUE
