SPECIFICATION Spec
CONSTANTS
  Slots = 3
  Packets = {p1, p2}
  NoPacket = NoPacket
  OverflowMod = 4
INVARIANTS
  TypeOK
  Synced
PROPERTIES
  DropsOldest
CHECK_DEADLOCK TRUE
