SPECIFICATION Spec
CONSTANTS
  Rows = 2
  Outputs <- TwoOutputs
  KeyOf <- TwoKeys
  Defaults <- TwoRows
  Typeable <- OneShared
  Lenses <- TwoLenses
  MaxSeq = 2
  NetCap = 2
  MaxFaults = 2
CONSTRAINT Followed
INVARIANTS
  TypeOK
  NoHangingKey
  InOrder
PROPERTIES
  KeysComeUp
  LensByKeyframe
CHECK_DEADLOCK TRUE
