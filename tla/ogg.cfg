SPECIFICATION Spec
CONSTANTS
  Full = 2
  MaxLength = 4
  MaxPackets = 4
  MaxItems = 3
INVARIANTS YieldsAll YieldsBeforeCut
CHECK_DEADLOCK FALSE
