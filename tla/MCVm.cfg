CONSTANTS
  Width = 3
  ByteWidth = 2
  Depth = 3
  Cells = 2
  JunkMax = 3
  Operands = {0, 1, 2, 3}
SPECIFICATION Spec
CHECK_DEADLOCK FALSE
INVARIANTS TypeOK SealedKeyRebuilt OverflowForeseen
