SPECIFICATION BridgeSpec
CONSTANTS
  c1 = c1  c2 = c2
  Conns = {c1, c2}
  MaxUp = 2
  MaxDown = 1
  HighWater = 1
  LowWater = 0
SYMMETRY Symmetry
CHECK_DEADLOCK FALSE
INVARIANTS BridgeHoldsBack BridgeIsFaithful
