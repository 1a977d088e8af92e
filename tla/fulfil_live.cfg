SPECIFICATION FairSpec
CONSTANTS
  a = a  b = b  w1 = w1  w2 = w2
  Orders = {a, b}
  KindOf <- PlanAndRenew
  Workers = {w1, w2}
  NoOrder = NoOrder
  Vias = {"bot", "mini"}
  MaxPresses = 1
  MaxFaults = 0
  MaxLost = 0
  MaxCrashes = 0
PROPERTIES ClaimSettles
CHECK_DEADLOCK FALSE
