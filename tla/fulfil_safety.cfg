SPECIFICATION Spec
CONSTANTS
  a = a  b = b  w1 = w1  w2 = w2
  Orders = {a, b}
  KindOf <- PlanAndCustom
  Workers = {w1, w2}
  NoOrder = NoOrder
  Vias = {"bot", "mini"}
  MaxPresses = 1
  MaxFaults = 1
  MaxLost = 1
  MaxCrashes = 1
SYMMETRY WorkerSymmetry
INVARIANTS TypeOK FulfilledDelivered NoServiceUnpaid ReceiptDecidedOnce LostOnlyIfDisturbed MadeOncePerPress
PROPERTIES PlanLifecycle
CHECK_DEADLOCK FALSE
