SPECIFICATION Spec
CONSTANTS
  Plans = {p1, p2}
  Messages = {m1}
  Threads = {t1, t2}
  order = order
  receipt = receipt
  Endpoints = {order, receipt}
  Wallet = {order}
  MaxCalls <- Limits
  Period = 2
  Cooldown = 3
  TtlBot = 3
  TtlMini = 2
  Second = 2
  MaxRecent = 1
  Never = Never
  MaxTime = 7
  Loads <- Mixed
  MaxWait = 1
SYMMETRY Same
INVARIANTS TypeOK PressesApart RateKept
CHECK_DEADLOCK FALSE
