SPECIFICATION Spec
CONSTANTS
  u1 = u1  u2 = u2
  poller = poller  button = button  m1 = m1
  Payments = {1, 2}
  Users = {u1, u2}
  KindOf <- ShopKind
  OriginOf <- ShopOrigin
  OwnerOf <- TwoOwners
  Coded = {1}
  Refused = {}
  BotTasks = {poller, button}
  Poller <- poller
  MiniThreads = {m1}
  CodeUses = 1
  CapPerUser = 0
  PollLimit = 2
  FaultPoints = {"make", "audit", "mark", "discount", "referral", "release"}
  MaxFaults = 2
  MaxCrashes = 1
INVARIANTS TypeOK HonouredOnlyIfPaid Accounted OneWinner
CHECK_DEADLOCK FALSE
