SPECIFICATION FairSpec
CONSTANTS
  u1 = u1  u2 = u2
  poller = poller  button = button  m1 = m1
  Payments = {1, 2}
  Users = {u1}
  KindOf <- ChargeKind
  OriginOf <- ChargeOrigin
  OwnerOf <- OneOwner
  Coded = {}
  Refused = {1}
  BotTasks = {poller}
  Poller <- poller
  MiniThreads = {m1}
  CodeUses = 1
  CapPerUser = 1
  PollLimit = 1
  FaultPoints = {"audit"}
  MaxFaults = 1
  MaxCrashes = 1
PROPERTIES PaidIsHonoured
CHECK_DEADLOCK FALSE
