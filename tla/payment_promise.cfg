SPECIFICATION EitherSpec
CONSTANTS
  u1 = u1  u2 = u2
  poller = poller  button = button  m1 = m1
  Payments = {1, 2}
  Users = {u1}
  KindOf <- TwoPlans
  OriginOf <- CodedOrigin
  OwnerOf <- OneOwner
  Coded = {1, 2}
  Refused = {}
  BotTasks = {poller, button}
  Poller <- poller
  MiniThreads = {m1}
  CodeUses = 2
  CapPerUser = 1
  PollLimit = 2
  FaultPoints = {"make", "audit", "mark", "discount", "referral", "release"}
  MaxFaults = 1
  MaxCrashes = 1
INVARIANTS RedeemedForOrder CodeConserved
PROPERTIES PromiseSpec
CHECK_DEADLOCK FALSE
