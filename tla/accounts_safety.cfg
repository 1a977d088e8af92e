SPECIFICATION Spec
CONSTANTS
  ann = ann  ben = ben  loop = loop  mini = mini
  Users = {ann, ben}
  Nobody = Nobody
  Inviters = {ann}
  Loop = loop
  Threads = {mini}
  PlanPrice <- Price
  PlanVolume <- Volume
  CodePlans = {"large"}
  CodeOff = 1
  AgentOff <- BenIsAgent
  CodeUses = 1
  MiniMinimum = 2
  LockAmount = 1
  Rewards = {1, 2}
  Minimums = {1, 2}
  MaxCharged = 1
  MaxOrders = 2
  MaxSwitches = 1
  MaxTrouble = 1
INVARIANTS TypeOK BooksBalance NonePendingWhenOff FreeTestOnce CacheTrue
CHECK_DEADLOCK FALSE
