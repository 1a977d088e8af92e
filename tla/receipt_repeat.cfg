SPECIFICATION Spec
CONSTANTS
  ann = ann  c = c  d = d  p = p  more = more  least = least  plan = plan
  Requests = {c, d}
  Buyers = {ann}
  BuyerOf <- TheBuyer
  KindOf <- Kinds
  AmountOf <- Same
  PlanOf <- Plans
  ViaOf <- ChargeMini
  Direct = {}
  Coded = {}
  NoRequest = NoRequest
  MaxCustom = 0
  MaxTrouble = 0
  MaxTogether = 1
INVARIANTS ToldDoneRightly
CHECK_DEADLOCK FALSE
