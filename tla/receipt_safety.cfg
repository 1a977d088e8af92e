SPECIFICATION Spec
CONSTANTS
  ann = ann  c = c  d = d  p = p  more = more  least = least  plan = plan
  Requests = {c, d, p}
  Buyers = {ann}
  BuyerOf <- TheBuyer
  KindOf <- Kinds
  AmountOf <- Small
  PlanOf <- Plans
  ViaOf <- PlanMini
  Direct = {d}
  Coded = {p}
  NoRequest = NoRequest
  MaxCustom = 1
  MaxTrouble = 1
  MaxTogether = 1
INVARIANTS TypeOK ChargedOnce RecordedOrdered OneReceiptEach ToldLateRightly CodeAfterAcceptance SubmittedHandled
CHECK_DEADLOCK FALSE
