--------------------------- MODULE MCCardReceipt ---------------------------
(* A few receipts of one buyer for TLC.                                    *)
EXTENDS CardReceipt, TLC

CONSTANTS ann, c, d, p, more, least, plan

(* c: a charge in the bot; d: a charge that skips the choice of the method *)
(* (Small), or a second charge of the amount of c; p: a coded plan.        *)
TheBuyer == [r \in Requests |-> ann]
Kinds    == [r \in Requests |-> IF r = p THEN "plan_card" ELSE "charge"]
Same     == [r \in Requests |-> more]
Plans    == [r \in Requests |-> plan]
Small    == [r \in Requests |-> IF r = d THEN least ELSE more]
FromBot  == [r \in Requests |-> "bot"]
PlanMini == [r \in Requests |-> IF r = p THEN "miniapp" ELSE "bot"]
ChargeMini == [r \in Requests |-> IF r = d THEN "miniapp" ELSE "bot"]

=============================================================================
