-------------------------- MODULE MCOnlinePayment --------------------------
(* Small shops for TLC.                                                    *)
EXTENDS OnlinePayment, TLC

CONSTANTS u1, u2, poller, button, m1

(* 1: a plan bought with a code in the Mini App; 2: a charge of the wallet *)
(* from the bot.                                                           *)
ShopKind   == 1 :> "plan" @@ 2 :> "wallet_charge"
ShopOrigin == 1 :> "miniapp" @@ 2 :> "bot"

(* 1: a charge of the wallet from the Mini App; 2: a custom service from   *)
(* the bot.                                                                *)
ChargeKind   == 1 :> "wallet_charge" @@ 2 :> "custom"
ChargeOrigin == 1 :> "miniapp" @@ 2 :> "bot"

(* A plan from the Mini App and one from the bot, priced with one code.    *)
TwoPlans    == [p \in Payments |-> "plan"]
CodedOrigin == 1 :> "miniapp" @@ 2 :> "bot"

OneOwner   == [p \in Payments |-> u1]
TwoOwners  == 1 :> u1 @@ 2 :> u2

=============================================================================
