------------------------- MODULE MCOrderFulfilment -------------------------
(* Two orders and two workers for TLC.                                     *)
EXTENDS OrderFulfilment, TLC

CONSTANTS a, b, w1, w2

PlanAndCustom == a :> "plan" @@ b :> "custom"
PlanAndRenew  == a :> "plan" @@ b :> "renew"
TwoPlans      == a :> "plan" @@ b :> "plan"

(* The workers are interchangeable.                                        *)
WorkerSymmetry == Permutations({w1, w2})

=============================================================================
