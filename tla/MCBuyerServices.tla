--------------------------- MODULE MCBuyerServices ---------------------------
(* Instances of BuyerServices for TLC. *)
EXTENDS BuyerServices, TLC

Handlers == Permutations(Tasks)

=============================================================================
