--------------------------- MODULE MCShopAccounts ---------------------------
(* Instances of ShopAccounts for TLC. *)
EXTENDS ShopAccounts

CONSTANTS ann, ben, loop, mini

Price == [p \in {"test", "large", "custom"} |-> IF p = "large" THEN 2 ELSE 1]
Volume == [p \in {"test", "large", "custom"} |-> IF p = "large" THEN 2 ELSE IF p = "custom" THEN 1 ELSE 0]
BenIsAgent == [u \in Users |-> IF u = ben THEN 1 ELSE 0]

=============================================================================
