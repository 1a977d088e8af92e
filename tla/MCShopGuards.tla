----------------------------- MODULE MCShopGuards -----------------------------
(* Instances of ShopGuards for TLC. *)
EXTENDS ShopGuards

CONSTANTS order, receipt  \* endpoints

Limits == [b \in {order, receipt} |-> IF b = order THEN 2 ELSE 1]

\* presses alone, presses beside a request, and requests alone
Mixed ==
  {[press |-> 3, request |-> 0, restart |-> 1], [press |-> 2, request |-> 1, restart |-> 1],
   [press |-> 0, request |-> 4, restart |-> 0]}

Same == Permutations(Threads)

=============================================================================
