--------------------------- MODULE PaymentPromise ---------------------------
(***************************************************************************)
(* What the shop promises for a payment link of the gateway: nobody is     *)
(* served who has not paid, whoever pays is served once, and a link that   *)
(* was withdrawn is not served.  The promise can lapse: each time the shop *)
(* forgets that a paid link is in hand, the link may be served once more,  *)
(* even after it was withdrawn, and never more often than that.            *)
(***************************************************************************)
EXTENDS Naturals

CONSTANT Payments

VARIABLES
  link,    \* "none", "open" or "withdrawn"
  paid,    \* the gateway has the money
  served,  \* how often the buyer got what the link was for
  lapses   \* how often the shop forgot that it was in hand

vars == <<link, paid, served, lapses>>

TypeOK ==
  /\ link \in [Payments -> {"none", "open", "withdrawn"}]
  /\ paid \in [Payments -> BOOLEAN]
  /\ served \in [Payments -> Nat]
  /\ lapses \in [Payments -> Nat]

Init ==
  /\ link = [p \in Payments |-> "none"]
  /\ paid = [p \in Payments |-> FALSE]
  /\ served = [p \in Payments |-> 0]
  /\ lapses = [p \in Payments |-> 0]

(* How often a link may be served.                                         *)
Owed(p) == lapses[p] + (IF link[p] = "open" THEN 1 ELSE 0)

Offer(p) ==
  /\ link[p] = "none"
  /\ link' = [link EXCEPT ![p] = "open"]
  /\ UNCHANGED <<paid, served, lapses>>

Collect(p) ==
  /\ link[p] # "none" /\ ~paid[p]
  /\ paid' = [paid EXCEPT ![p] = TRUE]
  /\ UNCHANGED <<link, served, lapses>>

Serve(p) ==
  /\ paid[p] /\ served[p] < Owed(p)
  /\ served' = [served EXCEPT ![p] = @ + 1]
  /\ UNCHANGED <<link, paid, lapses>>

Withdraw(p) ==
  /\ link[p] = "open" /\ served[p] <= lapses[p]
  /\ link' = [link EXCEPT ![p] = "withdrawn"]
  /\ UNCHANGED <<paid, served, lapses>>

(* Several links lapse at once when the shop starts again.                 *)
Lapse(ps) ==
  /\ \A p \in ps : paid[p]
  /\ lapses' = [p \in Payments |-> IF p \in ps THEN lapses[p] + 1 ELSE lapses[p]]
  /\ UNCHANGED <<link, paid, served>>

Next ==
  \/ \E p \in Payments : Offer(p) \/ Collect(p) \/ Serve(p) \/ Withdraw(p)
  \/ \E ps \in SUBSET Payments : Lapse(ps)

Spec == Init /\ [][Next]_vars

(* What follows from the promise alone.                                    *)
Kept ==
  \A p \in Payments :
    /\ served[p] <= Owed(p)
    /\ served[p] > 0 => paid[p]
=============================================================================
