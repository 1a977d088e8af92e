---------------------------- MODULE CardReceipt ----------------------------
(***************************************************************************)
(* Payments by card.  The buyer is shown a card number and has thirty      *)
(* minutes (an invoice) to send a photo of the receipt; the admin gets the *)
(* photo with buttons, and a list of all receipts that wait; he accepts,   *)
(* refuses, or charges another amount.  The charge of the wallet and the   *)
(* purchase of a plan are modelled; the receipts of custom orders are rows *)
(* of custom_orders and belong to OrderFulfilment.                         *)
(*                                                                         *)
(* Handlers of the bot are coroutines of one loop and interleave only at   *)
(* an await; uploads of the Mini App run in Flask threads.  An invoice and *)
(* a receipt are named by the request of the buyer they belong to.         *)
(***************************************************************************)
EXTENDS Naturals, FiniteSets, Sequences

CONSTANTS
  Requests,     \* what the buyers ask for: a charge or a plan, paid by card
  Buyers,
  BuyerOf,      \* [Requests -> Buyers]
  KindOf,       \* [Requests -> {"charge", "plan_card"}]: column kind
  AmountOf,     \* [Requests -> amounts]: column amount
  PlanOf,       \* [Requests -> plans]: column plan_key, of no use for a charge
  ViaOf,        \* [Requests -> {"bot", "miniapp"}]
  Direct,       \* charges in the bot that skip the choice of the method
  Coded,        \* plans whose price used a discount code
  NoRequest,
  MaxCustom,    \* bound: amounts the admin charges by hand
  MaxTrouble,   \* bound: calls that raise, and deaths of the process, together
  MaxTogether   \* bound: all of these, before the last step that uses one

ASSUME ReceiptAssumption ==
  /\ NoRequest \notin Requests
  /\ BuyerOf \in [Requests -> Buyers]
  /\ KindOf \in [Requests -> {"charge", "plan_card"}]
  /\ ViaOf \in [Requests -> {"bot", "miniapp"}]
  /\ Direct \subseteq {r \in Requests : KindOf[r] = "charge" /\ ViaOf[r] = "bot"}
  /\ Coded \subseteq {r \in Requests : KindOf[r] = "plan_card"}
  /\ MaxCustom \in Nat /\ MaxTrouble \in Nat /\ MaxTogether \in Nat

VARIABLES
  invoice,     \* column status of the invoice, "none" and "deleted" included
  late,        \* expires_at has passed
  conv,        \* conversation of each buyer with the bot
  at,          \* where the handler of the photo or upload of a request is
  used,        \* the invoice that handler has consumed
  rec,         \* column status of the row of pending_receipts
  filed,       \* the rows in the order of their ids
  message,     \* receipts whose message shows its buttons in the admin's chat
  done,        \* processed_admin_actions
  job,         \* the decision of the admin under way
  closing,     \* receipts decided in the chat whose message is to be edited
  target,      \* charge_target: the buyer whose amount he is asked for
  taken,       \* times a receipt was charged or its purchase recorded
  orders,      \* orders made by accepting it
  redeemed,    \* uses of the discount code of the row
  byHand,      \* history: amounts the admin has charged under a receipt
  answered,    \* history: receipts whose button has started a decision
  hurt,        \* history: requests that met an exception or a crash
  spent        \* how much of each bound is used

shop == <<invoice, late, rec, filed>>
buyer == <<conv, at, used>>
admin == <<message, done, job, closing, target, answered>>
books == <<taken, byHand, orders, redeemed>>
vars == <<shop, buyer, admin, books, hurt, spent>>

Conv == [wait : {"no", "charge", "plan_card"}, charge : Requests \cup {NoRequest},
         inv : Requests \cup {NoRequest}, plan : Requests \cup {NoRequest}]
NoConv == [wait |-> "no", charge |-> NoRequest, inv |-> NoRequest, plan |-> NoRequest]

(* processed_admin_actions holds the callback data: an acceptance names    *)
(* the buyer and the amount or plan, a refusal the buyer only.             *)
Key(act, r) ==
  [act |-> act, kind |-> KindOf[r], buyer |-> BuyerOf[r],
   what |-> IF act = "accept" THEN {<<PlanOf[r], AmountOf[r]>>} ELSE {}]
Keys == {Key(act, r) : act \in {"accept", "refuse"}, r \in Requests}

Job == [at : {"idle", "take", "code", "order", "resolve"},
        act : {"accept", "refuse"}, req : Requests \cup {NoRequest},
        row : Requests \cup {NoRequest}, from : {"chat", "list"}]
NoJob == [at |-> "idle", act |-> "accept", req |-> NoRequest, row |-> NoRequest, from |-> "chat"]

TypeOK ==
  /\ invoice \in [Requests -> {"none", "pending", "submitted", "deleted"}]
  /\ late \in [Requests -> BOOLEAN]
  /\ conv \in [Buyers -> Conv]
  /\ at \in [Requests -> {"idle", "file", "drop", "send", "undo", "clear"}]
  /\ used \in [Requests -> Requests \cup {NoRequest}]
  /\ rec \in [Requests -> {"none", "pending", "resolved", "deleted"}]
  /\ filed \in Seq(Requests)
  /\ message \subseteq Requests
  /\ done \subseteq Keys
  /\ job \in Job /\ closing \subseteq Requests
  /\ target \in Buyers \cup {NoRequest}
  /\ taken \in [Requests -> Nat] /\ orders \in [Requests -> Nat]
  /\ redeemed \in [Requests -> Nat] /\ byHand \in [Requests -> Nat]
  /\ answered \subseteq Requests /\ hurt \subseteq Requests
  /\ spent \in [{"custom", "trouble"} -> Nat]

Init ==
  /\ invoice = [r \in Requests |-> "none"]
  /\ late = [r \in Requests |-> FALSE]
  /\ conv = [u \in Buyers |-> NoConv]
  /\ at = [r \in Requests |-> "idle"]
  /\ used = [r \in Requests |-> NoRequest]
  /\ rec = [r \in Requests |-> "none"] /\ filed = <<>>
  /\ message = {} /\ done = {}
  /\ job = NoJob /\ closing = {} /\ target = NoRequest
  /\ taken = [r \in Requests |-> 0] /\ orders = [r \in Requests |-> 0]
  /\ redeemed = [r \in Requests |-> 0] /\ byHand = [r \in Requests |-> 0]
  /\ answered = {} /\ hurt = {}
  /\ spent = [b \in {"custom", "trouble"} |-> 0]

-----------------------------------------------------------------------------
Bound(b) == IF b = "custom" THEN MaxCustom ELSE MaxTrouble
CanSpend(b) ==
  spent[b] < Bound(b) /\ spent["custom"] + spent["trouble"] < MaxTogether
Spend(b) == CanSpend(b) /\ spent' = [spent EXCEPT ![b] = @ + 1]
SpendBoth ==
  /\ \A b \in {"custom", "trouble"} : CanSpend(b)
  /\ spent' = [b \in {"custom", "trouble"} |-> spent[b] + 1]

(* A handler of the bot is in its stretch without an await.                *)
Stretch ==
  \/ job # NoJob
  \/ \E r \in Requests : ViaOf[r] = "bot" /\ at[r] \in {"file", "drop"}

GoesTo(r, s) == at' = [at EXCEPT ![r] = s]
JobGoes(s) == [job EXCEPT !.at = s]

(* The newest waiting row of a kind and buyer, and, for an acceptance, of  *)
(* the same amount: ORDER BY id DESC LIMIT 1.                              *)
Matching(act, r) ==
  {q \in Requests : /\ rec[q] = "pending"
                    /\ KindOf[q] = KindOf[r] /\ BuyerOf[q] = BuyerOf[r]
                    /\ act = "accept" => AmountOf[q] = AmountOf[r]}
IsNewest(q, S) ==
  q \in S /\ \A i, j \in 1..Len(filed) : filed[i] = q /\ filed[j] \in S => j <= i
Newest(S) ==
  IF \E q \in S : IsNewest(q, S) THEN CHOOSE q \in S : IsNewest(q, S) ELSE NoRequest

-----------------------------------------------------------------------------
(* The buyer.                                                              *)

(* What the conversation is told with a card: the invoice and what it is   *)
(* for; the amount only; and that the invoice is given up.                 *)
ChargeCardTold(k, r) == [k EXCEPT !.wait = "charge", !.charge = r, !.inv = r]
PlanCardTold(k, r) == [k EXCEPT !.wait = "plan_card", !.plan = r]
CardTold(k, r) ==
  IF KindOf[r] = "charge" THEN ChargeCardTold(k, r) ELSE PlanCardTold(k, r)
AmountTold(k, r) == [k EXCEPT !.wait = "charge", !.charge = r]
ChargeInvoiceDropped(k) == [k EXCEPT !.wait = "no", !.inv = NoRequest]
PlanInvoiceDropped(k) == [k EXCEPT !.wait = "no", !.plan = NoRequest]
InvoiceDropped(k, r) ==
  IF KindOf[r] = "charge" THEN ChargeInvoiceDropped(k) ELSE PlanInvoiceDropped(k)

(* A card shown without the invoice in the conversation.                   *)
ShowCardForgets(r) ==
  LET u == BuyerOf[r] IN
  /\ ~Stretch /\ ViaOf[r] = "bot" /\ r \notin Direct
  /\ invoice[r] = "none"
  /\ invoice' = [invoice EXCEPT ![r] = "pending"]
  /\ conv' = [conv EXCEPT ![u] = AmountTold(@, r)]
  /\ UNCHANGED <<late, rec, filed, at, used, admin, books, hurt, spent>>

(* charge_pay_with_card, pay_with_card: an invoice is made and remembered  *)
(* in the conversation.                                                    *)
ShowCard(r) ==
  LET u == BuyerOf[r] IN
  /\ ~Stretch /\ ViaOf[r] = "bot" /\ r \notin Direct
  /\ invoice[r] = "none"
  /\ invoice' = [invoice EXCEPT ![r] = "pending"]
  /\ conv' = [conv EXCEPT ![u] = CardTold(@, r)]
  /\ UNCHANGED <<late, rec, filed, at, used, admin, books, hurt, spent>>

(* _offer_charge_payment_method without a gateway, or up to its minimum:   *)
(* the card is shown and no invoice is made; one that the conversation     *)
(* remembers from before stays in it.  (A request pays one receipt.)       *)
ShowCardDirect(r) ==
  /\ ~Stretch /\ r \in Direct /\ used[r] = NoRequest
  /\ conv' = [conv EXCEPT ![BuyerOf[r]] = AmountTold(@, r)]
  /\ UNCHANGED <<shop, at, used, admin, books, hurt, spent>>

(* api_wallet_card_create, api_order_card_info.                            *)
ShowCardMini(r) ==
  /\ ViaOf[r] = "miniapp" /\ invoice[r] = "none"
  /\ invoice' = [invoice EXCEPT ![r] = "pending"]
  /\ UNCHANGED <<late, rec, filed, buyer, admin, books, hurt, spent>>

(* changepay_wallet_, changepay_plan_ under a card: the invoice that the   *)
(* conversation remembers is deleted; the amount of a charge stays in it.  *)
ChangeMethod(r) ==
  LET u == BuyerOf[r]
      i == IF KindOf[r] = "charge" THEN conv[u].inv ELSE conv[u].plan IN
  /\ ~Stretch /\ ViaOf[r] = "bot" /\ r \notin Direct /\ invoice[r] # "none"
  /\ invoice' = [q \in Requests |-> IF q = i THEN "deleted" ELSE invoice[q]]
  /\ conv' = [conv EXCEPT ![u] = InvoiceDropped(@, r)]
  /\ UNCHANGED <<late, rec, filed, at, used, admin, books, hurt, spent>>

(* Any screen of the menu clears the conversation.                         *)
Leave(u) ==
  /\ ~Stretch /\ conv[u] # NoConv
  /\ conv' = [conv EXCEPT ![u] = NoConv]
  /\ UNCHANGED <<shop, at, used, admin, books, hurt, spent>>

(* An invoice consumed without a look at its status.                       *)
ConsumableTwice(i) == i # NoRequest /\ invoice[i] # "none" /\ ~late[i]

(* consume_invoice finds the invoice still pending and in time.            *)
Consumable(i) == i # NoRequest /\ invoice[i] = "pending" /\ ~late[i]

(* What the photo the bot waits for pays, and the invoice it consumes.     *)
Awaited(u) == IF conv[u].wait = "charge" THEN conv[u].charge ELSE conv[u].plan
Invoice(u) == IF conv[u].wait = "charge" THEN conv[u].inv ELSE conv[u].plan

(* receive_receipt, receive_purchase_receipt: a photo arrives; if the      *)
(* invoice cannot be consumed the buyer is told that the time is over.     *)
Photo(u) ==
  /\ ~Stretch /\ conv[u].wait # "no"
  /\ IF Awaited(u) # NoRequest /\ Consumable(Invoice(u))
     THEN /\ invoice' = [invoice EXCEPT ![Invoice(u)] = "submitted"]
          /\ GoesTo(Awaited(u), "file") /\ used' = [used EXCEPT ![Awaited(u)] = Invoice(u)]
          /\ UNCHANGED conv
     ELSE conv' = [conv EXCEPT ![u] = NoConv] /\ UNCHANGED <<invoice, at, used>>
  /\ UNCHANGED <<late, rec, filed, admin, books, hurt, spent>>

(* api_wallet_topup, api_order_card_receipt; a refused upload does nothing.*)
Upload(r) ==
  /\ ViaOf[r] = "miniapp" /\ Consumable(r)
  /\ invoice' = [invoice EXCEPT ![r] = "submitted"]
  /\ GoesTo(r, "file") /\ used' = [used EXCEPT ![r] = r]
  /\ UNCHANGED <<late, rec, filed, conv, admin, books, hurt, spent>>

(* What follows the writing of the row.                                    *)
AfterFile(r) == IF ViaOf[r] = "bot" THEN "drop" ELSE "send"

(* The code is charged when the receipt arrives, not when it is accepted.  *)
FileCharges(r) ==
  /\ at[r] = "file"
  /\ rec' = [rec EXCEPT ![r] = "pending"]
  /\ filed' = Append(filed, r)
  /\ redeemed' = [redeemed EXCEPT ![r] = IF r \in Coded THEN @ + 1 ELSE @]
  /\ GoesTo(r, AfterFile(r))
  /\ UNCHANGED <<invoice, late, conv, used, admin, taken, byHand, orders, hurt, spent>>

(* create_pending_receipt ...                                              *)
File(r) ==
  /\ at[r] = "file"
  /\ rec' = [rec EXCEPT ![r] = "pending"]
  /\ filed' = Append(filed, r)
  /\ GoesTo(r, AfterFile(r))
  /\ UNCHANGED <<invoice, late, conv, used, admin, books, hurt, spent>>

(* ... raises, which both front ends swallow.                              *)
FileRaises(r) ==
  /\ at[r] = "file" /\ Spend("trouble")
  /\ GoesTo(r, AfterFile(r))
  /\ hurt' = hurt \cup {r}
  /\ UNCHANGED <<shop, conv, used, admin, books>>

(* delete_invoice: in the bot before the receipt is sent to the admin, in  *)
(* the Mini App afterwards.                                                *)
Drop(r) ==
  /\ at[r] = "drop"
  /\ invoice' = [invoice EXCEPT ![used[r]] = "deleted"]
  /\ GoesTo(r, IF ViaOf[r] = "bot" THEN "send" ELSE "idle")
  /\ UNCHANGED <<late, rec, filed, conv, used, admin, books, hurt, spent>>

(* A receipt sent from the Mini App whose invoice is not deleted.           *)
SendOnly(r) ==
  /\ at[r] = "send"
  /\ message' = message \cup {r}
  /\ GoesTo(r, IF ViaOf[r] = "bot" THEN "clear" ELSE "idle")
  /\ UNCHANGED <<shop, conv, used, done, job, closing, target, answered,
                 books, hurt, spent>>

(* The receipt with its buttons reaches the admin's chat.                  *)
Send(r) ==
  /\ at[r] = "send"
  /\ message' = message \cup {r}
  /\ GoesTo(r, IF ViaOf[r] = "bot" THEN "clear" ELSE "drop")
  /\ UNCHANGED <<shop, conv, used, done, job, closing, target, answered,
                 books, hurt, spent>>

(* Telegram refuses, or its answer is lost: the bot's handler ends with    *)
(* the exception, the Mini App deletes the row.                            *)
SendFails(r) ==
  /\ at[r] = "send" /\ Spend("trouble")
  /\ \E delivered \in BOOLEAN : message' = IF delivered THEN message \cup {r} ELSE message
  /\ GoesTo(r, IF ViaOf[r] = "bot" THEN "idle" ELSE "undo")
  /\ hurt' = hurt \cup {r}
  /\ UNCHANGED <<shop, conv, used, done, job, closing, target, answered,
                 books>>

(* delete_pending_receipt (an exception of it would be swallowed, and is   *)
(* left out); the invoice stays "submitted".                               *)
Undo(r) ==
  /\ at[r] = "undo"
  /\ rec' = [rec EXCEPT ![r] = IF @ = "none" THEN @ ELSE "deleted"]
  /\ GoesTo(r, "idle")
  /\ UNCHANGED <<invoice, late, filed, conv, used, admin, books, hurt, spent>>

(* The bot's handler has answered the buyer and clears the conversation,   *)
(* of which it knows only what it read before the awaits.                  *)
Clear(r) ==
  LET u == BuyerOf[r] IN
  /\ at[r] = "clear" /\ ~Stretch
  /\ conv' = [conv EXCEPT ![u] =
       IF KindOf[r] = "charge" THEN NoConv ELSE InvoiceDropped(@, r)]
  /\ GoesTo(r, "idle")
  /\ UNCHANGED <<shop, used, admin, books, hurt, spent>>

-----------------------------------------------------------------------------
(* The admin.                                                              *)

(* _render_pending_receipts.                                               *)
Waiting == {r \in Requests : rec[r] = "pending"}

(* clearreceipts_do.                                                       *)
ClearList ==
  /\ ~Stretch /\ Waiting # {}
  /\ rec' = [r \in Requests |-> IF r \in Waiting THEN "resolved" ELSE rec[r]]
  /\ UNCHANGED <<invoice, late, filed, buyer, message, done, job, closing, target, answered,
                 books, hurt, spent>>

(* A key that holds the place of the button as well.                       *)
FreshHere(act, r, from) == Key(act, r) \notin done \/ from = "list"

(* claim_admin_action inserts a key it has never seen.                     *)
Fresh(act, r, from) == Key(act, r) \notin done

(* The admin sees the buttons of the receipt: in its message, or in a list *)
(* he opened when its row waited, which may be of long ago.                *)
Shown(r, from) == IF from = "chat" THEN r \in message ELSE rec[r] # "none"

(* approve_charge, approve_purchase, reject_charge and reject_purchase     *)
(* begin with their permanent key (a press that finds it does nothing);    *)
(* buyer and plan are looked up afterwards, and a plan that is gone, or a  *)
(* second free test, ends the decision.                                    *)
Press(act, r, from) ==
  /\ ~Stretch
  /\ Shown(r, from) /\ Fresh(act, r, from)
  /\ done' = done \cup {Key(act, r)}
  /\ answered' = answered \cup {r}
  /\ \/ job' = [at |-> IF act = "accept" THEN "take" ELSE "resolve", act |-> act,
                req |-> r, row |-> NoRequest, from |-> from]
     \/ act = "accept" /\ KindOf[r] = "plan_card" /\ UNCHANGED job
  /\ UNCHANGED <<shop, buyer, message, closing, target, books, hurt, spent>>

ApproveCharge(r, from) == KindOf[r] = "charge" /\ Press("accept", r, from)
RejectCharge(r, from) == KindOf[r] = "charge" /\ Press("refuse", r, from)
ApprovePurchase(r, from) == KindOf[r] = "plan_card" /\ Press("accept", r, from)
RejectPurchase(r, from) == KindOf[r] = "plan_card" /\ Press("refuse", r, from)

(* add_to_wallet, or find_pending_receipt and record_purchase.             *)
Take ==
  /\ job.at = "take"
  /\ taken' = [taken EXCEPT ![job.req] = @ + 1]
  /\ job' = IF KindOf[job.req] = "charge" THEN JobGoes("resolve")
            ELSE [JobGoes("code") EXCEPT !.row = Newest(Matching("accept", job.req))]
  /\ UNCHANGED <<shop, buyer, message, done, closing, target, answered,
                 byHand, orders, redeemed, hurt, spent>>

(* A code that cannot be charged ends the decision.                        *)
UseCodeOrEnd ==
  /\ job.at = "code"
  /\ \/ /\ job.row \in Coded /\ redeemed' = [redeemed EXCEPT ![job.row] = @ + 1]
        /\ job' = JobGoes("order")
     \/ UNCHANGED redeemed /\ job' = NoJob
  /\ UNCHANGED <<shop, buyer, message, done, closing, target, answered,
                 taken, byHand, orders, hurt, spent>>

(* use_discount with the code of the row that was found; a False and an    *)
(* exception of it are ignored.  complete_referral follows.                *)
UseCode ==
  /\ job.at = "code"
  /\ \/ job.row \in Coded /\ redeemed' = [redeemed EXCEPT ![job.row] = @ + 1]
     \/ UNCHANGED redeemed
  /\ job' = JobGoes("order")
  /\ UNCHANGED <<shop, buyer, message, done, closing, target, answered,
                 taken, byHand, orders, hurt, spent>>

(* create_order.                                                           *)
MakeOrder ==
  /\ job.at = "order"
  /\ orders' = [orders EXCEPT ![job.req] = @ + 1]
  /\ job' = JobGoes("resolve")
  /\ UNCHANGED <<shop, buyer, message, done, closing, target, answered,
                 taken, byHand, redeemed, hurt, spent>>

(* resolve_pending_receipt, whose exceptions are swallowed.                *)
Resolve ==
  LET q == Newest(Matching(job.act, job.req)) IN
  /\ job.at = "resolve"
  /\ \/ rec' = [r \in Requests |-> IF r = q THEN "resolved" ELSE rec[r]] /\ UNCHANGED spent
     \/ Spend("trouble") /\ UNCHANGED rec
  /\ closing' = IF job.from = "chat" THEN closing \cup {job.req} ELSE closing
  /\ job' = NoJob
  /\ UNCHANGED <<invoice, late, filed, buyer, message, done, target, answered,
                 books, hurt>>

(* _finish_receipt_message takes the buttons off the message, unless the   *)
(* edit fails; another press may come before it.  In the list the receipts *)
(* that wait are drawn again, and older lists stay as they are.            *)
Finish(r) ==
  /\ r \in closing /\ ~Stretch
  /\ \/ message' = message \ {r} /\ UNCHANGED spent
     \/ Spend("trouble") /\ UNCHANGED message
  /\ closing' = closing \ {r}
  /\ UNCHANGED <<shop, buyer, done, job, target, answered, books, hurt>>

(* A call of the decision raises: the key stays.                           *)
JobRaises ==
  /\ job.at \in {"take", "code", "order"} /\ Spend("trouble")
  /\ hurt' = hurt \cup {job.req}
  /\ job' = NoJob
  /\ UNCHANGED <<shop, buyer, message, done, closing, target, answered, books>>

(* The receipt is remembered instead of its buyer.                         *)
AskAmountOfReceipt(r) ==
  /\ ~Stretch /\ CanSpend("custom")
  /\ target' = r
  /\ UNCHANGED <<shop, buyer, message, done, job, closing, answered, books, hurt, spent>>

(* custom_charge_start: the button is under the messages of charges, and   *)
(* on the page of every buyer; only the buyer is remembered.               *)
AskAmount(r) ==
  /\ ~Stretch /\ CanSpend("custom")
  /\ target' = BuyerOf[r]
  /\ UNCHANGED <<shop, buyer, message, done, job, closing, answered, books, hurt, spent>>

(* custom_charge_apply: no key is claimed; the wallet is charged, for a    *)
(* receipt the admin has before him (the code does not know which) or for  *)
(* none, and the newest row of the buyer is resolved, whatever its amount, *)
(* unless that raises (which is swallowed) or the process ends first.  An  *)
(* amount that comes before state.clear is one asked for anew.             *)
ChargeAmount ==
  LET charges == {q \in Requests : KindOf[q] = "charge" /\ BuyerOf[q] = target} IN
  /\ ~Stretch /\ target # NoRequest
  /\ \E S \in {{}} \cup {{q} : q \in {r \in charges : used[r] # NoRequest}} :
       /\ taken' = [r \in Requests |-> IF r \in S THEN taken[r] + 1 ELSE taken[r]]
       /\ byHand' = [r \in Requests |-> IF r \in S THEN byHand[r] + 1 ELSE byHand[r]]
  /\ \/ /\ Spend("custom")
        /\ rec' = [r \in Requests |->
             IF r = Newest(charges \cap Waiting) THEN "resolved" ELSE rec[r]]
     \/ SpendBoth /\ UNCHANGED rec
  /\ target' = NoRequest
  /\ UNCHANGED <<invoice, late, filed, buyer, message, done, job, closing, answered,
                 orders, redeemed, hurt>>

(* state.clear: the buyer is not found, or another screen of the admin's.  *)
ForgetTarget ==
  /\ ~Stretch /\ target # NoRequest
  /\ target' = NoRequest
  /\ UNCHANGED <<shop, buyer, message, done, job, closing, answered, books, hurt, spent>>

-----------------------------------------------------------------------------
(* The clock and the host.  The time of an invoice that does not wait is   *)
(* never read.                                                             *)
Age(r) ==
  /\ invoice[r] = "pending" /\ ~late[r]
  /\ late' = [late EXCEPT ![r] = TRUE]
  /\ UNCHANGED <<invoice, rec, filed, buyer, admin, books, hurt, spent>>

(* expire_due_invoices.                                                    *)
Expire(r) ==
  /\ ~Stretch /\ invoice[r] = "pending" /\ late[r]
  /\ invoice' = [invoice EXCEPT ![r] = "deleted"]
  /\ UNCHANGED <<late, rec, filed, buyer, admin, books, hurt, spent>>

Crash ==
  /\ Spend("trouble")
  /\ hurt' = hurt \cup {r \in Requests : at[r] # "idle" \/ job.req = r}
  /\ at' = [r \in Requests |-> "idle"]
  /\ job' = NoJob /\ closing' = {}
  /\ UNCHANGED <<shop, conv, used, message, done, target, answered, books>>

-----------------------------------------------------------------------------
Handle(r) == File(r) \/ Drop(r) \/ Send(r) \/ Undo(r) \/ Clear(r)
Decide == Take \/ UseCode \/ MakeOrder \/ Resolve

Next ==
  \/ \E r \in Requests :
       \/ ShowCard(r) \/ ChangeMethod(r) \/ ShowCardDirect(r) \/ ShowCardMini(r) \/ Upload(r)
       \/ Handle(r) \/ FileRaises(r) \/ SendFails(r)
       \/ Finish(r) \/ AskAmount(r) \/ Age(r) \/ Expire(r)
       \/ \E from \in {"chat", "list"} :
            \/ ApproveCharge(r, from) \/ RejectCharge(r, from)
            \/ ApprovePurchase(r, from) \/ RejectPurchase(r, from)
  \/ \E u \in Buyers : Leave(u) \/ Photo(u)
  \/ ClearList \/ Decide \/ JobRaises
  \/ ChargeAmount \/ ForgetTarget \/ Crash

Spec == Init /\ [][Next]_vars

-----------------------------------------------------------------------------
(* A receipt is charged by acceptance at most once, although its buttons   *)
(* stand in the chat and in the list, and the list may be old; what it is  *)
(* charged beyond that the admin has typed under it, of which nothing      *)
(* keeps him, before the acceptance or after it.                           *)
ChargedOnce ==
  \A r \in Requests : taken[r] <= 1 + byHand[r] /\ orders[r] <= taken[r]

(* A purchase that was recorded has its order, unless the decision is on   *)
(* its way to make it, an exception or the end of the process stopped it.  *)
RecordedOrdered ==
  \A r \in Requests :
    KindOf[r] = "plan_card" /\ taken[r] > orders[r]
      => r \in hurt \/ (job.req = r /\ job.at \in {"code", "order"})

(* One invoice admits one receipt, however many photos, uploads and        *)
(* restarts there are.                                                     *)
OneReceiptEach ==
  \A i, j \in 1..Len(filed) : used[filed[i]] = used[filed[j]] => i = j

(* A buyer whose photo the bot waits for is told that the time is over only *)
(* if it is, or a photo was received before, or no invoice was made.       *)
ToldLateRightly ==
  \A u \in Buyers :
    LET r == Awaited(u) IN
    conv[u].wait # "no" /\ r \notin Direct \cup {NoRequest} /\ ~Consumable(Invoice(u))
      => late[r] \/ \E q \in Requests : used[q] = r

(* A code is charged for purchases that were accepted, not for receipts.   *)
CodeAfterAcceptance ==
  \A r \in Requests : redeemed[r] > 0 =>
    \E q \in Requests : /\ taken[q] > 0 /\ BuyerOf[q] = BuyerOf[r]
                        /\ KindOf[q] = "plan_card" /\ AmountOf[q] = AmountOf[r]

(* An invoice that a receipt was sent for stays only while the handler of  *)
(* the receipt is at work, or after an exception or the end of the process *)
(* came between: none is left behind by the ordinary way.                  *)
SubmittedHandled ==
  \A r \in Requests : invoice[r] = "submitted" =>
    \E q \in Requests : used[q] = r /\ (at[q] # "idle" \/ q \in hurt)

(* approve_charge answers "this receipt has already been processed" when   *)
(* that receipt has been processed.                                        *)
ToldDoneRightly ==
  \A r \in Requests, act \in {"accept", "refuse"}, from \in {"chat", "list"} :
    Shown(r, from) /\ ~Fresh(act, r, from) => r \in answered

=============================================================================
