------------------------- MODULE CardReceiptProofs -------------------------
(***************************************************************************)
(* Receipts for any number of buyers, requests and decisions.  A receipt   *)
(* is accepted once because its permanent key is taken before it is        *)
(* charged; an invoice admits one receipt because it leaves "pending" for  *)
(* ever in the transaction that admits it.                                 *)
(***************************************************************************)
EXTENDS CardReceipt, TLAPS

(* What is known of a decision: its key is taken, and how far it has come. *)
Decided ==
  /\ \A r \in Requests :
       /\ taken[r] > byHand[r] => Key("accept", r) \in done
       /\ orders[r] + byHand[r] <= taken[r]
       /\ byHand[r] > 0 => KindOf[r] = "charge"
  /\ job.at # "idle" => job.req \in Requests /\ Key(job.act, job.req) \in done
  /\ job.at \in {"take", "code", "order"} => job.act = "accept"
  /\ job.at = "take" => taken[job.req] = byHand[job.req] /\ orders[job.req] = 0
  /\ job.at \in {"code", "order"} =>
       KindOf[job.req] = "plan_card" /\ taken[job.req] = 1 /\ orders[job.req] = 0

(* The row whose code a decision is about to charge is one it may close.   *)
RowFound ==
  job.at = "code" /\ job.row # NoRequest =>
    /\ BuyerOf[job.row] = BuyerOf[job.req] /\ KindOf[job.row] = KindOf[job.req]
    /\ AmountOf[job.row] = AmountOf[job.req]

(* The books of the decisions.                                             *)
Ledger == ChargedOnce /\ RecordedOrdered /\ Decided

(* What a request that has consumed an invoice keeps to: the invoice never *)
(* waits again, and nobody else has it.                                    *)
UsedUp ==
  /\ \A r \in Requests : used[r] # NoRequest =>
       /\ invoice[used[r]] \in {"submitted", "deleted"}
       /\ ViaOf[r] = "miniapp" \/ KindOf[r] = "plan_card" => used[r] = r
       /\ r \notin Direct => invoice[r] # "none"
  /\ \A q, r \in Requests : used[q] = used[r] /\ used[q] # NoRequest => q = r

(* A row is written once, by a handler that has consumed an invoice.       *)
FiledOnce ==
  /\ \A r \in Requests : used[r] = NoRequest => at[r] = "idle"
  /\ \A i \in 1..Len(filed) : at[filed[i]] # "file" /\ used[filed[i]] # NoRequest
  /\ \A i, j \in 1..Len(filed) : filed[i] = filed[j] => i = j

(* What the conversation of a buyer remembers is his, and its invoice      *)
(* cannot be consumed for a charge that was paid already.                  *)
Remembered(u) ==
  LET k == conv[u] IN
  /\ k.charge # NoRequest =>
       /\ BuyerOf[k.charge] = u /\ KindOf[k.charge] = "charge" /\ ViaOf[k.charge] = "bot"
       /\ k.charge \notin Direct => invoice[k.charge] # "none"
       /\ used[k.charge] # NoRequest /\ k.inv # NoRequest => invoice[k.inv] # "pending"
  /\ k.inv # NoRequest =>
       /\ BuyerOf[k.inv] = u /\ KindOf[k.inv] = "charge" /\ ViaOf[k.inv] = "bot"
       /\ invoice[k.inv] # "none"
  /\ k.plan # NoRequest =>
       /\ BuyerOf[k.plan] = u /\ KindOf[k.plan] = "plan_card" /\ ViaOf[k.plan] = "bot"
       /\ invoice[k.plan] # "none"
  /\ k.wait = "charge" /\ k.charge \notin Direct \cup {NoRequest} => k.inv = k.charge
Talk == \A u \in Buyers : Remembered(u)

(* An invoice that is gone while the conversation remembers it was late or *)
(* consumed.                                                               *)
Gone(r) == late[r] \/ \E q \in Requests : used[q] = r
GoneRightly ==
  \A r \in Requests :
    invoice[r] = "deleted" /\ r \in {conv[BuyerOf[r]].inv, conv[BuyerOf[r]].plan} => Gone(r)

(* How far the handlers have come with the invoices they consumed.         *)
Handled ==
  \A q \in Requests :
    /\ at[q] = "clear" \/ (ViaOf[q] = "bot" /\ at[q] = "send") => invoice[used[q]] = "deleted"
    /\ at[q] = "clear" => ViaOf[q] = "bot"
    /\ at[q] = "undo" => q \in hurt

Sent == UsedUp /\ FiledOnce /\ Talk /\ GoneRightly /\ Handled /\ SubmittedHandled

-----------------------------------------------------------------------------
(* The newest of some rows is one of them, or there is none.               *)
LEMMA NewestIsOne ==
  ASSUME NEW S PROVE Newest(S) \in S \cup {NoRequest}
BY DEF Newest

(* What find_pending_receipt may return.                                   *)
LEMMA MatchingRows ==
  ASSUME NEW act, NEW r \in Requests PROVE Matching(act, r) \subseteq Requests
BY DEF Matching

(* A counter counts on.                                                    *)
LEMMA SpendKeeps ==
  ASSUME NEW b \in {"custom", "trouble"}, spent \in [{"custom", "trouble"} -> Nat], Spend(b)
  PROVE  spent' \in [{"custom", "trouble"} -> Nat]
BY DEF Spend, CanSpend

(* What the updates of the conversation and of the decision make of them.  *)
LEMMA ConvTold ==
  ASSUME NEW k \in Conv, NEW r \in Requests
  PROVE  /\ CardTold(k, r) \in Conv /\ AmountTold(k, r) \in Conv
         /\ InvoiceDropped(k, r) \in Conv /\ NoConv \in Conv
BY DEF Conv, NoConv, CardTold, ChargeCardTold, PlanCardTold, AmountTold, InvoiceDropped, ChargeInvoiceDropped, PlanInvoiceDropped

(* A decision that moves on keeps its receipt.                             *)
LEMMA JobMoved ==
  ASSUME job \in Job, NEW s \in {"idle", "take", "code", "order", "resolve"}
  PROVE  /\ JobGoes(s) \in Job
         /\ JobGoes(s).at = s /\ JobGoes(s).act = job.act
         /\ JobGoes(s).req = job.req /\ JobGoes(s).row = job.row
BY DEF Job, JobGoes

(* A decision that has found a row keeps its receipt.                      *)
LEMMA JobFound ==
  ASSUME job \in Job, NEW q \in Requests \cup {NoRequest}
  PROVE  LET j == [JobGoes("code") EXCEPT !.row = q] IN
         /\ j \in Job /\ j.at = "code" /\ j.act = job.act
         /\ j.req = job.req /\ j.row = q
BY DEF Job, JobGoes

(* No decision is under way.                                               *)
LEMMA JobNone ==
  NoJob \in Job /\ NoJob.at = "idle" /\ NoJob.req = NoRequest
BY DEF Job, NoJob

(* A cleared conversation remembers nothing.                               *)
LEMMA ConvNone == NoConv \in Conv /\ NoConv.wait = "no" /\ NoConv.charge = NoRequest
                  /\ NoConv.inv = NoRequest /\ NoConv.plan = NoRequest
BY DEF Conv, NoConv

(* The key of a receipt is one of the keys.                                *)
LEMMA KeyIsOne ==
  ASSUME NEW act \in {"accept", "refuse"}, NEW r \in Requests
  PROVE  Key(act, r) \in Keys
BY DEF Keys

(* Every step keeps the types.                                             *)
LEMMA TypeStep == TypeOK /\ Decided /\ [Next]_vars => TypeOK'
<1> SUFFICES ASSUME TypeOK, Decided, [Next]_vars PROVE TypeOK'
  OBVIOUS
<1> USE ReceiptAssumption DEF shop, buyer, admin, books
<1>1. CASE UNCHANGED vars
  BY <1>1 DEF vars, TypeOK
<1>2. ASSUME NEW r \in Requests, ShowCard(r) PROVE TypeOK'
  BY <1>2, ConvTold DEF TypeOK, ShowCard
<1>3. ASSUME NEW r \in Requests, ChangeMethod(r) PROVE TypeOK'
  BY <1>3, ConvTold DEF TypeOK, ChangeMethod
<1>4. ASSUME NEW r \in Requests, ShowCardDirect(r) PROVE TypeOK'
  BY <1>4, ConvTold DEF TypeOK, ShowCardDirect
<1>5. ASSUME NEW r \in Requests, ShowCardMini(r) PROVE TypeOK'
  BY <1>5 DEF TypeOK, ShowCardMini
<1>6. ASSUME NEW r \in Requests, Upload(r) PROVE TypeOK'
  BY <1>6 DEF TypeOK, Upload, GoesTo
<1>7. ASSUME NEW r \in Requests, File(r) PROVE TypeOK'
  BY <1>7 DEF TypeOK, File, GoesTo, AfterFile
<1>8. ASSUME NEW r \in Requests, Drop(r) PROVE TypeOK'
  BY <1>8 DEF TypeOK, Drop, GoesTo
<1>9. ASSUME NEW r \in Requests, Send(r) PROVE TypeOK'
  BY <1>9 DEF TypeOK, Send, GoesTo
<1>10. ASSUME NEW r \in Requests, Undo(r) PROVE TypeOK'
  BY <1>10 DEF TypeOK, Undo, GoesTo
<1>11. ASSUME NEW r \in Requests, Clear(r) PROVE TypeOK'
  BY <1>11, ConvTold DEF TypeOK, Clear, GoesTo
<1>12. ASSUME NEW r \in Requests, FileRaises(r) PROVE TypeOK'
  BY <1>12, SpendKeeps DEF TypeOK, FileRaises, GoesTo, AfterFile
<1>13. ASSUME NEW r \in Requests, SendFails(r) PROVE TypeOK'
  BY <1>13, SpendKeeps DEF TypeOK, SendFails, GoesTo
<1>14. ASSUME NEW r \in Requests, Finish(r) PROVE TypeOK'
  BY <1>14, SpendKeeps DEF TypeOK, Finish
<1>15. ASSUME NEW r \in Requests, AskAmount(r) PROVE TypeOK'
  BY <1>15 DEF TypeOK, AskAmount
<1>16. ASSUME NEW r \in Requests, Age(r) PROVE TypeOK'
  BY <1>16 DEF TypeOK, Age
<1>17. ASSUME NEW r \in Requests, Expire(r) PROVE TypeOK'
  BY <1>17 DEF TypeOK, Expire
<1>18. ASSUME NEW r \in Requests, NEW act \in {"accept", "refuse"},
              NEW from \in {"chat", "list"}, Press(act, r, from)
       PROVE  TypeOK'
  <2>1. job' \in Job
    BY <1>18 DEF TypeOK, Press, Job
  <2>2. done' \subseteq Keys /\ answered' \subseteq Requests
    BY <1>18, KeyIsOne DEF TypeOK, Press
  <2> QED BY <1>18, <2>1, <2>2 DEF TypeOK, Press
<1>19. ASSUME NEW u \in Buyers, Leave(u) PROVE TypeOK'
  BY <1>19 DEF TypeOK, Leave, Conv, NoConv
<1>20. ASSUME NEW u \in Buyers, Photo(u) PROVE TypeOK'
  <2>1. Awaited(u) \in Requests \cup {NoRequest} /\ Invoice(u) \in Requests \cup {NoRequest}
    BY DEF TypeOK, Conv, Awaited, Invoice
  <2>2. invoice' \in [Requests -> {"none", "pending", "submitted", "deleted"}]
    BY <1>20, <2>1 DEF TypeOK, Photo
  <2>3. at' \in [Requests -> {"idle", "file", "drop", "send", "undo", "clear"}]
    BY <1>20, <2>1 DEF TypeOK, Photo, GoesTo
  <2>4. used' \in [Requests -> Requests \cup {NoRequest}]
    <3>1. CASE used' = used
      BY <3>1 DEF TypeOK
    <3>2. CASE Awaited(u) # NoRequest /\ used' = [used EXCEPT ![Awaited(u)] = Invoice(u)]
      BY <2>1, <3>2 DEF TypeOK
    <3> QED BY <1>20, <3>1, <3>2 DEF Photo
  <2>5. conv' \in [Buyers -> Conv]
    <3>1. CASE conv' = conv
      BY <3>1 DEF TypeOK
    <3>2. CASE conv' = [conv EXCEPT ![u] = NoConv]
      BY <3>2, ConvNone DEF TypeOK
    <3> QED BY <1>20, <3>1, <3>2 DEF Photo
  <2> QED BY <1>20, <2>2, <2>3, <2>4, <2>5 DEF TypeOK, Photo
<1>21. CASE ClearList
  BY <1>21 DEF TypeOK, ClearList
<1> JobGoes("resolve") \in Job /\ JobGoes("order") \in Job
  BY JobMoved DEF TypeOK
<1>22. CASE Take
  <2>1. Newest(Matching("accept", job.req)) \in Requests \cup {NoRequest}
    BY <1>22, NewestIsOne, MatchingRows DEF Take, Decided
  <2>2. job' \in Job
    BY <1>22, <2>1, JobFound DEF TypeOK, Take
  <2>3. taken' \in [Requests -> Nat]
    BY <1>22 DEF TypeOK, Take, Decided
  <2> QED BY <1>22, <2>2, <2>3 DEF TypeOK, Take
<1>23. CASE UseCode
  <2>1. redeemed' \in [Requests -> Nat]
    <3>1. CASE UNCHANGED redeemed
      BY <3>1 DEF TypeOK
    <3>2. CASE job.row \in Coded /\ redeemed' = [redeemed EXCEPT ![job.row] = @ + 1]
      BY <3>2 DEF TypeOK
    <3> QED BY <1>23, <3>1, <3>2 DEF UseCode
  <2>2. job' \in Job
    BY <1>23 DEF UseCode
  <2> QED BY <1>23, <2>1, <2>2 DEF TypeOK, UseCode
<1>24. CASE MakeOrder
  <2>1. orders' \in [Requests -> Nat]
    BY <1>24 DEF TypeOK, MakeOrder, Decided
  <2>2. job' \in Job
    BY <1>24 DEF MakeOrder
  <2> QED BY <1>24, <2>1, <2>2 DEF TypeOK, MakeOrder
<1>25. CASE Resolve
  <2>1. job' \in Job /\ closing' \subseteq Requests
    BY <1>25, JobNone DEF TypeOK, Resolve, Decided
  <2>2. spent' \in [{"custom", "trouble"} -> Nat]
    <3>1. spent \in [{"custom", "trouble"} -> Nat]
      BY DEF TypeOK
    <3> QED BY <1>25, <3>1, SpendKeeps DEF Resolve
  <2>3. rec' \in [Requests -> {"none", "pending", "resolved", "deleted"}]
    <3>1. rec \in [Requests -> {"none", "pending", "resolved", "deleted"}]
      BY DEF TypeOK
    <3> QED BY <1>25, <3>1 DEF Resolve
  <2> QED BY <1>25, <2>1, <2>2, <2>3 DEF TypeOK, Resolve
<1>26. CASE JobRaises
  BY <1>26, SpendKeeps, JobNone DEF TypeOK, JobRaises, Decided
<1>27. CASE ChargeAmount
  <2>1. spent' \in [{"custom", "trouble"} -> Nat]
    BY <1>27, SpendKeeps DEF TypeOK, ChargeAmount, SpendBoth
  <2>2. taken' \in [Requests -> Nat] /\ byHand' \in [Requests -> Nat]
    BY <1>27 DEF TypeOK, ChargeAmount
  <2>3. rec' \in [Requests -> {"none", "pending", "resolved", "deleted"}]
    <3>1. rec \in [Requests -> {"none", "pending", "resolved", "deleted"}]
      BY DEF TypeOK
    <3> QED BY <1>27, <3>1 DEF ChargeAmount
  <2> QED BY <1>27, <2>1, <2>2, <2>3 DEF TypeOK, ChargeAmount
<1>28. CASE ForgetTarget
  BY <1>28 DEF TypeOK, ForgetTarget
<1>29. CASE Crash
  BY <1>29, SpendKeeps DEF TypeOK, Crash, Job, NoJob
<1> QED BY <1>1, <1>2, <1>3, <1>4, <1>5, <1>6, <1>7, <1>8, <1>9, <1>10, <1>11, <1>12,
     <1>13, <1>14, <1>15, <1>16, <1>17, <1>18, <1>19, <1>20, <1>21, <1>22, <1>23, <1>24,
     <1>25, <1>26, <1>27, <1>28, <1>29 DEF Next, Handle, Decide, ApproveCharge, RejectCharge,
       ApprovePurchase, RejectPurchase

-----------------------------------------------------------------------------
(* Steps that leave the decisions alone.                                   *)
LEMMA LedgerFrame ==
  ASSUME Ledger, done' = done, job' = job, taken' = taken, byHand' = byHand,
         orders' = orders, hurt \subseteq hurt'
  PROVE  Ledger'
BY DEF Ledger, ChargedOnce, RecordedOrdered, Decided

(* An amount typed by hand is counted with the charges and apart.          *)
LEMMA ChargeAmountLedger ==
  ASSUME TypeOK, Ledger, ChargeAmount PROVE Ledger'
<1> USE ReceiptAssumption
<1>1. job.at = "idle" /\ job.req = NoRequest /\ UNCHANGED <<job, done, orders, hurt>>
  BY JobNone DEF ChargeAmount, Stretch
<1>2. \A r \in Requests :
        \/ taken'[r] = taken[r] /\ byHand'[r] = byHand[r]
        \/ taken'[r] = taken[r] + 1 /\ byHand'[r] = byHand[r] + 1 /\ KindOf[r] = "charge"
  <2> DEFINE charges == {q \in Requests : KindOf[q] = "charge" /\ BuyerOf[q] = target}
  <2>1. PICK S \in {{}} \cup {{q} : q \in {r \in charges : used[r] # NoRequest}} :
          /\ taken' = [r \in Requests |-> IF r \in S THEN taken[r] + 1 ELSE taken[r]]
          /\ byHand' = [r \in Requests |-> IF r \in S THEN byHand[r] + 1 ELSE byHand[r]]
    BY DEF ChargeAmount
  <2>2. \A r \in S : KindOf[r] = "charge"
    BY <2>1
  <2> QED BY <2>1, <2>2
<1>3. \A r \in Requests : taken[r] \in Nat /\ byHand[r] \in Nat /\ orders[r] \in Nat
  BY DEF TypeOK
<1>4. ChargedOnce'
  BY <1>1, <1>2, <1>3 DEF Ledger, ChargedOnce
<1>5. RecordedOrdered'
  <2>1. \A r \in Requests : KindOf[r] = "plan_card" => taken'[r] = taken[r]
    BY <1>2
  <2> QED BY <1>1, <2>1 DEF Ledger, RecordedOrdered
<1>6. Decided'
  <2>1. \A r \in Requests : taken'[r] > byHand'[r] => taken[r] > byHand[r]
    BY <1>2, <1>3
  <2>2. \A r \in Requests : orders[r] + byHand'[r] <= taken'[r]
    BY <1>2, <1>3 DEF Ledger, Decided
  <2>3. \A r \in Requests : byHand'[r] > 0 => KindOf[r] = "charge"
    BY <1>2 DEF Ledger, Decided
  <2> QED BY <1>1, <2>1, <2>2, <2>3 DEF Ledger, Decided
<1> QED BY <1>4, <1>5, <1>6 DEF Ledger

(* A charge is made under a key taken by its own decision.                 *)
LEMMA LedgerStep == TypeOK /\ Ledger /\ [Next]_vars => Ledger'
<1> SUFFICES ASSUME TypeOK, Ledger, [Next]_vars PROVE Ledger'
  OBVIOUS
<1> USE ReceiptAssumption DEF shop, buyer, admin, books
<1>1. CASE UNCHANGED vars
  BY <1>1, LedgerFrame DEF vars
<1>2. ASSUME NEW r \in Requests,
             ShowCard(r) \/ ChangeMethod(r) \/ ShowCardDirect(r) \/ ShowCardMini(r)
               \/ Upload(r) \/ Handle(r) \/ FileRaises(r) \/ SendFails(r)
               \/ Finish(r) \/ AskAmount(r) \/ Age(r) \/ Expire(r)
      PROVE  Ledger'
  BY <1>2, LedgerFrame DEF ShowCard, ChangeMethod, ShowCardDirect, ShowCardMini, Upload,
     Handle, File, Drop, Send, Undo, Clear, FileRaises, SendFails, Finish, AskAmount,
     Age, Expire
<1>3. ASSUME NEW u \in Buyers, Leave(u) \/ Photo(u) PROVE Ledger'
  BY <1>3, LedgerFrame DEF Leave, Photo
<1>4. CASE ClearList \/ ForgetTarget
  BY <1>4, LedgerFrame DEF ClearList, ForgetTarget
<1>12. CASE ChargeAmount
  BY <1>12, ChargeAmountLedger
<1>5. ASSUME NEW r \in Requests, NEW act \in {"accept", "refuse"},
             NEW from \in {"chat", "list"}, Press(act, r, from)
      PROVE  Ledger'
  <2>1. job = NoJob /\ job.at = "idle" /\ job.req = NoRequest
    BY <1>5, JobNone DEF Press, Stretch
  <2>2. act = "accept" => taken[r] = byHand[r] /\ orders[r] = 0
    <3>1. taken[r] \in Nat /\ byHand[r] \in Nat /\ orders[r] \in Nat
      BY DEF TypeOK
    <3>2. act = "accept" => ~(taken[r] > byHand[r])
      BY <1>5 DEF Press, Fresh, Ledger, Decided
    <3>3. orders[r] + byHand[r] <= taken[r]
      BY DEF Ledger, Decided
    <3> QED BY <3>1, <3>2, <3>3
  <2>3. UNCHANGED <<taken, byHand, orders, hurt>> /\ done \subseteq done' /\ Key(act, r) \in done'
    BY <1>5 DEF Press
  <2>4. \/ job' = job
        \/ /\ job'.at = IF act = "accept" THEN "take" ELSE "resolve"
           /\ job'.act = act /\ job'.req = r
    BY <1>5 DEF Press
  <2>5. Decided'
    BY <2>1, <2>2, <2>3, <2>4 DEF Ledger, Decided
  <2>6. RecordedOrdered'
    BY <2>1, <2>3 DEF Ledger, RecordedOrdered
  <2> QED BY <2>3, <2>5, <2>6 DEF Ledger, ChargedOnce
<1> DEFINE q == job.req
<1>6. ASSUME job.at # "idle" PROVE q \in Requests
  BY <1>6 DEF Ledger, Decided
<1>7. CASE Take
  <2>1. q \in Requests /\ taken[q] = byHand[q] /\ orders[q] = 0 /\ job.act = "accept"
    BY <1>6, <1>7 DEF Take, Ledger, Decided
  <2>2. /\ taken'[q] = taken[q] + 1
        /\ \A r \in Requests : r # q => taken'[r] = taken[r]
    BY <1>7, <2>1 DEF Take, TypeOK
  <2>3. /\ KindOf[q] = "charge" => job'.at = "resolve"
        /\ KindOf[q] # "charge" => job'.at = "code"
        /\ job'.act = job.act /\ job'.req = q
    <3>1. Newest(Matching("accept", q)) \in Requests \cup {NoRequest}
      BY <2>1, NewestIsOne, MatchingRows
    <3>2. CASE KindOf[q] = "charge"
      BY <1>7, <3>2, JobMoved DEF Take, TypeOK
    <3>3. CASE KindOf[q] # "charge"
      BY <1>7, <3>1, <3>3, JobFound DEF Take, TypeOK
    <3> QED BY <3>2, <3>3
  <2>4. UNCHANGED <<done, byHand, orders, hurt>> /\ job.at = "take"
    BY <1>7 DEF Take
  <2>5. \A r \in Requests : taken[r] \in Nat /\ byHand[r] \in Nat /\ orders[r] \in Nat
    BY DEF TypeOK
  <2>6. Key("accept", q) \in done
    BY <2>1, <2>4 DEF Ledger, Decided
  <2>7. \A r \in Requests :
          /\ taken'[r] > byHand[r] => Key("accept", r) \in done
          /\ orders[r] + byHand[r] <= taken'[r]
          /\ byHand[r] > 0 => KindOf[r] = "charge"
    <3> SUFFICES ASSUME NEW r \in Requests
                 PROVE  /\ taken'[r] > byHand[r] => Key("accept", r) \in done
                        /\ orders[r] + byHand[r] <= taken'[r]
                        /\ byHand[r] > 0 => KindOf[r] = "charge"
      OBVIOUS
    <3>1. CASE r = q
      BY <2>1, <2>2, <2>5, <2>6, <3>1 DEF Ledger, Decided
    <3>2. CASE r # q
      BY <2>2, <3>2 DEF Ledger, Decided
    <3> QED BY <3>1, <3>2
  <2>8. KindOf[q] # "charge" => KindOf[q] = "plan_card" /\ byHand[q] = 0 /\ taken'[q] = 1
    BY <2>1, <2>2, <2>5 DEF Ledger, Decided
  <2>9. Decided'
    BY <2>1, <2>3, <2>4, <2>6, <2>7, <2>8 DEF Decided
  <2>10. RecordedOrdered'
    BY <2>1, <2>2, <2>3, <2>4, <2>8 DEF Ledger, RecordedOrdered
  <2>11. ChargedOnce'
    <3> SUFFICES ASSUME NEW r \in Requests
                 PROVE  taken'[r] <= 1 + byHand[r] /\ orders[r] <= taken'[r]
      BY <2>4 DEF ChargedOnce
    <3>1. CASE r = q
      BY <2>1, <2>2, <2>5, <3>1
    <3>2. CASE r # q
      BY <2>2, <3>2 DEF Ledger, ChargedOnce
    <3> QED BY <3>1, <3>2
  <2> QED BY <2>9, <2>10, <2>11 DEF Ledger
<1>8. CASE UseCode
  <2>1. job.at = "code" /\ job'.at = "order" /\ job'.act = job.act /\ job'.req = q
    BY <1>8, JobMoved DEF UseCode, TypeOK
  <2>2. UNCHANGED <<done, taken, orders, hurt>>
    BY <1>8 DEF UseCode
  <2>3. byHand' = byHand
    BY <1>8 DEF UseCode
  <2> QED BY <2>1, <2>2, <2>3 DEF Ledger, ChargedOnce, RecordedOrdered, Decided
<1>9. CASE MakeOrder
  <2>1. job.at = "order" /\ job'.at = "resolve" /\ job'.act = job.act /\ job'.req = q
    BY <1>9, JobMoved DEF MakeOrder, TypeOK
  <2>2. q \in Requests /\ taken[q] = 1 /\ orders[q] = 0 /\ KindOf[q] = "plan_card"
    BY <1>6, <2>1 DEF Ledger, Decided
  <2>3. UNCHANGED <<done, taken, byHand, hurt>> /\ orders' = [orders EXCEPT ![q] = 1]
    BY <1>9, <2>2 DEF MakeOrder
  <2>4. /\ orders'[q] = 1
        /\ \A r \in Requests : r # q => orders'[r] = orders[r]
    BY <2>2, <2>3 DEF TypeOK
  <2>5. byHand[q] = 0
    <3>1. byHand[q] \in Nat
      BY <2>2 DEF TypeOK
    <3>2. ~(byHand[q] > 0)
      BY <2>2 DEF Ledger, Decided
    <3> QED BY <3>1, <3>2
  <2>6. \A r \in Requests : orders'[r] + byHand[r] <= taken[r]
    BY <2>2, <2>4, <2>5 DEF Ledger, Decided
  <2>7. Decided'
    BY <2>1, <2>3, <2>6 DEF Ledger, Decided
  <2>8. RecordedOrdered'
    BY <2>1, <2>2, <2>3, <2>4 DEF Ledger, RecordedOrdered
  <2>9. ChargedOnce'
    BY <2>2, <2>3, <2>4 DEF Ledger, ChargedOnce
  <2> QED BY <2>7, <2>8, <2>9 DEF Ledger
<1>10. CASE Resolve
  <2>1. job.at = "resolve" /\ job'.at = "idle" /\ UNCHANGED <<done, taken, byHand, orders, hurt>>
    BY <1>10, JobNone DEF Resolve
  <2> QED BY <2>1 DEF Ledger, ChargedOnce, RecordedOrdered, Decided
<1>11. CASE JobRaises \/ Crash
  <2>1. /\ job'.at = "idle" /\ UNCHANGED <<done, taken, byHand, orders>>
        /\ hurt \subseteq hurt' /\ (q \in Requests => q \in hurt')
    BY <1>11, JobNone DEF JobRaises, Crash
  <2>2. job.at \in {"code", "order"} => q \in Requests
    BY <1>6
  <2> QED BY <2>1, <2>2 DEF Ledger, ChargedOnce, RecordedOrdered, Decided
<1> QED BY <1>1, <1>2, <1>3, <1>4, <1>5, <1>7, <1>8, <1>9, <1>10, <1>11, <1>12 DEF Next, Decide, ApproveCharge, RejectCharge,
       ApprovePurchase, RejectPurchase

-----------------------------------------------------------------------------
Codes == RowFound /\ CodeAfterAcceptance

(* A code is charged from a decision that has recorded its purchase.       *)
LEMMA CodesStep == TypeOK /\ Ledger /\ Codes /\ [Next]_vars => Codes'
<1> SUFFICES ASSUME TypeOK, Ledger, Codes, [Next]_vars PROVE Codes'
  OBVIOUS
<1> USE ReceiptAssumption DEF shop, buyer, admin, books
<1> DEFINE q == job.req
<1>1. ASSUME job' = job, redeemed' = redeemed, taken' = taken PROVE Codes'
  BY <1>1 DEF Codes, RowFound, CodeAfterAcceptance
<1>2. ASSUME job'.at # "code", redeemed' = redeemed,
             \A r \in Requests : taken[r] > 0 => taken'[r] > 0
      PROVE  Codes'
  BY <1>2 DEF Codes, RowFound, CodeAfterAcceptance
<1>3. CASE Take
  <2>1. q \in Requests /\ job.act = "accept" /\ redeemed' = redeemed
    BY <1>3 DEF Take, Ledger, Decided
  <2>2. \A r \in Requests : taken[r] > 0 => taken'[r] > 0
    BY <1>3, <2>1 DEF Take, TypeOK
  <2>3. CASE KindOf[q] = "charge"
    <3>1. job'.at = "resolve"
      BY <1>3, <2>3, JobMoved DEF Take, TypeOK
    <3> QED BY <1>2, <2>1, <2>2, <3>1
  <2>4. CASE KindOf[q] # "charge"
    <3>1. Newest(Matching("accept", q)) \in Matching("accept", q) \cup {NoRequest}
      BY NewestIsOne
    <3>2. Matching("accept", q) \subseteq Requests
      BY <2>1, MatchingRows
    <3>3. job'.row = Newest(Matching("accept", q)) /\ job'.req = q
      BY <1>3, <2>4, <3>1, <3>2, JobFound DEF Take, TypeOK
    <3>4. RowFound'
      BY <3>1, <3>3 DEF RowFound, Matching
    <3>5. CodeAfterAcceptance'
      BY <2>1, <2>2 DEF Codes, CodeAfterAcceptance
    <3> QED BY <3>4, <3>5 DEF Codes
  <2> QED BY <2>3, <2>4
<1>4. CASE UseCode
  <2>1. job.at = "code" /\ job'.at = "order" /\ taken' = taken
    BY <1>4, JobMoved DEF UseCode, TypeOK
  <2>2. q \in Requests /\ taken[q] = 1 /\ KindOf[q] = "plan_card"
    BY <2>1 DEF Ledger, Decided
  <2>3. CASE UNCHANGED redeemed
    BY <1>2, <2>1, <2>3
  <2>4. CASE job.row \in Coded /\ redeemed' = [redeemed EXCEPT ![job.row] = @ + 1]
    <3>1. /\ job.row \in Requests /\ BuyerOf[job.row] = BuyerOf[q]
          /\ AmountOf[job.row] = AmountOf[q]
      BY <2>1, <2>4 DEF Codes, RowFound
    <3>2. \A r \in Requests : r # job.row => redeemed'[r] = redeemed[r]
      BY <2>4 DEF TypeOK
    <3>3. CodeAfterAcceptance'
      BY <2>1, <2>2, <3>1, <3>2 DEF Codes, CodeAfterAcceptance
    <3> QED BY <2>1, <3>3 DEF Codes, RowFound
  <2> QED BY <1>4, <2>3, <2>4 DEF UseCode
<1>5. ASSUME NEW r \in Requests, NEW act \in {"accept", "refuse"},
             NEW from \in {"chat", "list"}, Press(act, r, from)
      PROVE  Codes'
  <2>1. job'.at # "code" /\ UNCHANGED <<redeemed, taken>>
    BY <1>5, JobNone DEF Press, Stretch
  <2> QED BY <1>2, <2>1
<1>6. CASE MakeOrder
  <2>1. job'.at # "code" /\ UNCHANGED <<redeemed, taken>>
    BY <1>6, JobMoved DEF MakeOrder, TypeOK
  <2> QED BY <1>2, <2>1
<1>7. CASE Resolve \/ JobRaises \/ Crash
  <2>1. job'.at # "code" /\ UNCHANGED <<redeemed, taken>>
    BY <1>7, JobNone DEF Resolve, JobRaises, Crash
  <2> QED BY <1>2, <2>1
<1>8. CASE UNCHANGED vars
  BY <1>1, <1>8 DEF vars
<1>9. ASSUME NEW r \in Requests,
             ShowCard(r) \/ ChangeMethod(r) \/ ShowCardDirect(r) \/ ShowCardMini(r)
               \/ Upload(r) \/ Handle(r) \/ FileRaises(r) \/ SendFails(r)
               \/ Finish(r) \/ AskAmount(r) \/ Age(r) \/ Expire(r)
      PROVE  Codes'
  BY <1>1, <1>9 DEF ShowCard, ChangeMethod, ShowCardDirect, ShowCardMini, Upload,
     Handle, File, Drop, Send, Undo, Clear, FileRaises, SendFails, Finish, AskAmount,
     Age, Expire
<1>10. ASSUME NEW u \in Buyers, Leave(u) \/ Photo(u) PROVE Codes'
  BY <1>1, <1>10 DEF Leave, Photo
<1>11. CASE ClearList \/ ForgetTarget
  BY <1>1, <1>11 DEF ClearList, ForgetTarget
<1>12. CASE ChargeAmount
  <2>1. job'.at # "code" /\ redeemed' = redeemed
    BY <1>12, JobNone DEF ChargeAmount, Stretch
  <2>2. \A r \in Requests : taken[r] > 0 => taken'[r] > 0
    BY <1>12 DEF ChargeAmount, TypeOK
  <2> QED BY <1>2, <2>1, <2>2
<1> QED BY <1>3, <1>4, <1>5, <1>6, <1>7, <1>8, <1>9, <1>10, <1>11, <1>12 DEF Next, Decide, ApproveCharge, RejectCharge,
       ApprovePurchase, RejectPurchase

(* The fields of a conversation after each of its updates.                 *)
LEMMA ConvFields ==
  ASSUME NEW k \in Conv, NEW r \in Requests
  PROVE  /\ KindOf[r] = "charge" =>
              /\ CardTold(k, r).wait = "charge" /\ CardTold(k, r).charge = r
              /\ CardTold(k, r).inv = r /\ CardTold(k, r).plan = k.plan
              /\ InvoiceDropped(k, r).wait = "no" /\ InvoiceDropped(k, r).charge = k.charge
              /\ InvoiceDropped(k, r).inv = NoRequest /\ InvoiceDropped(k, r).plan = k.plan
         /\ KindOf[r] # "charge" =>
              /\ CardTold(k, r).wait = "plan_card" /\ CardTold(k, r).charge = k.charge
              /\ CardTold(k, r).inv = k.inv /\ CardTold(k, r).plan = r
              /\ InvoiceDropped(k, r).wait = "no" /\ InvoiceDropped(k, r).charge = k.charge
              /\ InvoiceDropped(k, r).inv = k.inv /\ InvoiceDropped(k, r).plan = NoRequest
         /\ AmountTold(k, r).wait = "charge" /\ AmountTold(k, r).charge = r
         /\ AmountTold(k, r).inv = k.inv /\ AmountTold(k, r).plan = k.plan
BY DEF Conv, CardTold, ChargeCardTold, PlanCardTold, AmountTold, InvoiceDropped, ChargeInvoiceDropped, PlanInvoiceDropped

(* Steps of the admin touch no invoice and no conversation.                *)
LEMMA SentFrame ==
  ASSUME Sent, invoice' = invoice, late' = late, filed' = filed, conv' = conv,
         at' = at, used' = used, hurt \subseteq hurt'
  PROVE  Sent'
<1>1. UsedUp' /\ FiledOnce' /\ GoneRightly'
  BY DEF Sent, UsedUp, FiledOnce, GoneRightly, Gone
<1>2. Talk'
  BY DEF Sent, Talk, Remembered
<1>3. Handled' /\ SubmittedHandled'
  BY DEF Sent, Handled, SubmittedHandled
<1> QED BY <1>1, <1>2, <1>3 DEF Sent

(* Invoices only go on: none, pending, submitted, deleted.                 *)
Onward ==
  \A q \in Requests :
    /\ invoice[q] # "none" => invoice'[q] # "none"
    /\ invoice[q] = "submitted" => invoice'[q] \in {"submitted", "deleted"}
    /\ invoice[q] = "deleted" => invoice'[q] = "deleted"

(* What follows for what no step touches but an invoice.                   *)
LEMMA UsedKept ==
  ASSUME TypeOK, UsedUp, Onward, used' = used PROVE UsedUp'
<1>1. \A r \in Requests : used[r] # NoRequest => used[r] \in Requests
  BY DEF TypeOK
<1> QED BY <1>1 DEF UsedUp, Onward

(* A conversation goes on remembering an invoice that was made.            *)
LEMMA TalkKept ==
  ASSUME TypeOK, Onward, used' = used, NEW u \in Buyers, Remembered(u), conv'[u] = conv[u]
  PROVE  Remembered(u)'
<1> DEFINE k == conv[u]
<1>1. k.charge \in Requests \cup {NoRequest} /\ k.inv \in Requests \cup {NoRequest}
      /\ k.plan \in Requests \cup {NoRequest}
  BY DEF TypeOK, Conv
<1>2. \A q \in Requests : invoice[q] \in {"none", "pending", "submitted", "deleted"}
  BY DEF TypeOK
<1>3. \A q \in Requests : invoice[q] \notin {"none", "pending"} => invoice'[q] # "pending"
  BY <1>2 DEF Onward
<1> QED BY <1>1, <1>3 DEF Remembered, Onward

(* An invoice is made.                                                      *)
LEMMA ShowCardSent ==
  ASSUME TypeOK, Sent, NEW r \in Requests, ShowCard(r) PROVE Sent'
<1> USE ReceiptAssumption DEF shop, buyer, admin, books
<1> DEFINE u == BuyerOf[r]
<1>1. /\ invoice[r] = "none" /\ r \notin Direct /\ ViaOf[r] = "bot" /\ u \in Buyers
      /\ invoice' = [invoice EXCEPT ![r] = "pending"]
      /\ UNCHANGED <<late, filed, at, used, hurt>>
  BY DEF ShowCard, TypeOK
<1>2. used[r] = NoRequest /\ \A q \in Requests : used[q] # r
  BY <1>1 DEF Sent, UsedUp
<1> Onward
  BY <1>1 DEF Onward, TypeOK
<1>3. UsedUp'
  BY <1>1, UsedKept DEF Sent
<1>4. FiledOnce'
  BY <1>1 DEF Sent, FiledOnce
<1>5. Handled' /\ SubmittedHandled'
  BY <1>1, <1>2 DEF Sent, Handled, SubmittedHandled, TypeOK
<1>6. conv[u] \in Conv /\ conv'[u] = CardTold(conv[u], r)
      /\ \A v \in Buyers : v # u => conv'[v] = conv[v]
  BY <1>1 DEF ShowCard, TypeOK
<1>7. Talk'
  <2>1. ASSUME NEW v \in Buyers, v # u PROVE Remembered(v)'
    BY <1>1, <1>6, <2>1, TalkKept DEF Sent, Talk
  <2>2. Remembered(u)'
    <3>1. /\ conv[u].charge \in Requests \cup {NoRequest}
          /\ conv[u].inv \in Requests \cup {NoRequest}
          /\ conv[u].plan \in Requests \cup {NoRequest}
      BY <1>6 DEF Conv
    <3>2. /\ invoice'[r] = "pending"
          /\ \A q \in Requests : q # r => invoice'[q] = invoice[q]
      BY <1>1 DEF TypeOK
    <3>3. Remembered(u)
      BY <1>1 DEF Sent, Talk
    <3>4. CASE KindOf[r] = "charge"
      BY <1>1, <1>2, <1>6, <3>1, <3>2, <3>3, <3>4, ConvFields DEF Remembered
    <3>5. CASE KindOf[r] # "charge"
      BY <1>1, <1>2, <1>6, <3>1, <3>2, <3>3, <3>5, ConvFields DEF Remembered
    <3> QED BY <3>4, <3>5
  <2> QED BY <2>1, <2>2 DEF Talk
<1>8. GoneRightly'
  <2> SUFFICES ASSUME NEW q \in Requests, invoice'[q] = "deleted",
                      q \in {conv'[BuyerOf[q]].inv, conv'[BuyerOf[q]].plan}
               PROVE  Gone(q)'
    BY DEF GoneRightly, Gone
  <2>1. q # r /\ invoice[q] = "deleted"
    BY <1>1 DEF TypeOK
  <2>2. q \in {conv[BuyerOf[q]].inv, conv[BuyerOf[q]].plan}
    BY <1>1, <1>6, <2>1, ConvFields
  <2> QED BY <1>1, <2>1, <2>2 DEF Sent, GoneRightly, Gone
<1> QED BY <1>3, <1>4, <1>5, <1>7, <1>8 DEF Sent

(* An invoice is made in the Mini App, and no conversation knows it.       *)
LEMMA ShowCardMiniSent ==
  ASSUME TypeOK, Sent, NEW r \in Requests, ShowCardMini(r) PROVE Sent'
<1> USE ReceiptAssumption DEF shop, buyer, admin, books
<1>1. /\ invoice[r] = "none" /\ ViaOf[r] = "miniapp"
      /\ invoice' = [invoice EXCEPT ![r] = "pending"]
      /\ UNCHANGED <<late, filed, conv, at, used, hurt>>
  BY DEF ShowCardMini
<1> Onward
  BY <1>1 DEF Onward, TypeOK
<1>2. \A q \in Requests : used[q] # r
  BY <1>1 DEF Sent, UsedUp
<1>3. UsedUp'
  BY <1>1, UsedKept DEF Sent
<1>4. FiledOnce'
  BY <1>1 DEF Sent, FiledOnce
<1>5. Handled' /\ SubmittedHandled'
  BY <1>1, <1>2 DEF Sent, Handled, SubmittedHandled, TypeOK
<1>6. Talk'
  BY <1>1, TalkKept DEF Sent, Talk
<1>7. GoneRightly'
  <2>1. \A q \in Requests : invoice'[q] = "deleted" => invoice[q] = "deleted"
    BY <1>1 DEF TypeOK
  <2> QED BY <1>1, <2>1 DEF Sent, GoneRightly, Gone
<1> QED BY <1>3, <1>4, <1>5, <1>6, <1>7 DEF Sent

(* Only conversations change, and remember no invoice they did not.        *)
LEMMA ConvSent ==
  ASSUME TypeOK, Sent, UNCHANGED <<invoice, late, filed, at, used, hurt>>, Talk',
         \A u \in Buyers : /\ conv'[u].inv \in {conv[u].inv, NoRequest}
                           /\ conv'[u].plan \in {conv[u].plan, NoRequest}
  PROVE  Sent'
<1> USE ReceiptAssumption
<1>1. UsedUp' /\ FiledOnce' /\ Handled' /\ SubmittedHandled'
  BY DEF Sent, UsedUp, FiledOnce, Handled, SubmittedHandled
<1>2. GoneRightly'
  BY DEF Sent, GoneRightly, Gone
<1> QED BY <1>1, <1>2 DEF Sent

(* A card is shown without an invoice.                                     *)
LEMMA ShowCardDirectSent ==
  ASSUME TypeOK, Sent, NEW r \in Requests, ShowCardDirect(r) PROVE Sent'
<1> USE ReceiptAssumption DEF shop, buyer, admin, books
<1> DEFINE u == BuyerOf[r]
<1>1. /\ r \in Direct /\ used[r] = NoRequest /\ u \in Buyers
      /\ KindOf[r] = "charge" /\ ViaOf[r] = "bot"
      /\ UNCHANGED <<invoice, late, filed, at, used, hurt>>
  BY DEF ShowCardDirect, TypeOK
<1>2. conv[u] \in Conv /\ conv'[u] = AmountTold(conv[u], r)
      /\ \A v \in Buyers : v # u => conv'[v] = conv[v]
  BY <1>1 DEF ShowCardDirect, TypeOK
<1>3. Talk'
  <2>1. ASSUME NEW v \in Buyers, v # u PROVE Remembered(v)'
    BY <1>1, <1>2, <2>1 DEF Sent, Talk, Remembered
  <2>2. Remembered(u)'
    BY <1>1, <1>2, ConvFields DEF Sent, Talk, Remembered
  <2> QED BY <2>1, <2>2 DEF Talk
<1>4. \A v \in Buyers : conv'[v].inv = conv[v].inv /\ conv'[v].plan = conv[v].plan
  BY <1>1, <1>2, ConvFields
<1> QED BY <1>1, <1>3, <1>4, ConvSent

(* A conversation that forgets remembers nothing wrong.                    *)
LEMMA Forgotten ==
  ASSUME NEW u \in Buyers, conv'[u] = NoConv PROVE Remembered(u)'
BY ConvNone DEF Remembered

(* Leaving a conversation.                                                 *)
LEMMA LeaveSent ==
  ASSUME TypeOK, Sent, NEW u \in Buyers, Leave(u) PROVE Sent'
<1> USE ReceiptAssumption DEF shop, buyer, admin, books
<1>1. UNCHANGED <<invoice, late, filed, at, used, hurt>>
  BY DEF Leave
<1>2. conv'[u] = NoConv /\ \A v \in Buyers : v # u => conv'[v] = conv[v]
  BY DEF Leave, TypeOK
<1>3. Talk'
  <2>1. ASSUME NEW v \in Buyers, v # u PROVE Remembered(v)'
    BY <1>1, <1>2, <2>1 DEF Sent, Talk, Remembered
  <2> QED BY <1>2, <2>1, Forgotten DEF Talk
<1>4. \A v \in Buyers : /\ conv'[v].inv \in {conv[v].inv, NoRequest}
                        /\ conv'[v].plan \in {conv[v].plan, NoRequest}
  BY <1>2, ConvNone
<1> QED BY <1>1, <1>3, <1>4, ConvSent

(* The invoice a conversation gives up is gone, and is not remembered.     *)
LEMMA ChangeMethodSent ==
  ASSUME TypeOK, Sent, NEW r \in Requests, ChangeMethod(r) PROVE Sent'
<1> USE ReceiptAssumption DEF shop, buyer, admin, books
<1> DEFINE u == BuyerOf[r]
           i == IF KindOf[r] = "charge" THEN conv[u].inv ELSE conv[u].plan
<1>1. /\ invoice' = [q \in Requests |-> IF q = i THEN "deleted" ELSE invoice[q]]
      /\ UNCHANGED <<late, filed, at, used, hurt>> /\ u \in Buyers
  BY DEF ChangeMethod
<1>2. conv[u] \in Conv /\ conv'[u] = InvoiceDropped(conv[u], r)
      /\ \A v \in Buyers : v # u => conv'[v] = conv[v]
  BY <1>1 DEF ChangeMethod, TypeOK
<1>3. /\ i # NoRequest => BuyerOf[i] = u /\ invoice[i] # "none"
      /\ i # NoRequest => (KindOf[i] = "charge" <=> KindOf[r] = "charge")
  BY <1>1 DEF Sent, Talk, Remembered
<1> Onward
  BY <1>1 DEF Onward, TypeOK
<1>4. UsedUp'
  BY <1>1, UsedKept DEF Sent
<1>5. FiledOnce'
  BY <1>1 DEF Sent, FiledOnce
<1>6. Handled'
  <2>1. \A q \in Requests : invoice[used[q]] = "deleted" /\ used[q] # NoRequest
                           => invoice'[used[q]] = "deleted"
    BY <1>1 DEF TypeOK
  <2>2. \A q \in Requests : at[q] # "idle" => used[q] # NoRequest
    BY DEF Sent, FiledOnce
  <2> QED BY <1>1, <2>1, <2>2 DEF Sent, Handled
<1>7. SubmittedHandled'
  BY <1>1 DEF Sent, SubmittedHandled
<1>8. Talk'
  <2>1. ASSUME NEW v \in Buyers, v # u PROVE Remembered(v)'
    BY <1>1, <1>2, <2>1, TalkKept DEF Sent, Talk
  <2>2. Remembered(u)'
    <3>1. /\ conv[u].charge \in Requests \cup {NoRequest}
          /\ conv[u].inv \in Requests \cup {NoRequest}
          /\ conv[u].plan \in Requests \cup {NoRequest}
      BY <1>2 DEF Conv
    <3>2. \A q \in Requests : /\ invoice[q] # "none" => invoice'[q] # "none"
                             /\ invoice[q] # "pending" => invoice'[q] # "pending"
      BY <1>1 DEF TypeOK
    <3>3. CASE KindOf[r] = "charge"
      BY <1>1, <1>2, <3>1, <3>2, <3>3, ConvFields DEF Sent, Talk, Remembered
    <3>4. CASE KindOf[r] # "charge"
      BY <1>1, <1>2, <3>1, <3>2, <3>4, ConvFields DEF Sent, Talk, Remembered
    <3> QED BY <3>3, <3>4
  <2> QED BY <2>1, <2>2 DEF Talk
<1>9. GoneRightly'
  <2> SUFFICES ASSUME NEW q \in Requests, invoice'[q] = "deleted",
                      q \in {conv'[BuyerOf[q]].inv, conv'[BuyerOf[q]].plan}
               PROVE  Gone(q)'
    BY DEF GoneRightly, Gone
  <2>1. q \in {conv[BuyerOf[q]].inv, conv[BuyerOf[q]].plan}
    BY <1>1, <1>2, ConvFields
  <2>2. q # i
    <3> SUFFICES ASSUME q = i PROVE FALSE
      OBVIOUS
    <3>1. BuyerOf[q] = u /\ (KindOf[q] = "charge" <=> KindOf[r] = "charge")
      BY <1>3
    <3>2. /\ conv[u].inv # NoRequest => KindOf[conv[u].inv] = "charge"
          /\ conv[u].plan # NoRequest => KindOf[conv[u].plan] = "plan_card"
      BY <1>1 DEF Sent, Talk, Remembered
    <3> QED BY <1>2, <3>1, <3>2, ConvFields
  <2> QED BY <1>1, <2>1, <2>2 DEF Sent, GoneRightly, Gone
<1> QED BY <1>4, <1>5, <1>6, <1>7, <1>8, <1>9 DEF Sent

(* An invoice is consumed for a request that had none.                     *)
LEMMA Consumed ==
  ASSUME TypeOK, Sent, NEW r \in Requests, NEW i \in Requests,
         invoice[i] = "pending", used[r] = NoRequest,
         ViaOf[r] = "miniapp" \/ KindOf[r] = "plan_card" => i = r,
         r \notin Direct => invoice[r] # "none",
         \A u \in Buyers : conv[u].charge = r => conv[u].inv \in {i, NoRequest},
         invoice' = [invoice EXCEPT ![i] = "submitted"],
         GoesTo(r, "file"), used' = [used EXCEPT ![r] = i],
         UNCHANGED <<late, filed, conv, hurt>>
  PROVE  Sent'
<1> USE ReceiptAssumption DEF GoesTo
<1>1. /\ used'[r] = i /\ invoice'[i] = "submitted" /\ at'[r] = "file"
      /\ \A q \in Requests : q # r => used'[q] = used[q] /\ at'[q] = at[q]
      /\ \A q \in Requests : q # i => invoice'[q] = invoice[q]
  BY DEF TypeOK
<1>2. \A q \in Requests : used[q] \in Requests \cup {NoRequest} /\ used[q] # i
  <2>1. \A q \in Requests : used[q] \in Requests \cup {NoRequest}
    BY DEF TypeOK
  <2>2. \A q \in Requests : used[q] # i
    BY DEF Sent, UsedUp
  <2> QED BY <2>1, <2>2
<1>3. UsedUp'
  BY <1>1, <1>2 DEF Sent, UsedUp
<1>4. FiledOnce'
  <2>1. \A j \in 1..Len(filed) : filed[j] \in Requests
    BY DEF TypeOK
  <2>2. \A j \in 1..Len(filed) : filed[j] # r
    BY DEF Sent, FiledOnce
  <2> QED BY <1>1, <2>1, <2>2 DEF Sent, FiledOnce
<1>5. Talk'
  <2> SUFFICES ASSUME NEW u \in Buyers PROVE Remembered(u)'
    BY DEF Talk
  <2>1. /\ conv[u].charge \in Requests \cup {NoRequest}
        /\ conv[u].inv \in Requests \cup {NoRequest}
        /\ conv[u].plan \in Requests \cup {NoRequest}
    BY DEF TypeOK, Conv
  <2>2. \A q \in Requests : /\ invoice[q] # "none" => invoice'[q] # "none"
                           /\ invoice[q] # "pending" => invoice'[q] # "pending"
    BY <1>1
  <2> QED BY <1>1, <2>1, <2>2 DEF Sent, Talk, Remembered
<1>6. GoneRightly'
  BY <1>1 DEF Sent, GoneRightly, Gone
<1>7. Handled'
  BY <1>1, <1>2 DEF Sent, Handled, FiledOnce
<1>8. SubmittedHandled'
  BY <1>1 DEF Sent, SubmittedHandled
<1> QED BY <1>3, <1>4, <1>5, <1>6, <1>7, <1>8 DEF Sent

(* An upload of the Mini App consumes its own invoice.                     *)
LEMMA UploadSent ==
  ASSUME TypeOK, Sent, NEW r \in Requests, Upload(r) PROVE Sent'
<1> USE ReceiptAssumption DEF shop, buyer, admin, books
<1>1. ViaOf[r] = "miniapp" /\ invoice[r] = "pending" /\ r \notin Direct
  BY DEF Upload, Consumable
<1>2. used[r] = NoRequest
  BY <1>1 DEF Sent, UsedUp
<1>3. \A u \in Buyers : conv[u].charge # r
  BY <1>1 DEF Sent, Talk, Remembered
<1> QED BY <1>1, <1>2, <1>3, Consumed DEF Upload

(* A photo consumes the invoice the conversation remembers.                *)
LEMMA PhotoSent ==
  ASSUME TypeOK, Sent, NEW u \in Buyers, Photo(u) PROVE Sent'
<1> USE ReceiptAssumption DEF shop, buyer, admin, books
<1> DEFINE r == Awaited(u)
           i == Invoice(u)
<1>0. UNCHANGED <<late, filed, hurt>>
  BY DEF Photo
<1>1. CASE r # NoRequest /\ Consumable(i)
  <2>1. r \in Requests /\ i \in Requests /\ invoice[i] = "pending"
    BY <1>1 DEF TypeOK, Conv, Awaited, Invoice, Consumable
  <2>2. /\ invoice' = [invoice EXCEPT ![i] = "submitted"]
        /\ GoesTo(r, "file") /\ used' = [used EXCEPT ![r] = i] /\ conv' = conv
    BY <1>1 DEF Photo
  <2>3. CASE conv[u].wait = "charge"
    <3>1. r = conv[u].charge /\ i = conv[u].inv
      BY <2>3 DEF Awaited, Invoice
    <3>2. /\ used[r] = NoRequest /\ KindOf[r] = "charge" /\ ViaOf[r] = "bot"
          /\ r \notin Direct => invoice[r] # "none"
      BY <2>1, <3>1 DEF Sent, Talk, Remembered
    <3>3. \A v \in Buyers : conv[v].charge = r => conv[v].inv = i
      BY <2>1, <3>1 DEF Sent, Talk, Remembered
    <3>4. ViaOf[r] = "miniapp" \/ KindOf[r] = "plan_card" => i = r
      BY <3>2
    <3>5. \A v \in Buyers : conv[v].charge = r => conv[v].inv \in {i, NoRequest}
      BY <3>3
    <3> HIDE DEF r, i
    <3> QED BY <1>0, <2>1, <2>2, <3>2, <3>4, <3>5, Consumed
  <2>4. CASE conv[u].wait # "charge"
    <3>1. r = conv[u].plan /\ i = r
      BY <2>4 DEF Awaited, Invoice
    <3>2. KindOf[r] = "plan_card" /\ invoice[r] # "none"
      BY <2>1, <3>1 DEF Sent, Talk, Remembered
    <3>3. used[r] = NoRequest
      BY <2>1, <3>1, <3>2 DEF Sent, UsedUp
    <3>4. \A v \in Buyers : conv[v].charge # r
      BY <2>1, <3>2 DEF Sent, Talk, Remembered
    <3>5. \A v \in Buyers : conv[v].charge = r => conv[v].inv \in {i, NoRequest}
      BY <3>4
    <3>6. i = r
      BY <3>1
    <3> HIDE DEF r, i
    <3> QED BY <1>0, <2>1, <2>2, <3>2, <3>3, <3>5, <3>6, Consumed
  <2> QED BY <2>3, <2>4
<1>2. CASE ~(r # NoRequest /\ Consumable(i))
  <2>1. /\ conv'[u] = NoConv /\ \A v \in Buyers : v # u => conv'[v] = conv[v]
        /\ UNCHANGED <<invoice, at, used>>
    BY <1>2 DEF Photo, TypeOK
  <2>2. Talk'
    <3>1. ASSUME NEW v \in Buyers, v # u PROVE Remembered(v)'
      BY <2>1, <3>1 DEF Sent, Talk, Remembered
    <3> QED BY <2>1, <3>1, Forgotten DEF Talk
  <2>3. \A v \in Buyers : /\ conv'[v].inv \in {conv[v].inv, NoRequest}
                          /\ conv'[v].plan \in {conv[v].plan, NoRequest}
    BY <2>1, ConvNone
  <2> QED BY <1>0, <2>1, <2>2, <2>3, ConvSent
<1> QED BY <1>1, <1>2

(* A handler moves on without touching an invoice.                         *)
LEMMA FiledKept ==
  ASSUME TypeOK, Sent, NEW r \in Requests, NEW s, s # "file", at[r] # "idle", GoesTo(r, s),
         UNCHANGED <<filed, used>>
  PROVE  FiledOnce'
<1>1. \A q \in Requests : q # r => at'[q] = at[q]
  BY DEF GoesTo, TypeOK
<1>2. at'[r] = s
  BY DEF GoesTo, TypeOK
<1>3. \A j \in 1..Len(filed) : filed[j] \in Requests
  BY DEF TypeOK
<1> QED BY <1>1, <1>2, <1>3 DEF Sent, FiledOnce

(* A handler that moves on leaves all invoices as they are.                *)
LEMMA MovedOn ==
  ASSUME TypeOK, Sent, NEW r \in Requests, NEW s, at[r] # "idle", GoesTo(r, s),
         s = "clear" \/ (ViaOf[r] = "bot" /\ s = "send") => invoice[used[r]] = "deleted",
         s = "clear" => ViaOf[r] = "bot",
         s = "undo" => r \in hurt',
         s = "idle" => r \in hurt' \/ invoice[used[r]] # "submitted",
         UNCHANGED <<invoice, late, used>>, hurt \subseteq hurt', FiledOnce', Talk',
         \A u \in Buyers : /\ conv'[u].inv \in {conv[u].inv, NoRequest}
                           /\ conv'[u].plan \in {conv[u].plan, NoRequest}
  PROVE  Sent'
<1> USE ReceiptAssumption
<1>1. at'[r] = s /\ \A q \in Requests : q # r => at'[q] = at[q]
  BY DEF GoesTo, TypeOK
<1>2. UsedUp' /\ GoneRightly'
  BY DEF Sent, UsedUp, GoneRightly, Gone
<1>3. Handled'
  BY <1>1 DEF Sent, Handled
<1>4. SubmittedHandled'
  BY <1>1 DEF Sent, SubmittedHandled
<1> QED BY <1>2, <1>3, <1>4 DEF Sent

(* The row of a receipt is written once.                                   *)
LEMMA FileSent ==
  ASSUME TypeOK, Sent, NEW r \in Requests, File(r) PROVE Sent'
<1> USE ReceiptAssumption DEF shop, buyer, admin, books
<1> DEFINE s == AfterFile(r)
<1>1. /\ at[r] = "file" /\ GoesTo(r, s) /\ filed' = Append(filed, r)
      /\ UNCHANGED <<invoice, late, conv, used, hurt>>
  BY DEF File
<1>2. s \in {"drop", "send"} /\ (ViaOf[r] = "bot" => s # "send")
  BY DEF AfterFile
<1>3. FiledOnce'
  <2>1. at'[r] = s /\ \A q \in Requests : q # r => at'[q] = at[q]
    BY <1>1 DEF GoesTo, TypeOK
  <2>2. /\ \A j \in 1..Len(filed) : filed[j] \in Requests /\ filed[j] # r
        /\ used[r] # NoRequest
    <3>1. \A j \in 1..Len(filed) : filed[j] \in Requests
      BY DEF TypeOK
    <3>2. (\A j \in 1..Len(filed) : filed[j] # r) /\ used[r] # NoRequest
      BY <1>1 DEF Sent, FiledOnce
    <3> QED BY <3>1, <3>2
  <2>3. /\ Len(filed) \in Nat /\ Len(filed') = Len(filed) + 1
        /\ filed'[Len(filed) + 1] = r
        /\ \A j \in 1..Len(filed) : filed'[j] = filed[j]
    BY <1>1 DEF TypeOK
  <2>4. \A j \in 1..Len(filed') : j \in 1..Len(filed) \/ j = Len(filed) + 1
    BY <2>3
  <2>5. \A j \in 1..Len(filed') : at'[filed'[j]] # "file" /\ used'[filed'[j]] # NoRequest
    BY <1>1, <1>2, <2>1, <2>2, <2>3, <2>4 DEF Sent, FiledOnce
  <2>6. \A j, l \in 1..Len(filed') : filed'[j] = filed'[l] => j = l
    BY <2>2, <2>3, <2>4 DEF Sent, FiledOnce
  <2>7. \A q \in Requests : used'[q] = NoRequest => at'[q] = "idle"
    BY <1>1, <2>1, <2>2 DEF Sent, FiledOnce
  <2> QED BY <2>5, <2>6, <2>7 DEF FiledOnce
<1>4. Talk'
  BY <1>1 DEF Sent, Talk, Remembered
<1> QED BY <1>1, <1>2, <1>3, <1>4, MovedOn

(* The row is not written, and its request is marked as hurt.              *)
LEMMA FileRaisesSent ==
  ASSUME TypeOK, Sent, NEW r \in Requests, FileRaises(r) PROVE Sent'
<1> USE ReceiptAssumption DEF shop, buyer, admin, books
<1> DEFINE s == AfterFile(r)
<1>1. /\ at[r] = "file" /\ GoesTo(r, s) /\ hurt \subseteq hurt'
      /\ UNCHANGED <<invoice, late, filed, conv, used>>
  BY DEF FileRaises
<1>2. s \in {"drop", "send"} /\ (ViaOf[r] = "bot" => s # "send")
  BY DEF AfterFile
<1>3. FiledOnce' /\ Talk'
  BY <1>1, <1>2, FiledKept DEF Sent, Talk, Remembered
<1> QED BY <1>1, <1>2, <1>3, MovedOn

(* The receipt reaches the admin.                                          *)
LEMMA SendSent ==
  ASSUME TypeOK, Sent, NEW r \in Requests, Send(r) PROVE Sent'
<1> USE ReceiptAssumption DEF shop, buyer, admin, books
<1> DEFINE s == IF ViaOf[r] = "bot" THEN "clear" ELSE "drop"
<1>1. /\ at[r] = "send" /\ GoesTo(r, s)
      /\ UNCHANGED <<invoice, late, filed, conv, used, hurt>>
  BY DEF Send
<1>2. ViaOf[r] = "bot" => invoice[used[r]] = "deleted"
  BY <1>1 DEF Sent, Handled
<1>3. FiledOnce' /\ Talk'
  BY <1>1, FiledKept DEF Sent, Talk, Remembered
<1> QED BY <1>1, <1>2, <1>3, MovedOn

(* The receipt is not sent, and its request is marked as hurt.             *)
LEMMA SendFailsSent ==
  ASSUME TypeOK, Sent, NEW r \in Requests, SendFails(r) PROVE Sent'
<1> USE ReceiptAssumption DEF shop, buyer, admin, books
<1> DEFINE s == IF ViaOf[r] = "bot" THEN "idle" ELSE "undo"
<1>1. /\ at[r] = "send" /\ GoesTo(r, s) /\ hurt \subseteq hurt' /\ r \in hurt'
      /\ UNCHANGED <<invoice, late, filed, conv, used>>
  BY DEF SendFails
<1>2. FiledOnce' /\ Talk'
  BY <1>1, FiledKept DEF Sent, Talk, Remembered
<1> QED BY <1>1, <1>2, MovedOn

(* The row of an upload is taken back.                                     *)
LEMMA UndoSent ==
  ASSUME TypeOK, Sent, NEW r \in Requests, Undo(r) PROVE Sent'
<1> USE ReceiptAssumption DEF shop, buyer, admin, books
<1>1. /\ at[r] = "undo" /\ GoesTo(r, "idle")
      /\ UNCHANGED <<invoice, late, filed, conv, used, hurt>>
  BY DEF Undo
<1>2. r \in hurt
  BY <1>1 DEF Sent, Handled
<1>3. FiledOnce' /\ Talk'
  BY <1>1, FiledKept DEF Sent, Talk, Remembered
<1> QED BY <1>1, <1>2, <1>3, MovedOn

(* The conversation is cleared after the photo.                            *)
LEMMA ClearSent ==
  ASSUME TypeOK, Sent, NEW r \in Requests, Clear(r) PROVE Sent'
<1> USE ReceiptAssumption DEF shop, buyer, admin, books
<1> DEFINE u == BuyerOf[r]
<1>1. /\ at[r] = "clear" /\ GoesTo(r, "idle") /\ u \in Buyers
      /\ UNCHANGED <<invoice, late, filed, used, hurt>>
  BY DEF Clear
<1>2. invoice[used[r]] = "deleted"
  BY <1>1 DEF Sent, Handled
<1>3. /\ conv[u] \in Conv /\ \A v \in Buyers : v # u => conv'[v] = conv[v]
      /\ conv'[u] = IF KindOf[r] = "charge" THEN NoConv ELSE InvoiceDropped(conv[u], r)
  BY <1>1 DEF Clear, TypeOK
<1>4. Talk'
  <2>1. ASSUME NEW v \in Buyers, v # u PROVE Remembered(v)'
    BY <1>1, <1>3, <2>1 DEF Sent, Talk, Remembered
  <2>2. Remembered(u)'
    <3>1. CASE KindOf[r] = "charge"
      BY <1>1, <1>3, <3>1, Forgotten
    <3>2. CASE KindOf[r] # "charge"
      BY <1>1, <1>3, <3>2, ConvFields DEF Sent, Talk, Remembered
    <3> QED BY <3>1, <3>2
  <2> QED BY <2>1, <2>2 DEF Talk
<1>5. \A v \in Buyers : /\ conv'[v].inv \in {conv[v].inv, NoRequest}
                        /\ conv'[v].plan \in {conv[v].plan, NoRequest}
  BY <1>3, ConvNone, ConvFields
<1>6. FiledOnce'
  BY <1>1, FiledKept
<1> QED BY <1>1, <1>2, <1>4, <1>5, <1>6, MovedOn

(* An invoice is deleted.                                                  *)
LEMMA DeletedSent ==
  ASSUME TypeOK, Sent, NEW i \in Requests, invoice[i] # "none",
         invoice' = [invoice EXCEPT ![i] = "deleted"], Gone(i),
         UNCHANGED <<late, filed, conv, at, used, hurt>>
  PROVE  Sent'
<1> USE ReceiptAssumption
<1> Onward
  BY DEF Onward, TypeOK
<1>1. UsedUp' /\ Talk'
  BY UsedKept, TalkKept DEF Sent, Talk
<1>2. FiledOnce'
  BY DEF Sent, FiledOnce
<1>3. \A q \in Requests : invoice'[q] = IF q = i THEN "deleted" ELSE invoice[q]
  BY DEF TypeOK
<1>4. Handled'
  <2>1. \A q \in Requests : at[q] # "idle" => used[q] \in Requests
    BY DEF Sent, FiledOnce, TypeOK
  <2> QED BY <1>3, <2>1 DEF Sent, Handled
<1>5. SubmittedHandled'
  BY <1>3 DEF Sent, SubmittedHandled
<1>6. GoneRightly'
  BY <1>3 DEF Sent, GoneRightly, Gone
<1> QED BY <1>1, <1>2, <1>4, <1>5, <1>6 DEF Sent

(* The invoice of a receipt is deleted by the receipt's handler.           *)
LEMMA DropSent ==
  ASSUME TypeOK, Sent, NEW r \in Requests, Drop(r) PROVE Sent'
<1> USE ReceiptAssumption DEF shop, buyer, admin, books
<1> DEFINE i == used[r]
           s == IF ViaOf[r] = "bot" THEN "send" ELSE "idle"
<1>1. /\ at[r] = "drop" /\ invoice' = [invoice EXCEPT ![i] = "deleted"]
      /\ GoesTo(r, s) /\ UNCHANGED <<late, filed, conv, used, hurt>>
  BY DEF Drop
<1>2. i \in Requests /\ invoice[i] # "none"
  <2>1. i # NoRequest
    BY <1>1 DEF Sent, FiledOnce
  <2>2. i \in Requests
    BY <2>1 DEF TypeOK
  <2>3. invoice[i] \in {"submitted", "deleted"}
    BY <2>1, <2>2 DEF Sent, UsedUp
  <2> QED BY <2>2, <2>3
<1>3. \A q \in Requests : invoice'[q] = IF q = i THEN "deleted" ELSE invoice[q]
  BY <1>1 DEF TypeOK
<1>4. at'[r] = s /\ \A q \in Requests : q # r => at'[q] = at[q]
  BY <1>1 DEF GoesTo, TypeOK
<1> Onward
  BY <1>3 DEF Onward, TypeOK
<1>5. UsedUp' /\ Talk'
  BY <1>1, UsedKept, TalkKept DEF Sent, Talk
<1>6. FiledOnce'
  BY <1>1, FiledKept
<1>7. Handled'
  <2>1. \A q \in Requests : at[q] # "idle" => used[q] \in Requests
    BY DEF Sent, FiledOnce, TypeOK
  <2> QED BY <1>1, <1>2, <1>3, <1>4, <2>1 DEF Sent, Handled
<1>8. SubmittedHandled'
  BY <1>1, <1>3, <1>4 DEF Sent, SubmittedHandled
<1>9. GoneRightly'
  BY <1>1, <1>3 DEF Sent, GoneRightly, Gone
<1> QED BY <1>5, <1>6, <1>7, <1>8, <1>9 DEF Sent

(* Time passes.                                                            *)
LEMMA AgeSent ==
  ASSUME TypeOK, Sent, NEW r \in Requests, Age(r) PROVE Sent'
<1> USE ReceiptAssumption DEF shop, buyer, admin, books
<1>1. /\ late' = [late EXCEPT ![r] = TRUE]
      /\ UNCHANGED <<invoice, filed, conv, at, used, hurt>>
  BY DEF Age
<1>2. \A q \in Requests : late[q] => late'[q]
  BY <1>1 DEF TypeOK
<1>3. UsedUp' /\ FiledOnce' /\ Handled' /\ SubmittedHandled'
  BY <1>1 DEF Sent, UsedUp, FiledOnce, Handled, SubmittedHandled
<1>4. Talk'
  BY <1>1 DEF Sent, Talk, Remembered
<1>5. GoneRightly'
  BY <1>1, <1>2 DEF Sent, GoneRightly, Gone
<1> QED BY <1>3, <1>4, <1>5 DEF Sent

(* A crash marks every request whose handler it ends.                      *)
LEMMA CrashSent ==
  ASSUME TypeOK, Sent, Crash PROVE Sent'
<1> USE ReceiptAssumption DEF shop, buyer, admin, books
<1>1. /\ \A q \in Requests : at'[q] = "idle"
      /\ \A q \in Requests : q \in hurt \/ at[q] # "idle" => q \in hurt'
      /\ UNCHANGED <<invoice, late, filed, conv, used>>
  BY DEF Crash
<1>2. \A j \in 1..Len(filed) : filed[j] \in Requests
  BY DEF TypeOK
<1>3. UsedUp' /\ GoneRightly'
  BY <1>1 DEF Sent, UsedUp, GoneRightly, Gone
<1>4. FiledOnce'
  BY <1>1, <1>2 DEF Sent, FiledOnce
<1>5. Talk'
  BY <1>1 DEF Sent, Talk, Remembered
<1>6. Handled' /\ SubmittedHandled'
  BY <1>1 DEF Sent, Handled, SubmittedHandled
<1> QED BY <1>3, <1>4, <1>5, <1>6 DEF Sent

(* Every step keeps what is known of the invoices.                         *)
LEMMA SentStep == TypeOK /\ Sent /\ [Next]_vars => Sent'
<1> SUFFICES ASSUME TypeOK, Sent, [Next]_vars PROVE Sent'
  OBVIOUS
<1> USE DEF shop, buyer, admin, books
<1>1. CASE UNCHANGED vars
  BY <1>1, SentFrame DEF vars
<1>2. ASSUME NEW r \in Requests,
             ShowCard(r) \/ ChangeMethod(r) \/ ShowCardDirect(r) \/ ShowCardMini(r)
               \/ Upload(r) \/ Handle(r) \/ FileRaises(r) \/ SendFails(r) \/ Age(r)
      PROVE  Sent'
  BY <1>2, ShowCardSent, ChangeMethodSent, ShowCardDirectSent, ShowCardMiniSent, UploadSent,
     FileSent, DropSent, SendSent, UndoSent, ClearSent, FileRaisesSent, SendFailsSent, AgeSent
     DEF Handle
<1>3. ASSUME NEW r \in Requests, Finish(r) \/ AskAmount(r) PROVE Sent'
  BY <1>3, SentFrame DEF Finish, AskAmount
<1>4. ASSUME NEW r \in Requests, Expire(r) PROVE Sent'
  BY <1>4, DeletedSent DEF Expire, Gone
<1>5. ASSUME NEW r \in Requests, NEW act \in {"accept", "refuse"},
             NEW from \in {"chat", "list"}, Press(act, r, from)
      PROVE  Sent'
  BY <1>5, SentFrame DEF Press
<1>6. ASSUME NEW u \in Buyers, Leave(u) \/ Photo(u) PROVE Sent'
  BY <1>6, LeaveSent, PhotoSent
<1>7. CASE ClearList \/ Take \/ UseCode \/ MakeOrder \/ Resolve \/ JobRaises
             \/ ChargeAmount \/ ForgetTarget
  BY <1>7, SentFrame DEF ClearList, Take, UseCode, MakeOrder, Resolve, JobRaises,
     ChargeAmount, ForgetTarget
<1>8. CASE Crash
  BY <1>8, CrashSent
<1> QED BY <1>1, <1>2, <1>3, <1>4, <1>5, <1>6, <1>7, <1>8 DEF Next, Decide, ApproveCharge, RejectCharge,
       ApprovePurchase, RejectPurchase

-----------------------------------------------------------------------------
(* The inductive invariant.                                                *)
IInv == TypeOK /\ Ledger /\ Codes /\ Sent

(* It holds at the start ...                                               *)
LEMMA InitIInv == Init => IInv
<1> SUFFICES ASSUME Init PROVE IInv
  OBVIOUS
<1> USE ReceiptAssumption
<1>1. TypeOK
  BY ConvNone, JobNone DEF Init, TypeOK
<1>2. Ledger
  BY JobNone DEF Init, Ledger, ChargedOnce, RecordedOrdered, Decided
<1>3. Codes
  BY JobNone DEF Init, Codes, RowFound, CodeAfterAcceptance
<1>4. Sent
  BY ConvNone DEF Init, Sent, UsedUp, FiledOnce, Talk, Remembered, GoneRightly, Handled,
     SubmittedHandled
<1> QED BY <1>1, <1>2, <1>3, <1>4 DEF IInv

(* ... and every step keeps it ...                                         *)
LEMMA NextIInv == IInv /\ [Next]_vars => IInv'
BY TypeStep, LedgerStep, CodesStep, SentStep DEF IInv, Ledger

(* ... so that it holds in every reachable state.                          *)
THEOREM Invariance == Spec => []IInv
BY InitIInv, NextIInv, PTL DEF Spec

(* The types of the tables, conversations and decisions.                   *)
THEOREM TypeCorrect == Spec => []TypeOK
BY Invariance, PTL DEF IInv

(* A receipt is accepted, and ordered for, at most once: whatever it is    *)
(* charged beyond that the admin has typed by hand.                        *)
THEOREM AcceptedOnce == Spec => []ChargedOnce
<1>1. IInv => ChargedOnce
  BY DEF IInv, Ledger
<1> QED BY <1>1, Invariance, PTL

(* A recorded purchase has its order, unless its decision was stopped.     *)
THEOREM PurchasesOrdered == Spec => []RecordedOrdered
<1>1. IInv => RecordedOrdered
  BY DEF IInv, Ledger
<1> QED BY <1>1, Invariance, PTL

(* A code is charged for accepted purchases of its amount only.            *)
THEOREM CodesForAccepted == Spec => []CodeAfterAcceptance
<1>1. IInv => CodeAfterAcceptance
  BY DEF IInv, Codes
<1> QED BY <1>1, Invariance, PTL

(* One invoice admits one receipt.                                         *)
THEOREM InvoiceAdmitsOne == Spec => []OneReceiptEach
<1>1. IInv => OneReceiptEach
  <2> SUFFICES ASSUME IInv, NEW i \in 1..Len(filed), NEW j \in 1..Len(filed),
                      used[filed[i]] = used[filed[j]]
               PROVE  i = j
    BY DEF OneReceiptEach
  <2>1. filed[i] \in Requests /\ filed[j] \in Requests
    <3>1. filed \in Seq(Requests)
      BY DEF IInv, TypeOK
    <3> QED BY <3>1
  <2>2. used[filed[i]] # NoRequest
    BY DEF IInv, Sent, FiledOnce
  <2>3. filed[i] = filed[j]
    BY <2>1, <2>2 DEF IInv, Sent, UsedUp
  <2> QED BY <2>3 DEF IInv, Sent, FiledOnce
<1> QED BY <1>1, Invariance, PTL

(* No invoice is left submitted by the ordinary way of a receipt.          *)
THEOREM InvoicesHandled == Spec => []SubmittedHandled
<1>1. IInv => SubmittedHandled
  BY DEF IInv, Sent
<1> QED BY <1>1, Invariance, PTL

(* A buyer is told that the time is over only if it is, or a receipt was   *)
(* received, or the card was shown without an invoice.                     *)
THEOREM LateIsLate == Spec => []ToldLateRightly
<1>1. IInv => ToldLateRightly
  <2> SUFFICES ASSUME IInv, NEW u \in Buyers, conv[u].wait # "no",
                      Awaited(u) \notin Direct \cup {NoRequest}, ~Consumable(Invoice(u))
               PROVE  Gone(Awaited(u))
    BY DEF ToldLateRightly, Gone
  <2> DEFINE r == Awaited(u)
  <2> USE ReceiptAssumption
  <2>1. r \in Requests
    BY DEF IInv, TypeOK, Conv, Awaited
  <2>2. /\ Invoice(u) = r /\ BuyerOf[r] = u /\ r \in {conv[u].inv, conv[u].plan}
        /\ invoice[r] # "none"
    BY <2>1 DEF IInv, Sent, Talk, Remembered, Awaited, Invoice
  <2>3. CASE invoice[r] = "pending"
    BY <2>1, <2>2, <2>3 DEF Consumable, Gone
  <2>4. CASE invoice[r] = "submitted"
    BY <2>1, <2>4 DEF IInv, Sent, SubmittedHandled, Gone
  <2>5. CASE invoice[r] = "deleted"
    BY <2>1, <2>2, <2>5 DEF IInv, Sent, GoneRightly
  <2> QED BY <2>1, <2>2, <2>3, <2>4, <2>5 DEF IInv, TypeOK
<1> QED BY <1>1, Invariance, PTL
=============================================================================
