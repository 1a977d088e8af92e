--------------------------- MODULE OnlinePayment ---------------------------
(***************************************************************************)
(* The life of one row of the table online_payments: created when a link   *)
(* of the gateway is handed out, paid outside the program, turned into an  *)
(* order (or a wallet credit) by whichever caller notices it first, and    *)
(* deleted by the expiry loop when its thirty minutes are over.            *)
(*                                                                         *)
(* Callers.  The poller and the "check payment" buttons are coroutines of  *)
(* one asyncio loop: between two awaits they cannot be interleaved with    *)
(* each other.  The Mini App is served by Flask threads of the same        *)
(* process, which are started BEFORE the loop and run at any time.  Every  *)
(* "with transaction()" block of database.py is one step, because a        *)
(* process-wide lock is held from its first statement to its commit.       *)
(***************************************************************************)
EXTENDS Naturals, FiniteSets

CONSTANTS
  Payments,     \* ids of the rows of online_payments (autoincrement numbers)
  Users,        \* the buyers
  KindOf,       \* [Payments -> Kinds]: the column kind
  OriginOf,     \* [Payments -> Origins]: the front end that created the row
  OwnerOf,      \* [Payments -> Users]: the column user_id
  Coded,        \* the plan payments whose price used the discount code
  Refused,      \* wallet charges outside the bounds that only the bot checks
  BotTasks,     \* coroutines of the bot: the poller and the button handlers
  Poller,       \* the one of them that is online_payment_poller
  MiniThreads,  \* Flask threads serving /api/orders/online/status
  CodeUses,     \* uses the discount code starts with
  CapPerUser,   \* max_uses_per_user of the code, 0 for no cap
  PollLimit,    \* rows fetched per cycle of the poller (50 in the code)
  FaultPoints,  \* the database calls that may raise
  MaxFaults,    \* bound: how many of them do
  MaxCrashes    \* bound: how often the process dies

Kinds   == {"plan", "custom", "wallet_charge"}
Origins == {"bot", "miniapp"}
Workers == BotTasks \cup MiniThreads

(* The stretch of a finalize function that runs without an await: from the *)
(* row it has claimed to its return or its except clause.                  *)
Finalizing == {"make", "audit", "mark", "discount", "referral", "release"}

(* No payment is being worked on.                                          *)
NoPayment == 0

ASSUME PaymentsAssumption ==
  /\ Payments \subseteq Nat \ {NoPayment} /\ IsFiniteSet(Payments)
  /\ KindOf \in [Payments -> Kinds]
  /\ OriginOf \in [Payments -> Origins]
  /\ OwnerOf \in [Payments -> Users]
  /\ Coded \subseteq {p \in Payments : KindOf[p] = "plan"}
  /\ Refused \subseteq {p \in Payments : /\ KindOf[p] = "wallet_charge"
                                       /\ OriginOf[p] = "miniapp"}

ASSUME WorkersAssumption ==
  /\ IsFiniteSet(BotTasks) /\ IsFiniteSet(MiniThreads)
  /\ BotTasks \cap MiniThreads = {}
  /\ Poller \in BotTasks

ASSUME BoundsAssumption ==
  /\ CodeUses \in Nat /\ CapPerUser \in Nat /\ PollLimit \in Nat \ {0}
  /\ MaxFaults \in Nat /\ MaxCrashes \in Nat
  /\ FaultPoints \subseteq Finalizing

VARIABLES
  row,       \* column status of each payment, or "absent" / "deleted"
  gateway,   \* isPaid, as the gateway would answer now
  due,       \* created_at is more than INVOICE_EXPIRY_MINUTES ago
  orders,    \* rows made because of the payment: an order, a custom order,
             \* or the wallet transaction of a charge
  redeemed,  \* uses of the discount code charged to the payment
  uses,      \* uses left of the code
  referral,  \* status of the buyer's row in the table referrals
  pc,        \* where each caller is
  cur,       \* the payment it works on
  batch,     \* payments the poller has fetched and not yet looked at
  phase,     \* "down", "booting" (Flask serves, loop not yet) or "up"
  faults,    \* database calls that raised so far
  crashes,   \* times the process died so far
  lapsed     \* history: times its row was put back too early

rowVars   == <<row, gateway, due>>
shopVars  == <<orders, redeemed, uses, referral>>
taskVars  == <<pc, cur, batch>>
vars == <<row, gateway, due, orders, redeemed, uses, referral,
          pc, cur, batch, phase, faults, crashes, lapsed>>

TypeOK ==
  /\ row \in [Payments -> {"absent", "pending", "processing", "paid", "deleted"}]
  /\ gateway \in [Payments -> BOOLEAN]
  /\ due \in [Payments -> BOOLEAN]
  /\ orders \in [Payments -> Nat]
  /\ redeemed \in [Payments -> Nat]
  /\ uses \in Nat
  /\ referral \in [Users -> {"pending", "completed"}]
  /\ pc \in [Workers -> {"idle", "asked", "answered"} \cup Finalizing]
  /\ cur \in [Workers -> Payments \cup {NoPayment}]
  /\ batch \subseteq Payments
  /\ phase \in {"down", "booting", "up"}
  /\ faults \in Nat /\ crashes \in Nat
  /\ lapsed \in [Payments -> Nat]

Init ==
  /\ row = [p \in Payments |-> "absent"]
  /\ gateway = [p \in Payments |-> FALSE]
  /\ due = [p \in Payments |-> FALSE]
  /\ orders = [p \in Payments |-> 0]
  /\ redeemed = [p \in Payments |-> 0]
  /\ uses = CodeUses
  /\ referral = [u \in Users |-> "pending"]
  /\ pc = [w \in Workers |-> "idle"]
  /\ cur = [w \in Workers |-> NoPayment]
  /\ batch = {}
  /\ phase = "booting"
  /\ faults = 0 /\ crashes = 0
  /\ lapsed = [p \in Payments |-> 0]

-----------------------------------------------------------------------------
(* A coroutine of the bot runs only after run_bot's start-up, and never    *)
(* while another coroutine is inside its await-free stretch.               *)
LoopFree(w) ==
  /\ phase = "up"
  /\ \A v \in BotTasks \ {w} : pc[v] \notin Finalizing

(* A request of the Mini App is served: main() starts Flask before run_bot *)
(* has recovered anything.                                                 *)
Serving == phase # "down"

MayRun(w) == IF w \in BotTasks THEN LoopFree(w) ELSE Serving

(* No coroutine of the bot holds the loop.                                 *)
LoopIdle == phase = "up" /\ \A w \in BotTasks : pc[w] \notin Finalizing

(* The caller goes on to step s, or stops working on its payment.          *)
GoTo(w, s) == pc' = [pc EXCEPT ![w] = s] /\ UNCHANGED <<cur, batch>>
Done(w) ==
  /\ pc' = [pc EXCEPT ![w] = "idle"]
  /\ cur' = [cur EXCEPT ![w] = NoPayment]
  /\ UNCHANGED batch

(***************************************************************************)
(* The environment: a new payment link, the buyer's money, the clock.      *)
(***************************************************************************)
(* Ids grow.  A coded price was computed before an await, so nothing is    *)
(* known of the code any more when the row is written.                     *)
Create(p) ==
  /\ row[p] = "absent"
  /\ \A q \in Payments : q < p => row[q] # "absent"
  /\ IF OriginOf[p] = "bot" THEN LoopIdle ELSE Serving
  /\ row' = [row EXCEPT ![p] = "pending"]
  /\ UNCHANGED <<gateway, due, shopVars, taskVars, phase, faults, crashes, lapsed>>

(* The handlers that hand out a link, by what it is for and who asks: each  *)
(* asks the gateway for the link and then writes the row.                  *)
PayWithOnline(p) == KindOf[p] = "plan" /\ OriginOf[p] = "bot" /\ Create(p)
CbuildPayOnline(p) == KindOf[p] = "custom" /\ OriginOf[p] = "bot" /\ Create(p)
ChargePayOnline(p) == KindOf[p] = "wallet_charge" /\ OriginOf[p] = "bot" /\ Create(p)
ApiOrderOnlineCreate(p) == KindOf[p] = "plan" /\ OriginOf[p] = "miniapp" /\ Create(p)
ApiWalletOnlineCreate(p) ==
  KindOf[p] = "wallet_charge" /\ OriginOf[p] = "miniapp" /\ Create(p)

Pay(p) ==
  /\ row[p] # "absent"
  /\ ~gateway[p]
  /\ gateway' = [gateway EXCEPT ![p] = TRUE]
  /\ UNCHANGED <<row, due, shopVars, taskVars, phase, faults, crashes, lapsed>>

Age(p) ==
  /\ row[p] # "absent"
  /\ ~due[p]
  /\ \A q \in Payments : q < p => due[q]
  /\ due' = [due EXCEPT ![p] = TRUE]
  /\ UNCHANGED <<row, gateway, shopVars, taskVars, phase, faults, crashes, lapsed>>

(***************************************************************************)
(* The callers look for a payment and ask the gateway about it.            *)
(***************************************************************************)
Pending == {p \in Payments : row[p] = "pending"}

(* The PollLimit oldest pending rows: ORDER BY id ASC LIMIT ?.             *)
Oldest == {p \in Pending : Cardinality({q \in Pending : q < p}) < PollLimit}

PollFetch ==
  /\ LoopFree(Poller)
  /\ pc[Poller] = "idle" /\ batch = {}
  /\ Oldest # {}
  /\ batch' = Oldest
  /\ UNCHANGED <<rowVars, shopVars, pc, cur, phase, faults, crashes, lapsed>>

PollNext ==
  /\ LoopFree(Poller)
  /\ pc[Poller] = "idle"
  /\ \E p \in batch : /\ \A q \in batch : p <= q
                      /\ cur' = [cur EXCEPT ![Poller] = p]
                      /\ batch' = batch \ {p}
  /\ pc' = [pc EXCEPT ![Poller] = "asked"]
  /\ UNCHANGED <<rowVars, shopVars, phase, faults, crashes, lapsed>>

(* A press of the button, or a status request of the Mini App: the row is  *)
(* read, and unless it is gone or already paid the gateway is asked.       *)
Look(w, p) ==
  /\ w # Poller
  /\ MayRun(w)
  /\ OriginOf[p] = (IF w \in BotTasks THEN "bot" ELSE "miniapp")
  /\ pc[w] = "idle"
  /\ row[p] \in {"pending", "processing"}
  /\ pc' = [pc EXCEPT ![w] = "asked"]
  /\ cur' = [cur EXCEPT ![w] = p]
  /\ UNCHANGED <<rowVars, shopVars, batch, phase, faults, crashes, lapsed>>

(* Mutant: any answer of the gateway counts as isPaid.                     *)
AnswerPaidAlways(w) ==
  /\ MayRun(w)
  /\ pc[w] = "asked"
  /\ GoTo(w, "answered")
  /\ UNCHANGED <<rowVars, shopVars, phase, faults, crashes, lapsed>>

(* check_invoice says isPaid.                                              *)
AnswerPaid(w) ==
  /\ MayRun(w)
  /\ pc[w] = "asked"
  /\ gateway[cur[w]]
  /\ GoTo(w, "answered")
  /\ UNCHANGED <<rowVars, shopVars, phase, faults, crashes, lapsed>>

(* check_invoice says not paid, or returns None on an error.               *)
AnswerUnpaid(w) ==
  /\ MayRun(w)
  /\ pc[w] = "asked"
  /\ Done(w)
  /\ UNCHANGED <<rowVars, shopVars, phase, faults, crashes, lapsed>>

(***************************************************************************)
(* The finalize functions, one step per transaction.                       *)
(***************************************************************************)
(* Mutant: the UPDATE has lost its AND status = 'pending'.                 *)
ClaimAnyRow(w) ==
  /\ MayRun(w)
  /\ pc[w] = "answered"
  /\ row[cur[w]] # "deleted"
  /\ row' = [row EXCEPT ![cur[w]] = "processing"]
  /\ GoTo(w, "make")
  /\ UNCHANGED <<gateway, due, shopVars, phase, faults, crashes, lapsed>>

(* Mutant: the code is charged before there is an order.                   *)
ClaimChargesFirst(w) ==
  /\ MayRun(w)
  /\ pc[w] = "answered"
  /\ row[cur[w]] = "pending"
  /\ row' = [row EXCEPT ![cur[w]] = "processing"]
  /\ GoTo(w, IF cur[w] \in Coded THEN "discount" ELSE "make")
  /\ UNCHANGED <<gateway, due, shopVars, phase, faults, crashes, lapsed>>

(* claim_online_payment_for_finalize: the conditional UPDATE matched, ...  *)
Claim(w) ==
  /\ MayRun(w)
  /\ pc[w] = "answered"
  /\ row[cur[w]] = "pending"
  /\ w \in BotTasks => cur[w] \notin Refused
  /\ row' = [row EXCEPT ![cur[w]] = "processing"]
  /\ GoTo(w, "make")
  /\ UNCHANGED <<gateway, due, shopVars, phase, faults, crashes, lapsed>>

(* ... or it did not, or the bot's bounds refuse the amount.               *)
ClaimLost(w) ==
  /\ MayRun(w)
  /\ pc[w] = "answered"
  /\ row[cur[w]] # "pending" \/ (w \in BotTasks /\ cur[w] \in Refused)
  /\ Done(w)
  /\ UNCHANGED <<rowVars, shopVars, phase, faults, crashes, lapsed>>

(* create_order, create_custom_order or add_to_wallet commits.             *)
Make(w) ==
  /\ pc[w] = "make"
  /\ orders' = [orders EXCEPT ![cur[w]] = @ + 1]
  /\ GoTo(w, IF KindOf[cur[w]] = "wallet_charge" THEN "mark" ELSE "audit")
  /\ UNCHANGED <<rowVars, redeemed, uses, referral, phase, faults, crashes, lapsed>>

(* The second transaction of the same call: the audit row of create_order, *)
(* or the status 'paid' of a custom order.                                 *)
Audit(w) ==
  /\ pc[w] = "audit"
  /\ GoTo(w, "mark")
  /\ UNCHANGED <<rowVars, shopVars, phase, faults, crashes, lapsed>>

(* mark_online_payment_paid: an UPDATE that asks nothing of the old status *)
Mark(w) ==
  /\ pc[w] = "mark"
  /\ row' = [row EXCEPT ![cur[w]] = IF @ = "deleted" THEN @ ELSE "paid"]
  /\ \/ KindOf[cur[w]] = "wallet_charge" /\ Done(w)
     \/ /\ KindOf[cur[w]] # "wallet_charge"
        /\ GoTo(w, IF cur[w] \in Coded THEN "discount" ELSE "referral")
  /\ UNCHANGED <<gateway, due, shopVars, phase, faults, crashes, lapsed>>

(* The rows of discount_usages written for the payments ps.                *)
UsagesOf(ps) == UNION {{p} \X (1..redeemed[p]) : p \in ps}

UsedBy(u) == Cardinality(UsagesOf({p \in Payments : OwnerOf[p] = u}))

(* Mutant: only the buyer's own limit is looked at.                        *)
UseLeftForBuyer(u) == CapPerUser > 0 => UsedBy(u) < CapPerUser

(* Mutant: the limit per buyer is looked at only when the link is priced.  *)
UseLeftInAll(u) == uses > 0

(* use_discount would find a use left, for this buyer too.                 *)
UseLeft(u) == uses > 0 /\ (CapPerUser > 0 => UsedBy(u) < CapPerUser)

(* use_discount takes a use, ...                                           *)
Redeem(w) ==
  /\ pc[w] = "discount"
  /\ UseLeft(OwnerOf[cur[w]])
  /\ uses' = uses - 1
  /\ redeemed' = [redeemed EXCEPT ![cur[w]] = @ + 1]
  /\ GoTo(w, "referral")
  /\ UNCHANGED <<rowVars, orders, referral, phase, faults, crashes, lapsed>>

(* ... or returns False, which nobody looks at.                            *)
SkipDiscount(w) ==
  /\ pc[w] = "discount"
  /\ ~UseLeft(OwnerOf[cur[w]])
  /\ GoTo(w, "referral")
  /\ UNCHANGED <<rowVars, shopVars, phase, faults, crashes, lapsed>>

(* The purchase qualifies and complete_referral releases the reward, or it *)
(* does not, or its ValueError is swallowed.  What follows (delivery and   *)
(* messages) is outside the try block and leaves the payment alone.        *)
Referral(w) ==
  /\ pc[w] = "referral"
  /\ \E released \in BOOLEAN :
       referral' = [referral EXCEPT ![OwnerOf[cur[w]]] =
                      IF released THEN "completed" ELSE @]
  /\ Done(w)
  /\ UNCHANGED <<rowVars, orders, redeemed, uses, phase, faults, crashes, lapsed>>

(* A database call inside the try block raises before it has any effect.   *)
(* What use_discount raises is swallowed; the rest ends in the except.     *)
Raise(w) ==
  /\ pc[w] \in FaultPoints \ {"release"}
  /\ faults < MaxFaults
  /\ faults' = faults + 1
  /\ GoTo(w, IF pc[w] = "discount" THEN "referral" ELSE "release")
  /\ UNCHANGED <<rowVars, shopVars, phase, crashes, lapsed>>

(* A row is put back too early if its order is made, or if a caller other  *)
(* than those of ws is still between its claim and the end.                *)
TooEarly(p, ws) ==
  orders[p] > 0 \/ \E v \in Workers \ ws : pc[v] \in Finalizing /\ cur[v] = p

Lapsed(ps, ws) ==
  lapsed' = [p \in Payments |->
               IF p \in ps /\ TooEarly(p, ws) THEN lapsed[p] + 1 ELSE lapsed[p]]

(* The except clause: set_online_payment_status(id, "pending"), then raise *)
Release(w) ==
  /\ pc[w] = "release"
  /\ row' = [row EXCEPT ![cur[w]] = IF @ = "deleted" THEN @ ELSE "pending"]
  /\ Lapsed({cur[w]}, {w})
  /\ Done(w)
  /\ UNCHANGED <<gateway, due, shopVars, phase, faults, crashes>>

(* The except clause itself raises: nothing is put back.                   *)
ReleaseRaises(w) ==
  /\ pc[w] = "release" /\ "release" \in FaultPoints
  /\ faults < MaxFaults
  /\ faults' = faults + 1
  /\ Done(w)
  /\ UNCHANGED <<rowVars, shopVars, phase, crashes, lapsed>>

Finalize(w) ==
  \/ Claim(w) \/ ClaimLost(w) \/ Make(w) \/ Audit(w) \/ Mark(w)
  \/ Redeem(w) \/ SkipDiscount(w) \/ Referral(w) \/ Release(w)

(***************************************************************************)
(* The expiry loop, and the process that dies and starts again.            *)
(***************************************************************************)
(* Mutant: rows that a caller is finalizing are deleted too.               *)
ExpireClaimed(p) ==
  /\ LoopIdle
  /\ row[p] \in {"pending", "processing"} /\ due[p]
  /\ row' = [row EXCEPT ![p] = "deleted"]
  /\ UNCHANGED <<gateway, due, shopVars, taskVars, phase, faults, crashes, lapsed>>

(* expire_due_online_payments deletes a row that is still pending.         *)
Expire(p) ==
  /\ LoopIdle
  /\ row[p] = "pending" /\ due[p]
  /\ row' = [row EXCEPT ![p] = "deleted"]
  /\ UNCHANGED <<gateway, due, shopVars, taskVars, phase, faults, crashes, lapsed>>

Crash ==
  /\ phase # "down" /\ crashes < MaxCrashes
  /\ crashes' = crashes + 1
  /\ phase' = "down"
  /\ pc' = [w \in Workers |-> "idle"]
  /\ cur' = [w \in Workers |-> NoPayment]
  /\ batch' = {}
  /\ UNCHANGED <<rowVars, shopVars, faults, lapsed>>

(* main() starts the Flask thread, ...                                     *)
Boot ==
  /\ phase = "down"
  /\ phase' = "booting"
  /\ UNCHANGED <<rowVars, shopVars, taskVars, faults, crashes, lapsed>>

(* Mutant: run_bot forgets to recover.                                     *)
RecoverNothing ==
  /\ phase = "booting"
  /\ phase' = "up"
  /\ UNCHANGED <<rowVars, shopVars, taskVars, faults, crashes, lapsed>>

(* ... and run_bot then resets every row in processing.                    *)
Recover ==
  /\ phase = "booting"
  /\ phase' = "up"
  /\ LET stuck == {p \in Payments : row[p] = "processing"} IN
       /\ row' = [p \in Payments |-> IF p \in stuck THEN "pending" ELSE row[p]]
       /\ Lapsed(stuck, {})
  /\ UNCHANGED <<gateway, due, shopVars, taskVars, faults, crashes>>

-----------------------------------------------------------------------------
Environment ==
  \/ \E p \in Payments :
       \/ PayWithOnline(p) \/ CbuildPayOnline(p) \/ ChargePayOnline(p)
       \/ ApiOrderOnlineCreate(p) \/ ApiWalletOnlineCreate(p)
       \/ Pay(p) \/ Age(p) \/ Expire(p)
  \/ PollFetch \/ PollNext
  \/ \E w \in Workers : (\E p \in Payments : Look(w, p)) \/ AnswerPaid(w) \/ AnswerUnpaid(w)
  \/ Crash \/ Boot \/ Recover

Next ==
  \/ Environment
  \/ \E w \in Workers : Finalize(w) \/ Raise(w) \/ ReleaseRaises(w)

Spec == Init /\ [][Next]_vars

(* What the scheduler owes: the process is restarted, the clock and the    *)
(* two loops of the bot go on, a finalize function that has begun goes on, *)
(* and the gateway, asked again and again about a paid link, does not fail *)
(* every time.  Nothing is owed by the buyers.                             *)
Fairness ==
  /\ WF_vars(Boot \/ Recover)
  /\ WF_vars(\E p \in Payments : Age(p))
  /\ SF_vars(\E p \in Payments : Expire(p))
  /\ SF_vars(PollFetch \/ PollNext)
  /\ \A p \in Payments : SF_vars(cur[Poller] = p /\ AnswerPaid(Poller))
  /\ \A w \in Workers : SF_vars(AnswerPaid(w) \/ AnswerUnpaid(w) \/ Finalize(w))

FairSpec == Spec /\ Fairness

(***************************************************************************)
(* The atomic variant.  database.py also holds finalize_online_*_atomic,   *)
(* which claim the row, make the order, charge the code and mark the row   *)
(* paid in ONE transaction.  Nothing calls them today.  The referral       *)
(* follows as a step of its own.                                           *)
(***************************************************************************)
(* Mutant: the transaction does not ask for a pending row.                 *)
FinalizeAnyRow(w) ==
  /\ MayRun(w)
  /\ pc[w] = "answered"
  /\ row' = [row EXCEPT ![cur[w]] = "paid"]
  /\ orders' = [orders EXCEPT ![cur[w]] = @ + 1]
  /\ IF KindOf[cur[w]] = "wallet_charge" THEN Done(w) ELSE GoTo(w, "referral")
  /\ UNCHANGED <<gateway, due, uses, redeemed, referral, phase, faults, crashes, lapsed>>

FinalizeAtomic(w) ==
  /\ MayRun(w)
  /\ pc[w] = "answered"
  /\ row[cur[w]] = "pending"
  /\ row' = [row EXCEPT ![cur[w]] = "paid"]
  /\ orders' = [orders EXCEPT ![cur[w]] = @ + 1]
  /\ IF cur[w] \in Coded /\ UseLeft(OwnerOf[cur[w]])
     THEN uses' = uses - 1 /\ redeemed' = [redeemed EXCEPT ![cur[w]] = @ + 1]
     ELSE UNCHANGED <<uses, redeemed>>
  /\ IF KindOf[cur[w]] = "wallet_charge" THEN Done(w) ELSE GoTo(w, "referral")
  /\ UNCHANGED <<gateway, due, referral, phase, faults, crashes, lapsed>>

(* The transaction rolls back, or finds the row claimed: nothing happened. *)
AtomicLost(w) ==
  /\ MayRun(w)
  /\ pc[w] = "answered"
  /\ Done(w)
  /\ UNCHANGED <<rowVars, shopVars, phase, faults, crashes, lapsed>>

AtomicNext ==
  \/ Environment
  \/ \E w \in Workers : FinalizeAtomic(w) \/ AtomicLost(w) \/ Referral(w)

AtomicSpec == Init /\ [][AtomicNext]_vars

(* Both families of functions at work on the same tables.                  *)
EitherSpec == Init /\ [][Next \/ AtomicNext]_vars

-----------------------------------------------------------------------------
(* Nobody is served for nothing: an order, a service or a wallet credit    *)
(* exists only because of a payment the gateway confirms.                  *)
HonouredOnlyIfPaid == \A p \in Payments : orders[p] > 0 => gateway[p]

(* One payment, one order: every order beyond the first is accounted for   *)
(* by a time the row was put back too early, by the except clause or by    *)
(* the recovery; and there are at most as many of those as exceptions and  *)
(* starts of the process, the first start included.                        *)
Accounted ==
  \A p \in Payments :
    /\ orders[p] <= 1 + lapsed[p]
    /\ lapsed[p] <= faults + crashes + 1

(* Two callers are inside the finalize functions for one payment only if   *)
(* its row has been put back behind the back of the first.                 *)
OneWinner ==
  \A v, w \in Workers :
    /\ v # w
    /\ pc[v] \in Finalizing /\ pc[w] \in Finalizing
    /\ cur[v] = cur[w]
    => lapsed[cur[w]] > 0

(* The code is charged for orders that were made, at most once for each.   *)
RedeemedForOrder == \A p \in Payments : redeemed[p] <= orders[p]

(* What the code lost in uses is what was recorded in discount_usages, and *)
(* nobody has used it more often than it allows, however many links were   *)
(* priced with it before the first was paid.                               *)
CodeConserved ==
  /\ uses + Cardinality(UsagesOf(Payments)) = CodeUses
  /\ CapPerUser > 0 => \A u \in Users : UsedBy(u) <= CapPerUser

(* Money that has reached the gateway while the row was still open is      *)
(* turned into an order in the end, or the row has run out of its thirty   *)
(* minutes; it is not left in processing for ever.                         *)
PaidIsHonoured ==
  \A p \in Payments :
    gateway[p] /\ row[p] \in {"pending", "processing"}
      ~> orders[p] > 0 \/ row[p] = "deleted"

(* The abstract promise, seen in the tables.                               *)
Promise == INSTANCE PaymentPromise WITH
  link <- [p \in Payments |-> CASE row[p] = "absent"  -> "none"
                                [] row[p] = "deleted" -> "withdrawn"
                                [] OTHER              -> "open"],
  paid <- gateway,
  served <- orders,
  lapses <- lapsed

(* Nobody is served unpaid; a link is served once, and once more only for  *)
(* each time its row was put back too early; and what the expiry loop has  *)
(* deleted is not served afterwards, except on the account of those times. *)
PromiseSpec == Promise!Spec
=============================================================================
