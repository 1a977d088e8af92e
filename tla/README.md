# Verification of the VPN shop bot

The repository is a Telegram shop for VPN services: an aiogram bot, a Telegram
Mini App served by Flask in the same process, one SQLite database, a payment
gateway (Unique Pay) and VPN panels (Shahrah, Marzban, Pasargad).  This
directory holds TLA+ models of its concurrent core, the TLC configurations that
check them on small instances, and TLAPS proofs for every instance.

Paths below are relative to `src/`.

## 1. The system

**Processes.** `bot.py:main` starts a Flask thread (`webapp_api.py`) and then
one asyncio loop (`run_bot`).  On the loop run the handlers, the gateway poller
(every 20 s), the expiry loop (every 60 s) and the alert loop.  Flask serves
each request in a thread and runs bot code on a temporary event loop
(`_run_async_with_temp_bot`).  All of them use `database.py`, where
`with transaction()` holds a process-wide lock from its first statement to its
commit.  Hence the grain of all models: **a transaction is one step, and
anything may happen between two transactions or at an `await`**; two coroutines
of the loop are interleaved only at an `await`, a Flask thread everywhere.

This grain rests on an assumption about the store: the local SQLite file of
`database.py:122-130`, or a Turso connection whose stream does not go stale inside a
transaction.  When it does, `_ResilientTursoCursor` (`database.py:57-67`) reconnects and
repeats ONE statement on the new connection: what the transaction wrote before it is
gone, what it writes after it is committed, and half a transaction remains.  The
models do not contain that outcome; it needs a repair in the wrapper (repeat the
transaction, or fail), not an invariant around it.  The two stores differ in one more
point, foreign keys, which is the constant `ForeignKeys` of `AdminDesk`.

| Component | State | Operations | Hard behaviour | What makes it correct |
|---|---|---|---|---|
| Online payments | `online_payments`, discount uses, referral row | link, poll, button, status request, finalize, expire, recover | three callers, exceptions between transactions, restart, expiry | one payment is served once and only if paid; a paid one is served |
| Order fulfilment | `orders`, `custom_orders`, `configs`, the admin's FSM record, queue and buttons | claim, create at the panel, deliver, queue, dismiss, hand delivery, receipts of custom orders | three paths share a status column; awaits everywhere; lost panel answers | nothing closed undelivered, nothing served unpaid, no order out of everybody's reach |
| Panel circuit breaker | `panel_health` | guard, claim of the probe, record, health check | read, claim, request and record are separate; operations that record nothing | columns agree; one probe; a probe ends |
| Card receipts, invoices | `pending_receipts`, `processed_admin_actions`, `invoices` | send, accept, refuse, charge another amount | permanent keys, failed sends, two messages for one receipt | a receipt is decided once and can be decided |
| Wallet and purchase ledger | `users.wallet`, `wallet_transactions`, purchases | charge, deduct, record | two transactions per purchase, exceptions and crashes between them | the wallet is what came in less what was spent; what was spent is in an order or lost by a named failure |
| Referral ledger | `users.locked_wallet`, `referrals` | create_user, complete_referral, release all | two releases of one reward, the rule switched meanwhile | locked money equals the pending rewards; none is pending while the rule is off |
| Free test | orders of the test plan | check, buy | check and write apart | a second one only by overlapping requests |
| Settings and user cache | dictionaries of `cache.py` | get, set, invalidate | read before, stored after a write | the cache is true but for a named overtaking |
| Services and alerts | `configs`, alert flags, the service at the panel | change link, switch, renew, delete, restore, purge, scan, warn | every handler reads, awaits the panel, writes | the row follows the panel; a flag means a warning was sent |
| Plan catalogue, codes, agents, guides | their tables, `sort_order`, `panel_plan_map` | create, edit, move, delete, map | conversations that overlap, rows deleted under a wizard, two transactions for a default | the value goes to the row it was typed for; no plan without a category, no map without a panel, strict order |
| Rate limits, locks, duplicate guard | `api_rate_limits`, `purchase_action_locks`, an in-memory guard | consume, claim, duplicate check | entries end by their age, clocks are read before a wait, others' rows are deleted, restarts | no more than the limit per period, claims a lifetime apart |
| Panel adapters, subscription reader | none | HTTP, parsing | the environment of the models | - |
| Menus, tickets, profile, statistics, broadcast, backup, editor, keyboards, configuration | settings rows, files | single reads and writes | none | - |

Interactions: a finalized payment (bot or Mini App), a wallet purchase or an
accepted receipt makes an order; the order is handed to the automatic path,
which calls a panel through the breaker, or to the admin through buttons and
the queue; the admin's conversation is one database record that the automatic
path also writes.  A delivered order leaves a row in `configs`, which buyer,
admin and the scan of the alerts then work on; the wallet and the referral
ledger are charged by every kind of purchase; the catalogue and the maps the
admin edits say which panel makes a plan.

`PROJECT.json` lists the components with their status and the hazards of the
code, each at its line with the properties that watch it.
Where the code cannot keep a hazard from happening, the property admits it by a named
history variable (`lapsed`, `byHand`, `hurt`, `cut`, `disturbed`, `stray`, `lost`,
`raced`, `stale`, `excuse`, `missed`, `astray`, `torn`) and shows that nothing else leads
there; the hazard's note says so.  Such a run is evidence about the other ways, not that
the hazard is harmless.

## 2. Modules

| Module | Content |
|---|---|
| `PaymentPromise` | abstract: a link is open, paid, served once and once more for each lapse, or withdrawn |
| `OnlinePayment` | the rows of `online_payments` and their callers; refines `PaymentPromise` |
| `OnlinePaymentProofs` | its proofs, and that both families of finalize functions implement `PaymentPromise`, crashes included |
| `OrderFulfilment`, `OrderFulfilmentProofs` | from the purchase to the delivered link |
| `PanelCircuit`, `PanelCircuitProofs` | the circuit breaker around one panel |
| `CardReceipt`, `CardReceiptProofs` | invoices, receipts, and the decisions of the admin |
| `ShopAccounts`, `ShopAccountsProofs` | wallets, rewards, purchases from the wallet, the free test, one cached setting |
| `BuyerServices`, `BuyerServicesProofs` | one service: the row, the panel's side of it, and its alerts |
| `AdminDesk`, `AdminDeskProofs` | the admin's conversation and the tables it edits |
| `ShopGuards`, `ShopGuardsProofs` | the guards that know only the age of an entry |
| `MC...` | instances for TLC: owners, kinds and symmetry |

### OnlinePayment

`row` is the column `status`; `gateway[p]` is what `check_invoice` would
answer; `due` that the row is older than 30 minutes.  `orders`, `redeemed`,
`uses` and `referral` are what finalizing leaves in the other tables.  A caller
(`pc`, `cur`) is the poller, a button coroutine or a Mini App thread.  It
fetches (`PollFetch`, `PollNext`) or looks (`Look`), asks the gateway
(`AnswerPaid`, `AnswerUnpaid`) and runs the finalize function, one action per
transaction: `Claim`/`ClaimLost` (the conditional UPDATE, with the amount check
of the bot in front of it), `Make`, `Audit` (the second transaction of
`create_order` or the write of "paid" of a custom order), `Mark`,
`Redeem`/`SkipDiscount`, `Referral`, and on an exception `Raise` and `Release`.
The poller and the buttons cannot be interleaved inside that stretch, because
it has no await (`LoopFree`); Mini App threads can.  `phase` is the start-up:
Flask serves from "booting" on, as in `bot.py:main`, and `Recover` ends it.
`redeemed` are the rows of `discount_usages`, against which `use_discount` checks the
limit of the code and of its buyer (`UseLeft`) when it is charged, not when the link
was priced.

`lapsed[p]` is a history variable: how often the row of `p` was put back to "pending"
although its order existed or another caller was still between its claim and the
end of its work (`TooEarly`).  The except clause (`Release`) and the recovery
(`Recover`) are the only steps that put a row back.  `PaymentPromise` has the same
event as `Lapse`: the promise does not excuse a second order, it says that there is
exactly one cause for it and that every cause allows one.

`FinalizeAtomic` models the `finalize_online_*_atomic` functions, which nothing calls
today and with which no row would lapse.

### OrderFulfilment

`status` is the column of `orders` or `custom_orders`; `recorded` counts
recorded purchases, `services` what was created or extended at the panel,
`configs` the links stored for the buyer (a link is named by the order whose
service it opens), `buttons` and `listed` what the admin can press, `chat` the
admin's FSM record, `task` what each coroutine or thread is doing.  The
automatic path is `Claim` - `Created`/`CreateFails` - `HasLink`/`NoLink` -
`Store` - `Close` - `Log`, ending in `Notify` when it reports failure; the
admin's button enters at "create" without a claim, his reply with a link at
"deliver", the delivery by hand runs through `StartSend`, `SendPhoto`,
`SendLink`, `Extracted`/`AskManual`/`SendManual` and `FinalizeSend`, which reads
the conversation AFTER the subscription was fetched.  `Interrupted` is a
purchase that was charged and not written; `cut` and `disturbed` record which
orders met one, an exception, a crash, or the loss of their slot.

Simplifications: `ClearOrders` is one step (one UPDATE per row in the code);
discounts and rewards are in `OnlinePayment`; the duplicate guard of 15 s is
ignored, so every press may be repeated; users and orders are never deleted;
the admin sends only links he was asked for; his other conversations are
represented by `StartSend`, which takes the slot like they do.

### PanelCircuit

`failures`, `open`, `age` (time since `opened_at`) and `probe` are the columns;
`failures` stops at the threshold, the only value it is compared with.  Callers
differ by operation: "switch" records both outcomes, "create" (renewals, and
creation on Marzban and Pasargad) only successes, "snapshot" none, "check"
(`panel_health_check`) passes two guards and records twice.  `GuardRaises` is
the fail-open clause of `_panel_guard`.  `stray` records that a call which did
not hold the probe has freed it.  Database exceptions inside the recording are
not modelled: their effect is that of an operation that records nothing.

### CardReceipt

A request `r` of a buyer is a charge of the wallet or a plan, paid by card; its
invoice and its receipt carry its name.  `invoice` and `rec` are the status
columns of `invoices` and `pending_receipts`, `filed` the order of the
receipts' ids, `late` that `expires_at` has passed, `done` the table
`processed_admin_actions`.  `conv` is the buyer's conversation: what the bot
waits for and the invoice it remembers; `at` and `used` are his handler and the
invoice it has consumed.  The card is shown with an invoice (`ShowCard`,
`ShowCardMini`) or, for small charges, without (`ShowCardDirect`);
`ChangeMethod` gives the invoice up, `Expire` removes a late one.  A photo
(`Photo`) or an upload (`Upload`) consumes it, and the handler goes
`File` - `Drop` - `Send` - `Clear` in the bot and `File` - `Send` - `Drop` in
the Mini App, with `Undo` when Telegram refuses; `FileRaises` is the swallowed
exception of the write.

The admin sees receipts in their messages (`message`) and in lists, which may
be old; any row ever written may be in one.  `Press` claims the permanent key,
and `Take` - `UseCode` - `MakeOrder` - `Resolve` follow without an await (`job`;
the rows of `database.py` are still changed by uploads in between); `Finish`
takes the buttons off the message after an await (`closing`).  `AskAmount`,
`ChargeAmount` and `ForgetTarget` are the manual charge (`custom_charge_apply`), which
claims no key.  It credits the wallet with the amount typed, then closes the newest
pending charge receipt of the buyer, and knows of no receipt in between: whether the
button was pressed under a receipt's message or on the buyer's page, and which
receipt the admin meant, is nowhere recorded.  The model lets the credit stand for any
charge receipt of that buyer whose photo has come, or for none; it counts in `taken`
like an acceptance, and apart from it in `byHand`.
`answered`, `hurt` and `byHand` are history variables.

Simplifications: amounts are within their limits; a plan is looked up once, at
`Press`; exceptions of `Undo` and `Drop` are left out (the first is swallowed,
the second ends the handler as a crash does there); one request pays one
receipt; the orders made are followed in `OrderFulfilment`.

### ShopAccounts

`wallet`, `locked`, `spent` are columns of `users`, `ref` the row of each invited
buyer in `referrals`, `rules` the settings of the rewards, `uses` and `applied`
the one discount code.  `Join` is the start of the bot, which keeps an invite
code in the conversation until the channels are joined (`kept`), and the first
login of the Mini App, which has none.  In a thread a request first asks the setting
`orders_enabled` (`AskOrders`: from the cache, or from the table and stored
afterwards, `StoreRead`; in the bot the list of services does, `ShowServices`).  A
purchase (`Buy`) is priced by the handler of its kind (`PressPlan`,
`CbuildPayWallet`, `ApiCustomBuildWallet`, ...), and goes `Deduct` -
`UseDiscount` - `RewardReferrer` - `CreateOrder` for a plan; a custom service
writes its order before the reward.  `Raise` and `Crash` stop it anywhere.  On the
loop a purchase has no await and is not interleaved with the admin's handlers;
threads of the Mini App are.  `ToggleRequired` and `ReleaseAll` are the switch of
the rule and the release of all pending rewards, `EditRule` and `ToggleMinimum`
the other settings, `OrdersOff`, `OrdersOn` with `CacheSetting` the two writes of
`set_setting`.  `OpenTest` and `SettleTest` are the free test by online payment,
which asks `has_used_free_test` when the link is made and not when it is paid.
`ordered`, `lost`, `charged`, `raced`, `stale` and `cut` are history.

Simplifications: purchases by card and by link enter only by the reward they pay
(`OtherPurchase`), their rest is in `CardReceipt` and `OnlinePayment`; the
transactions list is its sum; one code, whose percentage is an amount; one cached
setting stands for all that are read and written through the same two functions.

### BuyerServices

`row` is the row of `configs`, `service` the user at the panel (`kind`:
Shahrah cannot delete and disables instead, has no link change, and answers a
renewal with a new link), `task` the handlers under way.
A handler starts with what it read (`ByBuyer`, `ByAdmin`, the switch, the deletion),
awaits the panel (`CallPanel`, `CallFails`, `AnswerLost`) and writes by id what
follows from the row it READ (`Write`).  A renewal takes volume and end from the mapped
template where there is one, which may lower them, or adds to them (`PanelRenews`).
Without an await are `AdminServiceDelete`,
`AdminServiceRestore`, `AdminServicePurge`, the link the admin types (`AdminEditLink`)
and the delivery of a renewal by hand.  The scan is `ReadList` - `Fetch` -
`SendAlert` - `FlagAlert` - `Archive` over a list read earlier; the flags of 90 and 80 are two
transactions (`alerts.py:55-56`), and a crash between them leaves the second unset.
`told` is which
due alerts were sent, `excuse` by which of the known ways row and panel may
differ, `missed` that a renewal and the scan crossed.

Simplifications: one service, because no write concerns two; usage as the
thresholds it has passed; mirrors of a link, QR pictures and the text of the
answers left out.

### AdminDesk

`talk` is the admin's record in `fsm_storage`, one field per slot of its data;
`late` the handlers that have written a slot and wait for Telegram before they
set the state (`EditStart` then `SetState`), `clearing` those that will clear it
after their answer (`AnswerThenClear` then `ClearState`); `AnswerRaises` is an
answer Telegram refuses.  Starts that set state and data first are `Enter`, steps
of a wizard `Advance`.  `codes`, `agents`, `cats`, `plans`, `guides`, `panels` and
`maps` are the tables, with `sort_order` where there is one; `NextSort`, `Moved`
and `PanelFor` are the three algorithms on them.  `VpnCatalogPickCut` is the crash
between the map of a category and the end of its plans' overrides.  `asked`,
`astray`, `torn`, `newer` and `cut` are history.

`panel_plan_map` refers to `vpn_panels` by a foreign key (`database.py:635`), but SQLite
keeps foreign keys only where it is told to: `database.py:128` does so for the local file,
the Turso connection (83-85) does not, and `vpn_catalog_pick_set` (`panel_admin.py:817`)
does not look for the panel itself.  `ForeignKeys` says which of the two an instance is.
Where it is FALSE a picker opened before its panel was deleted maps a plan to nothing,
and `CatalogueSound` does not say otherwise; the rest of it holds in both.

Simplifications: what is typed is left out, only the row it goes to counts; an
action that only shows something is left out; the picker's await comes before its
write and commutes with everything, so it is one step; an early start writes the
slot together with its state; ids come from one counter; `open` limits which
conversations an instance lets the admin begin.

### ShopGuards

`recent` is the dictionary of `is_duplicate_action`, `locks` the table
`purchase_action_locks`, `calls` the rows of `api_rate_limits`.  A press of the bot
(`PayWithWallet`, `BotClaims`) and a request of the Mini App (`ApiRequest`,
`ConsumeApiRateLimit`, `ApiOrderWallet`, `ApiClaims`) read the clock before a
transaction that may have to wait for another one's lock, so `Tick` may come
between; `Restart` empties the memory and keeps the tables.  `pressed`, `taken` and
`served` remember the last admissions.

## 3. Runs

| Run | Shows |
|---|---|
| `payment_safety` | two exceptions and a crash: nobody is served unpaid; orders beyond the first are matched by a row put back too early, and those by exceptions and starts of the process; two winners only after one |
| `payment_promise` | Flask before the recovery, a crash and an exception at any call: the functions in use and the atomic ones, mixed on the same tables, implement `PaymentPromise`; a code is charged for orders only, without loss, and within its buyer's limit although two links were priced with it |
| `payment_live` | a confirmed payment is honoured or runs out of its 30 minutes, through one crash and one exception |
| `fulfil_safety` | the invariants of fulfilment and the transition table, with all paths, one fault, one lost answer and one crash |
| `fulfil_live` | a claimed order leaves "processing" unless it waits for the admin or was disturbed |
| `circuit_safety` | one probe unless a stray record freed it, a lock-out is permanent |
| `receipt_safety` | a receipt is accepted and ordered for at most once (what it is charged beyond that was typed by hand), a recorded purchase has its order, one invoice admits one receipt, codes follow acceptances, buyers are told rightly that they are late, no invoice is left over; two charges in the bot and a coded plan in the Mini App |
| `receipt_repeat` | VIOLATION: a second receipt of the same amount is answered "already processed" |
| `accounts_safety` | wallets, locked rewards and what was spent balance through every interleaving, exception and crash; no reward stays pending while none needs a purchase; one free test unless requests overlapped; the cache is true unless overtaken |
| `service_safety` | a row the buyer sees stands for the service as it is at the panel, unless one of the named ways was taken; a flagged alert was sent |
| `desk_safety` | a value goes to the code its prompt was about, an agent is one whose id was typed; the catalogue stays sound, from six small shops with foreign keys |
| `guards_safety` | admitted presses, claims and calls keep their distance, less what the clock costs |

**Bounds.** Two payments are what the poller's batch, two owners and a shared
code need; three callers (poller, button, thread) are one of each scheduling
class, and the interesting races are between two of them.  One fault and one
crash reach every recovery path; `payment_safety` has a second fault, for the
exception inside the except clause (see 5), which needs one before it.  In fulfilment two
orders compete for the one conversation slot and two workers serve one order at
once; one press, one fault, one lost answer and one crash reach every branch.
In the breaker a threshold of 2 has a state in between and three callers are a
probe, a stray and a newcomer.  Receipts are shared by key, amount and
conversation of ONE buyer, and rows of different buyers never match, so one
buyer has them all: two charges compete for the conversation and the newest
row, the plan brings the Mini App, the code and the order.  One exception, lost
answer or crash (`MaxTrouble`) reaches each branch of the handlers, and one
amount typed by hand (`MaxCustom`) may come before, between and after any decisions;
`MaxTogether` lets one of the two happen in a history, or both in the one step where the
resolution after a manual charge raises, since the charge by hand touches no handler of
the buyer that an exception could stop.
Two buyers, one of whom invites the other and
is invited by nobody, are a referral; one of them has an agent's discount.  Two
purchases from one wallet, one of them in a thread, one switch of a rule and one
exception or crash meet in every order; a third purchase adds no pair.  A service
is worked on by two handlers and one scan at once: two link changes make "the link
before the last", one day makes an end pass, usage jumps from nothing to all of
it and crosses every threshold.  At the desk two handlers wait at once, since
an overlap is of two; each of the six shops holds the rows that one group of
conversations needs - two codes for the editors, a category with two plans and an
empty one for order and deletion, two panels and a plan for the maps - and one
row more is born in each.  For the guards seven ticks
are more than two lifetimes of a lock and almost two periods of the limit; the loads are
presses with a restart, presses beside a request, and requests of two endpoints of
different limits.  `MaxFaults`, `MaxCrashes`, `MaxPresses`, `MaxLost`, `MaxTrouble`, `MaxCustom`, `MaxTogether` and the other `Max...` constants bound only the environment; no bound is put on the program.

**Fairness.** Weak on the restart, the clock, and on started work: asyncio runs
every ready coroutine and every HTTP request has a timeout.  Strong on the poll
loop and the expiry loop, which are disabled while another coroutine holds the
loop and come back every 20 and 60 seconds, and on the gateway's confirmation
of a paid link asked again and again (it does not fail for ever).  Nothing is
assumed of buyers and admins, except in the breaker, where calls go on being
made.

**Deadlock** is not checked where the bounded environment may run out (every
payment decided, every order closed).

## 4. Proofs

All for every number of payments, orders, buyers, threads, handlers and every bound.
Every safety invariant and every action property a run checks is a theorem, the type
invariants included.  In each module the theorems follow from one inductive invariant,
which the invariants of the runs are not by themselves.

* `OnlinePaymentProofs`: the invariant says that a caller inside a finalize
  function saw the gateway confirm (`Confirmed`) and that its row is not pending
  unless it lapsed (`Held`), and it counts.  `OrdersCounted`: the orders of a
  payment TOGETHER WITH the callers that may still make one under a claim they have won
  (`Claimants`) are at most its lapses, and one more while the row is claimed or paid
  (`Room`).  `LapsesCounted`: the lapses, the callers about to put the row back
  (`Releasers`) and the recovery to come are at most the exceptions and starts.
  `ChargesCounted`: the charges of the code and the callers about to charge it
  (`Uncharged`) are at most the orders.  `Accounted` and `RedeemedForOrder` forget the
  callers and are therefore not inductive: `Make` increments `orders` without looking
  at it.  `OneWinner`, `HonouredOnlyIfPaid`, and `PaidRowHonoured` and
  `RewardNeedsPurchase`, which no run checks, come from the rest.  `CodeConserved`
  counts rows of `discount_usages` (`UsagesOf`, pairs of a payment and a number), in all
  and by buyer; `Recorded` adds that they are finitely many, which a step that charges
  the code needs.
* The same invariant gives the refinement `EitherKeepsPromise`: the functions in use,
  with the atomic ones beside them on the same tables (`EitherSpec`), implement
  `PaymentPromise`, with no hypothesis about crashes, exceptions or the order of
  starting.  `Room` is what a service needs (`Serve` is owed one), its absence in a
  pending row what a withdrawal needs, and a row put back too early is a `Lapse`.
  `ServedAsOwed` reads it back in the tables: a link that never lapsed gives one order
  at most and none once it is deleted.  `AtomicServesOnce`: with the atomic functions
  alone nothing ever lapses.
* `OrderFulfilmentProofs`: `IInv == Typing /\ Ledger /\ Stored /\
  FulfilledDelivered /\ Reachable /\ Counted`.  `Ledger`: every reference to an order, in
  a task, a button, a list or the conversation, was created after its purchase
  was recorded.  `Stored`: a worker about to close has stored.  `Reachable`: an
  open order that no list shows is carried by a worker, waits in the
  conversation, has a button, or was disturbed.  `Counted`: the services made for an
  order, TOGETHER WITH the workers that are about to make one, are at most the presses
  and the one attempt after the purchase; `MadeOncePerPress` forgets the workers.
* `PanelCircuitProofs`: a probing call holds `probe_claimed`, so a second claim
  is refused while nobody stray has reset it; the lock-out is stable; the
  columns agree (`ColumnsAgree`, only proved).
* `CardReceiptProofs`: `IInv == TypeOK /\ Ledger /\ Codes /\ Sent`.  `Ledger`:
  what was charged more often than by hand (`taken` > `byHand`) has its key in `done`, the
  decision under way owns its key and has charged nothing yet, so a second press finds
  the key, and an order is made by an acceptance only.  `Sent`: an
  invoice that was consumed is never "pending" again and its receipt names no
  other request's; an invoice that is gone was late, given up or consumed; and
  a conversation remembers only invoices that were made for its buyer.
  `Codes`: the row whose code is charged matches the accepted receipt.
* `ShopAccountsProofs`: `IInv == Shapes /\ Reads /\ CacheTrue /\ Empty /\
  OneTest` for the cache and the free test.  `Reads`: a worker about to store what it
  read holds what the table says, or was overtaken.  `OneTest`: a buyer with no overlap
  has at most one of a finished test, a link for one, and a request under way;
  `FreeTestOnce` alone does not bound what the requests that have passed the check will
  write.
* Its second half, `Books`, is about money.  The balances are sums (`SumFunctionOnSet`)
  over the buyers and over the workers.  What such a sum does when one summand changes
  would be an induction over the set; instead `SumIsCoins` shows once that a sum of
  natural numbers is the number of elements of a finite set (`Coins`: the pairs of an x
  and a number up to f[x]), by a smallest counterexample among the subsets, and `SumChange`,
  `SumSplit`, `SumApart` follow from the theorems about cardinalities.  `Led` (the locked wallet is the
  pending rewards, the wallet what came in less what was spent) needs `Invited`: a buyer
  without a row was invited by nobody yet, and who was invited has an inviter, so a
  completed reward always reaches a wallet.  `Kept` (what was spent is ordered, lost or in
  a hand) needs `Named`: a purchase under way has a buyer, and no custom service has a
  code to charge.  `NonePendingWhenOff` then rests on `Led`: since the locked wallet covers ALL
  pending rewards, the release passes over no row (`LedReleases`).
* `BuyerServicesProofs`: `IInv == TypeOK /\ Filled /\ Followed /\ Alerted`.  `Followed`:
  while no overlap was noted, row and panel agree (`Agreed`) whenever nobody stands between
  the panel's answer and its write, and a handler that is alone holds what will make them agree
  (`Prepared`).  `Alerted`: what is flagged, and what the scan is about to send or to flag,
  has come up, and of the flagged what is due was sent.
* `AdminDeskProofs`: `IInv == Shape /\ Rows /\ Fielded /\ Held /\ Prompted /\
  Named` for the conversation.  `Held`: until two starts overlap, a start that waits is about the code in
  the data; `Prompted`: when none waits, the code in the data is that of the
  prompt; `Named`: until a clear comes between, the id of an agent is there when
  his percent is asked.  `SlotTrue` speaks only of moments at which nobody waits,
  so it is not inductive without `Held`.  It rests on `DeskAssumption`: "no item" is
  neither an id nor a person, and every shop an instance starts from is one the admin can
  have built (`Legal`).
* `RowsInv` in the same module is about the tables: ids are handed out once (`Numbered`),
  lists are in strict order (`Listed`: a new row gets the number after the greatest one,
  `NextSort`, and a move exchanges two neighbours), a map leads to a panel that is there
  where foreign keys are kept, and from a scope that was handed out (`Mapped`), an override older than its category's default
  is there because of a crash (`Governed`), and the picker remembers a scope that was handed
  out (`Picked`), so that no map appears for a plan that is born later.
* `ShopGuardsProofs`: `IInv == Typed /\ Timely /\ Logged /\ Remembered /\ Locked /\ Rows
  /\ Backed /\ RateKept`.  `Locked`: the lock of a key is dated at most a wait
  before its last claim, and a lock that is gone was too old for somebody.  `Backed`:
  every served call has its row until that can have been too old for anybody; the rows of a
  second are numbered, so that counting rows counts calls.

Assumptions on the constants are those of the modules; buyers, payments and threads are
finite sets, since the database and the process hold finitely many.

Only model-checked: liveness (`PaidIsHonoured`, `ClaimSettles`), since the prover
has no rule for fairness.

## 5. What the code does not promise

Seen while modelling, and stated in the models by the weaker invariants that do
hold, or left outside what they say.

Payments (`OnlinePayment`).  Because Flask is started before the recovery, because the
process may die after `create_order`, or because an exception follows it, one payment
can give two orders; `PromiseSpec` and `Accounted` count these lapses, they do not
rule them out.  When the except clause raises as well (`handlers/plans.py:546`) the
payment stays in "processing" until a restart.  Two links priced with one code are both
honoured at the lower price, and the one beyond the limit is not charged to the
code (`CodeConserved` keeps the limit of uses, not the prices).  The expiry loop deletes a
pending row by its age although its money may have arrived (`PaidIsHonoured` admits
it).

Fulfilment (`OrderFulfilment`).  Two orders without a link compete for the admin's
slot and the first leaves every list (`LostOnlyIfDisturbed`); a plan put to "paid"
after a failed creation is not in the queue of plans; a custom order bought
from the wallet stands among the card receipts until its second transaction and may be
accepted there; a lost answer of a renewal
lets the next press renew again (`MadeOncePerPress`).

Breaker (`PanelCircuit`).  A health check that claims the probe is refused by its own
inner guard and recorded as a failure; a snapshot let through as the probe records
nothing and keeps it for ever (`LockStays`).

Receipts (`CardReceipt`).  Acceptance and refusal of one receipt have different keys
and the manual charge has none (`handlers/admin.py:798`, 847), so one receipt may be
accepted, refused and charged by hand, and credited twice (`ChargedOnce` counts what was
typed apart); an acceptance closes the newest row of its
amount, which may be another one (`CodeAfterAcceptance` follows the amount, not
the row); a second receipt of the same amount is answered "already processed"
(run `receipt_repeat`); a small charge has no invoice, and its photo is answered
"too late".

Accounts (`ShopAccounts`).  The code of a custom service is charged when it is
entered and lowers every custom purchase until the conversation ends; another choice
of payment computes the full price again; a code sent to the Mini App's custom
service lowers nothing.  The Mini App's first login has no referrer, and its reward
follows the configuration instead of the admin's rules.  The test plan is shown as
free and its price of the plan table is charged.

Services (`BuyerServices`).  No renewal resets `alert_ended_sent`.  A paid renewal leaves
`sub_link_disabled` though the panel activates the service; a link change clears it
though the service stays disabled; a row restored after its panel service was deleted
cannot be deleted by the buyer; `renew_start` does not look at `deleted`.  The
service handlers of `panel_admin.py` (1237-1284, 1334-1369) never run, because
`admin.py` is registered first with the same prefixes (`bot.py:292`); `sync_panel_configs`
is not called.

Desk (`AdminDesk`).  Without foreign keys (Turso) a map may lead to a deleted panel.  An older picker of the same panel maps the scope of the newer one;
an edit of a plan that was deleted is answered with success; a reply answered before
the conversation is cleared applies twice when a second message comes in between; an
exception of Telegram after the row of a new code is written is answered as "already
registered"; an id lost to a clear is written as the agent "None"; the "done" button of
an older plans keyboard writes the selection of the current conversation.

Guards (`ShopGuards`).  The locks of the bot, made for eight seconds, end after five
when a request of the Mini App deletes by its own lifetime; the key of the Mini App
holds the code as it was sent; after a restart a second message of the same plan is
not guarded; a rate limit is short by up to one second and the wait for the
transaction.

## 6. Plan

Done: payments, fulfilment, the breaker, receipts, accounts, services, the desk,
the guards.  Next:

1. Prices and discounts (percentages, limits, expiry) as pure algorithms against
   reference definitions.
2. The remaining conversations of the admin (broadcast, search, settings) if they
   share a slot with those modelled.

Not modelled: HTTP adapters, parsing, menus and layout (input, output and wording);
statistics, broadcast and backup (single reads and writes); the text and keyboard
editor (settings rows written one at a time); configuration, permissions, encryption
and error reporting (constants and stateless helpers); the second use of a cache, of
users and of panels, which repeats the first.
