------------------------------ MODULE ShopAccounts ------------------------------
(***************************************************************************)
(* The ledger of the shop: wallets, locked rewards, the referral rows, the *)
(* orders bought from a wallet, the one free test of a buyer, and the      *)
(* setting "orders_enabled" with its copy in the cache of the process.     *)
(*                                                                         *)
(* One process: the bot's event loop, whose handlers here run from end to  *)
(* end without an await, and the threads that answer the Mini App.  Every  *)
(* transaction of database.py holds one lock, so a step is one             *)
(* transaction, and loop and threads interleave between them.              *)
(***************************************************************************)
EXTENDS Naturals, FiniteSets, Functions

CONSTANTS
  Users,          \* the buyers
  Nobody,         \* no buyer
  Inviters,       \* those whose invite code is in a message of start
  Loop,           \* the event loop of the bot
  Threads,        \* the threads of the Mini App
  PlanPrice,      \* the price of each plan; its domain is the set of plans
  PlanVolume,     \* the volume of each plan
  CodePlans,      \* the plans the discount code applies to
  CodeOff,        \* what the discount code takes off
  AgentOff,       \* what an agent's discount takes off, by buyer
  CodeUses,       \* uses of the code at the start
  MiniMinimum,    \* REFERRAL_MIN_VOLUME_GB of the configuration
  LockAmount,     \* REFERRAL_LOCK_AMOUNT of the configuration
  Rewards,        \* amounts the admin sets as reward
  Minimums,       \* volumes the admin sets as minimum
  MaxCharged,     \* bound: money a buyer puts into his wallet
  MaxOrders,      \* bound: purchases begun
  MaxSwitches,    \* bound: writes of settings by the admin
  MaxTrouble      \* bound: exceptions and crashes

Plans == DOMAIN PlanPrice
Workers == Threads \cup {Loop}

ASSUME ShopAssumption ==
  /\ Nobody \notin Users /\ Inviters \subseteq Users /\ IsFiniteSet(Users)
  /\ Loop \notin Threads /\ IsFiniteSet(Threads)
  /\ {"test", "custom"} \subseteq Plans
  /\ PlanPrice \in [Plans -> Nat]
  /\ PlanVolume \in [Plans -> Nat]
  /\ AgentOff \in [Users -> Nat] /\ CodePlans \subseteq Plans
  /\ {CodeOff, CodeUses, MiniMinimum, MaxCharged, MaxOrders, MaxSwitches, MaxTrouble}
       \subseteq Nat
  /\ Rewards \subseteq Nat /\ LockAmount \in Rewards
  /\ Minimums \subseteq Nat /\ MiniMinimum \in Minimums

VARIABLES
  known,      \* users: who has a row
  kept,       \* the invite code held in the conversation until the channels are joined
  wallet,     \* users.wallet
  locked,     \* users.locked_wallet
  spent,      \* users.total_purchase
  ref,        \* referrals: the row of each invited buyer
  rules,      \* settings referral_*: paid purchase required, minimum on, minimum, reward
  uses,       \* discounts.uses of the one code
  applied,    \* how often the code has lowered the price of a buyer's custom service
  enabled,    \* settings.orders_enabled
  cached,     \* the copy of it in cache._store
  job,        \* what each worker is doing
  tests,      \* orders of the free test, by buyer
  opened,     \* online payments of the free test not settled yet
  charged,    \* history: money put into the wallet
  ordered,    \* history: money for which an order was written
  lost,       \* history: money taken from a wallet without an order
  orders,     \* history: purchases begun, for the bound
  raced,      \* history: buyers with two overlapping requests for the free test
  stale,      \* history: the cache was filled by a read a write has overtaken
  cut,        \* history: a release of all pending rewards did not happen
  switches,   \* history: writes of settings, for the bound
  trouble     \* history: exceptions and crashes, for the bound

people == <<known, kept>>
money == <<wallet, locked, spent, ref>>
setting == <<enabled, cached, stale>>
bounds == <<orders, switches, trouble>>
codes == <<uses, applied>>
vars == <<people, money, rules, codes, setting, job, tests, opened,
          charged, ordered, lost, raced, cut, bounds>>

Idle == [at |-> "idle", who |-> Nobody, plan |-> "none", price |-> 0, coded |-> FALSE,
         seen |-> "none"]
NoRef == [status |-> "none", by |-> Nobody, reward |-> 0]

Init ==
  /\ known = {} /\ kept = [u \in Users |-> Nobody]
  /\ wallet = [u \in Users |-> 0] /\ locked = [u \in Users |-> 0]
  /\ spent = [u \in Users |-> 0] /\ ref = [u \in Users |-> NoRef]
  /\ rules = [required |-> TRUE, minimum |-> TRUE, gb |-> MiniMinimum, reward |-> LockAmount]
  /\ uses = CodeUses /\ applied = [u \in Users |-> 0]
  /\ enabled = "on" /\ cached = "none" /\ stale = FALSE
  /\ job = [w \in Workers |-> Idle]
  /\ tests = [u \in Users |-> 0] /\ opened = {}
  /\ charged = [u \in Users |-> 0] /\ ordered = [u \in Users |-> 0]
  /\ lost = [u \in Users |-> 0] /\ raced = {} /\ cut = FALSE
  /\ orders = 0 /\ switches = 0 /\ trouble = 0

At(w, where) == job[w].at = where
\* the loop runs one handler at a time, and a thread one request
Free(w) == At(w, "idle")
Goes(w, where) == job' = [job EXCEPT ![w].at = where]
Ends(w) == job' = [job EXCEPT ![w] = Idle]

---------------------------------------------------------------------------
\* Joining

\* Mutant: the reward is always locked, whatever the setting.
CreateUserLocks(u, code) ==
  LET by == IF code \in known \ {u} THEN code ELSE Nobody IN
  /\ u \notin known
  /\ known' = known \cup {u}
  /\ IF by = Nobody
     THEN UNCHANGED <<locked, ref>>
     ELSE /\ ref' = [ref EXCEPT ![u] =
                       [status |-> "pending", by |-> by, reward |-> rules.reward]]
          /\ locked' = [locked EXCEPT ![by] = @ + rules.reward]
  /\ UNCHANGED <<wallet, spent>>

\* create_user: the row, the referral row and the reward, in one transaction
CreateUser(u, code) ==
  LET by == IF code \in known \ {u} THEN code ELSE Nobody IN
  /\ u \notin known
  /\ known' = known \cup {u}
  /\ IF by = Nobody
     THEN UNCHANGED <<wallet, locked, ref>>
     ELSE /\ ref' = [ref EXCEPT ![u] =
                       [status |-> IF rules.required THEN "pending" ELSE "completed",
                        by |-> by, reward |-> rules.reward]]
          /\ wallet' = IF rules.required THEN wallet
                       ELSE [wallet EXCEPT ![by] = @ + rules.reward]
          /\ locked' = IF rules.required THEN [locked EXCEPT ![by] = @ + rules.reward]
                       ELSE locked
  /\ UNCHANGED spent

\* start by someone who has not joined the channels: the code waits in the conversation
KeepCode(u, code) ==
  /\ Free(Loop) /\ u \notin known /\ code # Nobody
  /\ kept' = [kept EXCEPT ![u] = code]
  /\ UNCHANGED <<known, money, rules, codes, setting, job, tests, opened, charged, ordered,
                 lost, raced, cut, bounds>>

\* start after joining; the code of the message comes before the one kept
Start(u, code) ==
  /\ Free(Loop)
  /\ CreateUser(u, IF code # Nobody THEN code ELSE kept[u])
  /\ kept' = [kept EXCEPT ![u] = Nobody]
  /\ UNCHANGED <<rules, codes, setting, job, tests, opened, charged, ordered, lost, raced,
                 cut, bounds>>

\* check_join, and start without a code
CheckJoin(u) == Start(u, Nobody)

\* the first request to the Mini App creates the row without a referrer; the code
\* kept by start finds the row there and has no effect any more
MiniAuth(u) ==
  /\ CreateUser(u, Nobody)
  /\ kept' = [kept EXCEPT ![u] = Nobody]
  /\ UNCHANGED <<rules, codes, setting, job, tests, opened, charged, ordered, lost, raced,
                 cut, bounds>>

---------------------------------------------------------------------------
\* The rewards

\* Mutant: the reward is paid and stays locked.
CompleteReferralKeeps(u) ==
  IF ref[u].status = "pending" /\ locked[ref[u].by] >= ref[u].reward
  THEN /\ ref' = [ref EXCEPT ![u].status = "completed"]
       /\ wallet' = [wallet EXCEPT ![ref[u].by] = @ + ref[u].reward]
       /\ UNCHANGED locked
  ELSE UNCHANGED <<ref, locked, wallet>>

\* complete_referral: a pending row is completed and its reward moved; the ValueError of
\* a referrer without enough locked money is swallowed by every caller
CompleteReferral(u) ==
  IF ref[u].status = "pending" /\ locked[ref[u].by] >= ref[u].reward
  THEN /\ ref' = [ref EXCEPT ![u].status = "completed"]
       /\ locked' = [locked EXCEPT ![ref[u].by] = @ - ref[u].reward]
       /\ wallet' = [wallet EXCEPT ![ref[u].by] = @ + ref[u].reward]
  ELSE UNCHANGED <<ref, locked, wallet>>

\* referral_purchase_qualifies, with the settings of the moment
Qualifies(plan) ==
  /\ plan # "test"
  /\ rules.required /\ rules.minimum => PlanVolume[plan] >= rules.gb

\* the bot asks the settings, the Mini App only the volume of the configuration
Rewarding(w, plan) ==
  IF w = Loop THEN Qualifies(plan) ELSE PlanVolume[plan] >= MiniMinimum

\* a purchase by card or online payment, whose ledgers are models of their own
OtherPurchase(u, plan, w) ==
  /\ u \in known /\ plan # "test" /\ Rewarding(w, plan)
  /\ w = Loop => Free(Loop)
  /\ ref[u].status = "pending"
  /\ CompleteReferral(u)
  /\ UNCHANGED <<people, spent, rules, codes, setting, job, tests, opened, charged, ordered,
                 lost, raced, cut, bounds>>

Pending == {u \in Users : ref[u].status = "pending"}
RewardOf == [v \in Users |-> ref[v].reward]
RewardsOf(rows, u) == SumFunctionOnSet(RewardOf, {v \in rows : ref[v].by = u})

\* release_all_pending_referrals, in one transaction: row after row, passing over those
\* whose referrer has not that much locked money left
ReleaseAll ==
  /\ At(Loop, "releasing")
  /\ \E rows \in SUBSET Pending :
       /\ \A u \in Users : RewardsOf(rows, u) <= locked[u]
       /\ \A v \in Pending \ rows :
            RewardsOf(rows, ref[v].by) + ref[v].reward > locked[ref[v].by]
       /\ ref' = [v \in Users |-> IF v \in rows THEN [ref[v] EXCEPT !.status = "completed"]
                                  ELSE ref[v]]
       /\ locked' = [u \in Users |-> locked[u] - RewardsOf(rows, u)]
       /\ wallet' = [u \in Users |-> wallet[u] + RewardsOf(rows, u)]
  /\ cut' = FALSE
  /\ Ends(Loop)
  /\ UNCHANGED <<people, spent, rules, codes, setting, tests, opened, charged, ordered,
                 lost, raced, bounds>>

\* admin_referral_toggle_paid_purchase: the setting, then the release
ToggleRequired ==
  /\ Free(Loop) /\ switches < MaxSwitches
  /\ rules' = [rules EXCEPT !.required = ~@]
  /\ switches' = switches + 1
  /\ IF rules.required THEN Goes(Loop, "releasing") ELSE UNCHANGED job
  /\ UNCHANGED <<people, money, codes, setting, tests, opened, charged, ordered, lost, raced,
                 cut, orders, trouble>>

ToggleMinimum ==
  /\ Free(Loop) /\ switches < MaxSwitches
  /\ rules' = [rules EXCEPT !.minimum = ~@]
  /\ switches' = switches + 1
  /\ UNCHANGED <<people, money, codes, setting, job, tests, opened, charged, ordered, lost,
                 raced, cut, orders, trouble>>

\* admin_referral_setting_edit_save: the two numbers
EditRule ==
  /\ Free(Loop) /\ switches < MaxSwitches
  /\ \/ \E r \in Rewards \ {rules.reward} : rules' = [rules EXCEPT !.reward = r]
     \/ \E g \in Minimums \ {rules.gb} : rules' = [rules EXCEPT !.gb = g]
  /\ switches' = switches + 1
  /\ UNCHANGED <<people, money, codes, setting, job, tests, opened, charged, ordered, lost,
                 raced, cut, orders, trouble>>

---------------------------------------------------------------------------
\* The setting "orders_enabled" and its copy in the cache

\* set_setting commits first and writes the cache afterwards, always on the loop
SetOrders(value) ==
  /\ Free(Loop) /\ switches < MaxSwitches
  /\ enabled' = value
  /\ job' = [w \in Workers |->
               IF w = Loop THEN [Idle EXCEPT !.at = "caching"]
               ELSE IF job[w].at = "filling" THEN [job[w] EXCEPT !.at = "overtaken"]
               ELSE job[w]]
  /\ switches' = switches + 1
  /\ UNCHANGED <<people, money, rules, codes, cached, stale, tests, opened, charged, ordered,
                 lost, raced, cut, orders, trouble>>

OrdersOff == SetOrders("off")
OrdersOn == SetOrders("on")

\* Mutant: set_setting leaves the cache as it is.
CommitOnly ==
  /\ At(Loop, "caching")
  /\ Ends(Loop)
  /\ UNCHANGED <<people, money, rules, codes, setting, tests, opened, charged, ordered, lost,
                 raced, cut, bounds>>

CacheSetting ==
  /\ At(Loop, "caching")
  /\ cached' = enabled /\ stale' = FALSE
  /\ Ends(Loop)
  /\ UNCHANGED <<people, money, rules, codes, enabled, tests, opened, charged, ordered, lost,
                 raced, cut, bounds>>

\* is_orders_enabled in a thread: a hit decides, a miss reads the row ...
AskOrders(w) ==
  /\ w # Loop /\ Free(w) /\ known # {}  \* the request has passed MiniAuth
  /\ \/ cached = "on" /\ Goes(w, "admitted")
     \/ cached = "none" /\ job' = [job EXCEPT ![w].at = "filling", ![w].seen = enabled]
  /\ UNCHANGED <<people, money, rules, codes, setting, tests, opened, charged, ordered, lost,
                 raced, cut, bounds>>

\* ... and stores what it read, whatever has been written in between
StoreRead(w) ==
  /\ job[w].at \in {"filling", "overtaken"}
  /\ cached' = job[w].seen
  /\ stale' = (job[w].at = "overtaken")
  /\ IF job[w].seen = "on" THEN job' = [job EXCEPT ![w] = [Idle EXCEPT !.at = "admitted"]]
     ELSE Ends(w)
  /\ UNCHANGED <<people, money, rules, codes, enabled, tests, opened, charged, ordered, lost,
                 raced, cut, bounds>>

\* is_orders_enabled in a handler of the bot: no write of the setting comes in between
ShowServices ==
  /\ Free(Loop) /\ cached = "none"
  /\ cached' = enabled /\ stale' = FALSE
  /\ UNCHANGED <<people, money, rules, codes, enabled, job, tests, opened, charged, ordered,
                 lost, raced, cut, bounds>>

\* an entry lives for DEFAULT_TTL seconds
Expire ==
  /\ cached # "none"
  /\ cached' = "none" /\ stale' = FALSE
  /\ UNCHANGED <<people, money, rules, codes, enabled, job, tests, opened, charged, ordered,
                 lost, raced, cut, bounds>>

---------------------------------------------------------------------------
\* Buying from the wallet

Least(a, b) == IF a <= b THEN a ELSE b
Minus(a, b) == IF a >= b THEN a - b ELSE 0

\* the code is entered, has uses left and applies to the plan
Valid(plan, coded) == coded /\ uses > 0 /\ plan \in CodePlans

CodePrice(plan, coded) ==
  Minus(PlanPrice[plan], IF Valid(plan, coded) THEN CodeOff ELSE 0)
\* the free test has no agent price
AgentPrice(u, plan) ==
  IF plan = "test" THEN PlanPrice[plan] ELSE Minus(PlanPrice[plan], AgentOff[u])

\* _compute_final_price: the better of the two discounts
FinalPrice(u, plan, coded) == Least(CodePrice(plan, coded), AgentPrice(u, plan))

\* whether the code is charged: it won, and in the bot it must have lowered the price
CodeWins(w, u, plan, coded) ==
  /\ Valid(plan, coded)
  /\ CodePrice(plan, coded) <= AgentPrice(u, plan)
  /\ w = Loop => FinalPrice(u, plan, coded) < PlanPrice[plan]

TestOutstanding(u) ==
  u \in opened \/ \E w \in Workers : job[w].who = u /\ job[w].plan = "test"

Takes(w, u, plan, price, coded) ==
  job' = [job EXCEPT ![w] = [at |-> "priced", who |-> u, plan |-> plan, price |-> price,
                             coded |-> coded, seen |-> "none"]]

\* Mutant: has_used_free_test is not asked.
PressPlanUnasked(w, u, plan, coded) ==
  /\ At(w, IF w = Loop THEN "idle" ELSE "admitted")
  /\ u \in known /\ plan # "custom" /\ orders < MaxOrders
  /\ Takes(w, u, plan, FinalPrice(u, plan, coded), CodeWins(w, u, plan, coded))
  /\ raced' = IF plan = "test" /\ TestOutstanding(u) THEN raced \cup {u} ELSE raced
  /\ orders' = orders + 1
  /\ UNCHANGED <<people, money, rules, codes, setting, tests, opened, charged, ordered, lost,
                 cut, switches, trouble>>

\* pay_with_wallet and api_order_wallet up to the price
PressPlan(w, u, plan, coded) ==
  /\ At(w, IF w = Loop THEN "idle" ELSE "admitted")
  /\ u \in known /\ plan # "custom" /\ orders < MaxOrders
  /\ plan = "test" => tests[u] = 0
  /\ Takes(w, u, plan, FinalPrice(u, plan, coded), CodeWins(w, u, plan, coded))
  /\ raced' = IF plan = "test" /\ TestOutstanding(u) THEN raced \cup {u} ELSE raced
  /\ orders' = orders + 1
  /\ UNCHANGED <<people, money, rules, codes, setting, tests, opened, charged, ordered, lost,
                 cut, switches, trouble>>

PayWithWallet(u, plan, coded) == PressPlan(Loop, u, plan, coded)
ApiOrderWallet(w, u, plan, coded) == w # Loop /\ PressPlan(w, u, plan, coded)

\* check_discount_for_cbuild: the bot charges the code when it is entered, and the price
\* kept in the conversation falls by it, once more at every repetition
CodeForCustom(u) ==
  /\ Free(Loop) /\ u \in known /\ uses > 0
  /\ uses' = uses - 1
  /\ applied' = [applied EXCEPT ![u] = @ + 1]
  /\ UNCHANGED <<people, money, rules, setting, job, tests, opened, charged, ordered, lost,
                 raced, cut, bounds>>

CustomPrice(w, u) ==
  Minus(AgentPrice(u, "custom"), IF w = Loop THEN applied[u] * CodeOff ELSE 0)

\* cbuild_pay_wallet and api_custom_build_wallet up to the price
PressCustom(w, u) ==
  /\ At(w, IF w = Loop THEN "idle" ELSE "admitted")
  /\ u \in known /\ orders < MaxOrders
  /\ Takes(w, u, "custom", CustomPrice(w, u), FALSE)
  /\ orders' = orders + 1
  /\ UNCHANGED <<people, money, rules, codes, setting, tests, opened, charged, ordered, lost,
                 raced, cut, switches, trouble>>

CbuildPayWallet(u) == PressCustom(Loop, u)
ApiCustomBuildWallet(w, u) == w # Loop /\ PressCustom(w, u)

\* claim_purchase_action refuses, or the balance read at the start does not suffice
GiveUp(w) ==
  /\ job[w].at \in {"admitted", "priced"}
  /\ Ends(w)
  /\ UNCHANGED <<people, money, rules, codes, setting, tests, opened, charged, ordered, lost,
                 raced, cut, bounds>>

\* Mutant: the UPDATE has lost its AND wallet >= ?.
DeductBlindly(w) ==
  LET u == job[w].who IN
  /\ At(w, "priced")
  /\ wallet' = [wallet EXCEPT ![u] = @ - job[w].price]
  /\ spent' = [spent EXCEPT ![u] = @ + job[w].price]
  /\ Goes(w, IF job[w].plan = "custom" THEN "order"
             ELSE IF job[w].coded THEN "code" ELSE "reward")
  /\ UNCHANGED <<people, locked, ref, rules, codes, setting, tests, opened, charged, ordered,
                 lost, raced, cut, bounds>>

\* deduct_from_wallet: one conditional UPDATE
Deduct(w) ==
  LET u == job[w].who IN
  /\ At(w, "priced")
  /\ wallet[u] >= job[w].price
  /\ wallet' = [wallet EXCEPT ![u] = @ - job[w].price]
  /\ spent' = [spent EXCEPT ![u] = @ + job[w].price]
  /\ Goes(w, IF job[w].plan = "custom" THEN "order"
             ELSE IF job[w].coded THEN "code" ELSE "reward")
  /\ UNCHANGED <<people, locked, ref, rules, codes, setting, tests, opened, charged, ordered,
                 lost, raced, cut, bounds>>

\* use_discount; what it answers is ignored
UseDiscount(w) ==
  /\ At(w, "code")
  /\ uses' = Minus(uses, 1)
  /\ Goes(w, "reward")
  /\ UNCHANGED <<people, money, rules, applied, setting, tests, opened, charged, ordered, lost, raced,
                 cut, bounds>>

\* complete_referral; for a plan the order follows, for a custom service it is written
RewardReferrer(w) ==
  LET custom == At(w, "reward") /\ job[w].plan = "custom" IN
  /\ At(w, "reward")
  /\ IF Rewarding(w, job[w].plan) THEN CompleteReferral(job[w].who)
     ELSE UNCHANGED <<ref, locked, wallet>>
  /\ IF custom THEN Ends(w) ELSE Goes(w, "order")
  \* the bot clears the conversation at the end of the purchase
  /\ applied' = IF custom /\ w = Loop THEN [applied EXCEPT ![job[w].who] = 0] ELSE applied
  /\ UNCHANGED <<people, spent, rules, uses, setting, tests, opened, charged, ordered, lost,
                 raced, cut, bounds>>

\* create_order; for a custom service create_custom_order and the reward after it
CreateOrder(w) ==
  LET u == job[w].who IN
  /\ At(w, "order")
  /\ ordered' = [ordered EXCEPT ![u] = @ + job[w].price]
  /\ tests' = IF job[w].plan = "test" THEN [tests EXCEPT ![u] = @ + 1] ELSE tests
  /\ IF job[w].plan = "custom" THEN Goes(w, "reward") ELSE Ends(w)
  /\ UNCHANGED <<people, money, rules, codes, setting, opened, charged, lost, raced, cut,
                 bounds>>

\* add_to_wallet, from an accepted receipt or an online payment
AddToWallet(u) ==
  /\ u \in known /\ charged[u] < MaxCharged
  /\ wallet' = [wallet EXCEPT ![u] = @ + 1]
  /\ charged' = [charged EXCEPT ![u] = @ + 1]
  /\ UNCHANGED <<people, locked, spent, ref, rules, codes, setting, job, tests, opened,
                 ordered, lost, raced, cut, bounds>>

\* an online payment of the free test: has_used_free_test is asked when the link is made
OpenTest(u) ==
  /\ u \in known /\ u \notin opened /\ tests[u] = 0 /\ orders < MaxOrders
  /\ opened' = opened \cup {u}
  /\ raced' = IF TestOutstanding(u) THEN raced \cup {u} ELSE raced
  /\ orders' = orders + 1
  /\ UNCHANGED <<people, money, rules, codes, setting, job, tests, charged, ordered, lost,
                 cut, switches, trouble>>

\* ... and not when it is paid
SettleTest(u) ==
  /\ u \in opened
  /\ opened' = opened \ {u}
  /\ tests' = [tests EXCEPT ![u] = @ + 1]
  /\ UNCHANGED <<people, money, rules, codes, setting, job, charged, ordered, lost, raced,
                 cut, bounds>>

---------------------------------------------------------------------------
\* Trouble

\* money in the hands of a worker: taken from the wallet, not yet an order
InHand(w) ==
  IF job[w].at \in {"code", "order"} \/ (job[w].at = "reward" /\ job[w].plan # "custom")
  THEN job[w].price ELSE 0
HandOf == [w \in Workers |-> InHand(w)]
HandsOf(ws, u) == SumFunctionOnSet(HandOf, {w \in ws : job[w].who = u})

\* the database raises in a step of a worker: nothing of the step is written and the
\* handler ends there
Raise(w) ==
  /\ job[w].at \in {"code", "reward", "order", "releasing"} /\ trouble < MaxTrouble
  /\ trouble' = trouble + 1
  /\ lost' = [u \in Users |-> lost[u] + HandsOf({w}, u)]
  /\ cut' = (cut \/ At(w, "releasing"))
  /\ Ends(w)
  /\ UNCHANGED <<people, money, rules, codes, setting, tests, opened, charged, ordered, raced,
                 orders, switches>>

\* the process dies: the cache and whatever was under way are gone
Crash ==
  /\ trouble < MaxTrouble
  /\ trouble' = trouble + 1
  /\ lost' = [u \in Users |-> lost[u] + HandsOf(Workers, u)]
  /\ cut' = (cut \/ At(Loop, "releasing"))
  /\ job' = [w \in Workers |-> Idle]
  /\ cached' = "none" /\ stale' = FALSE
  /\ UNCHANGED <<people, money, rules, codes, enabled, tests, opened, charged, ordered, raced,
                 orders, switches>>

---------------------------------------------------------------------------
Join ==
  \E u \in Users :
    \/ MiniAuth(u)
    \/ CheckJoin(u)
    \/ \E code \in Inviters : Start(u, code) \/ KeepCode(u, code)

Buy ==
  \E u \in Users :
    \/ \E plan \in Plans, coded \in BOOLEAN :
         \/ PayWithWallet(u, plan, coded)
         \/ \E w \in Threads : ApiOrderWallet(w, u, plan, coded)
    \/ CbuildPayWallet(u)
    \/ \E w \in Threads : ApiCustomBuildWallet(w, u)

Next ==
  \/ Join
  \/ Buy
  \/ \E u \in Users :
       CodeForCustom(u) \/ AddToWallet(u) \/ OpenTest(u) \/ SettleTest(u)
  \/ \E u \in Users, plan \in Plans, w \in Workers : OtherPurchase(u, plan, w)
  \/ \E w \in Workers :
       \/ AskOrders(w) \/ StoreRead(w) \/ GiveUp(w) \/ Deduct(w)
       \/ UseDiscount(w) \/ RewardReferrer(w) \/ CreateOrder(w) \/ Raise(w)
  \/ ToggleRequired \/ ReleaseAll \/ ToggleMinimum \/ EditRule
  \/ OrdersOff \/ OrdersOn \/ CacheSetting \/ ShowServices \/ Expire
  \/ Crash

Spec == Init /\ [][Next]_vars

---------------------------------------------------------------------------
\* The variables hold what the tables and the handlers can hold.
TypeOK ==
  /\ known \subseteq Users /\ kept \in [Users -> Users \cup {Nobody}]
  /\ wallet \in [Users -> Nat] /\ locked \in [Users -> Nat] /\ spent \in [Users -> Nat]
  /\ ref \in [Users -> [status : {"none", "pending", "completed"},
                        by : Users \cup {Nobody}, reward : Rewards \cup {0}]]
  /\ rules \in [required : BOOLEAN, minimum : BOOLEAN, gb : Minimums, reward : Rewards]
  /\ uses \in Nat /\ applied \in [Users -> Nat]
  /\ enabled \in {"on", "off"} /\ cached \in {"none", "on", "off"} /\ stale \in BOOLEAN
  /\ job \in [Workers ->
       [at : {"idle", "filling", "overtaken", "admitted", "priced", "code", "reward",
              "order", "releasing", "caching"},
        who : Users \cup {Nobody}, plan : Plans \cup {"none"}, price : Nat,
        coded : BOOLEAN, seen : {"none", "on", "off"}]]
  /\ tests \in [Users -> Nat] /\ opened \subseteq Users
  /\ charged \in [Users -> Nat] /\ ordered \in [Users -> Nat] /\ lost \in [Users -> Nat]
  /\ raced \subseteq Users /\ cut \in BOOLEAN
  /\ orders \in 0..MaxOrders /\ switches \in 0..MaxSwitches
  /\ trouble \in 0..MaxTrouble

Completed == {u \in Users : ref[u].status = "completed"}

\* Whatever the interleaving of loop and threads: a wallet is what was put in and what
\* rewards were completed, less what was spent; the locked wallet is the sum of the
\* pending rewards; what was spent is in orders, in the hands of a worker, or lost to a
\* failure after deduct_from_wallet.
BooksBalance ==
  \A u \in Users :
    /\ wallet[u] + spent[u] = charged[u] + RewardsOf(Completed, u)
    /\ locked[u] = RewardsOf(Pending, u)
    /\ spent[u] = ordered[u] + HandsOf(Workers, u) + lost[u]

\* While rewards need no purchase no reward stays locked, except during the switch and
\* after a release that failed (the message of the admin's toggle promises the release).
NonePendingWhenOff ==
  ~rules.required /\ ~At(Loop, "releasing") /\ ~cut => Pending = {}

\* A buyer gets a second free test only when two of his requests overlapped: both asked
\* has_used_free_test before the first order was written.
FreeTestOnce == \A u \in Users \ raced : tests[u] <= 1

\* The cache contradicts the settings table only while set_setting is between its two
\* writes, or when a read of get_setting was overtaken by the write and stored later.
CacheTrue ==
  cached \notin {"none", enabled} => At(Loop, "caching") \/ stale

=============================================================================
