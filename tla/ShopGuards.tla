------------------------------ MODULE ShopGuards ------------------------------
(***************************************************************************)
(* The guards against repeated requests, which know only how old an entry  *)
(* is: the duplicate guard of the bot (memory of the process), the locks   *)
(* of a purchase (purchase_action_locks) and the rate limit of the Mini    *)
(* App (api_rate_limits).  A lock and a call are dated with a clock read   *)
(* before the transaction that may have to wait for another; the bot waits *)
(* with its whole loop, the threads of the Mini App by themselves.         *)
(*                                                                         *)
(* Time is counted in ticks.  The rate limit sees whole seconds.           *)
(***************************************************************************)
EXTENDS Integers, Sequences, FiniteSets, SequencesExt

CONSTANTS
  Plans,      \* plans with a button to buy from the wallet
  Messages,   \* messages of the chat that carry these buttons
  Threads,    \* requests of the Mini App that run at the same time
  Endpoints,  \* its limited endpoints; those of Wallet claim a purchase too
  Wallet,
  MaxCalls,   \* calls of an endpoint in a period
  Period,     \* seconds
  Cooldown,   \* ticks the duplicate guard lasts
  TtlBot,     \* ticks a lock lasts for the bot
  TtlMini,    \* and for the Mini App
  Second,     \* ticks
  MaxRecent,  \* presses remembered before the old ones are dropped
  Never,
  Loads,      \* bound: presses in the bot, requests of the Mini App, restarts
  MaxTime,    \* bound: ticks
  MaxWait     \* bound: ticks a transaction waits for another

ASSUME GuardAssumption ==
  /\ {Period, Cooldown, TtlBot, TtlMini, Second} \subseteq Nat \ {0}
  /\ {MaxRecent, MaxTime, MaxWait} \subseteq Nat
  /\ Wallet \subseteq Endpoints /\ MaxCalls \in [Endpoints -> Nat \ {0}]
  /\ Never \notin 0..MaxTime
  /\ Loads \subseteq [press : Nat, request : Nat, restart : Nat]

Times == 0..MaxTime
Mini == <<"mini-wallet", "code">>  \* the key of a user's order for one plan with one code
Keys == (Plans \X Messages) \cup {Mini}

VARIABLES
  now,
  recent,   \* _recent_actions: the last press of each button
  locks,    \* purchase_action_locks: created_at
  calls,    \* api_rate_limits: each bucket's rows: the second, and a number among those of it
  bot,      \* the press the loop is busy with
  thread,   \* the requests under way
  pressed,  \* history: when a button was last admitted in this process, twice
  taken,    \* history: when a key was last claimed, twice
  served,   \* history: when a bucket last admitted a call, MaxCalls + 1 times
  left      \* what is left of the load

vars == <<now, recent, locks, calls, bot, thread, pressed, taken, served, left>>

IdleBot == [at |-> "idle", key |-> Never, read |-> Never]
IdleThread == [at |-> "idle", bucket |-> Never, read |-> Never]

Init ==
  /\ now = 0 /\ left \in Loads
  /\ recent = [p \in Plans |-> Never] /\ locks = [k \in Keys |-> Never]
  /\ calls = [b \in Endpoints |-> {}]
  /\ bot = IdleBot /\ thread = [t \in Threads |-> IdleThread]
  /\ pressed = [p \in Plans |-> <<>>] /\ taken = [k \in Keys |-> <<>>]
  /\ served = [b \in Endpoints |-> <<>>]

\* history: the last n of what happened
Noted(times, n) ==
  LET all == Append(times, now) IN IF Len(all) > n THEN Tail(all) ELSE all

---------------------------------------------------------------------------
\* bound: nobody waits longer than MaxWait
Tick ==
  /\ now < MaxTime
  /\ bot.at = "claiming" => now - bot.read < MaxWait
  /\ \A t \in Threads : thread[t].read # Never => now - thread[t].read < MaxWait
  /\ now' = now + 1
  /\ UNCHANGED <<recent, locks, calls, bot, thread, pressed, taken, served, left>>

---------------------------------------------------------------------------
\* The duplicate guard

\* Mutant: everything is dropped when there is too much.
PrunedAll(presses) ==
  IF Cardinality({p \in Plans : presses[p] # Never}) <= MaxRecent THEN presses
  ELSE [p \in Plans |-> Never]

\* too many presses: those older than the cooldown are dropped
Pruned(presses) ==
  IF Cardinality({p \in Plans : presses[p] # Never}) <= MaxRecent THEN presses
  ELSE [p \in Plans |->
          IF presses[p] # Never /\ presses[p] < now - Cooldown THEN Never ELSE presses[p]]

\* is_duplicate_action: every press, also a refused one, starts the cooldown again
IsDuplicateAction(p) == recent[p] # Never /\ now - recent[p] < Cooldown

\* pay_with_wallet: first the memory, then, only if that admits it, the lock
PayWithWallet(p, m) ==
  /\ bot.at = "idle" /\ left.press > 0 /\ left' = [left EXCEPT !.press = @ - 1]
  /\ recent' = Pruned([recent EXCEPT ![p] = now])
  /\ IF IsDuplicateAction(p) THEN UNCHANGED <<bot, pressed>>
     ELSE /\ bot' = [at |-> "claiming", key |-> <<p, m>>, read |-> now]
          /\ pressed' = [pressed EXCEPT ![p] = Noted(@, 2)]
  /\ UNCHANGED <<now, locks, calls, thread, taken, served>>

---------------------------------------------------------------------------
\* The locks of a purchase

\* Mutant: the younger rows are deleted instead of the older.
UnexpiredTurned(read, ttl) ==
  [k \in Keys |-> IF locks[k] # Never /\ locks[k] > read - ttl THEN Never ELSE locks[k]]

\* rows older than the TTL of whoever asks are deleted, also those of others
Unexpired(read, ttl) ==
  [k \in Keys |-> IF locks[k] # Never /\ locks[k] < read - ttl THEN Never ELSE locks[k]]

\* Mutant: the end of the lock is stored instead of its beginning.
ClaimPurchaseActionUntil(key, read, ttl) ==
  LET kept == Unexpired(read, ttl) IN
    IF kept[key] # Never THEN locks' = kept /\ UNCHANGED taken
    ELSE /\ locks' = [kept EXCEPT ![key] = read + ttl]
         /\ taken' = [taken EXCEPT ![key] = Noted(@, 2)]

\* claim_purchase_action: insert, or meet the primary key
ClaimPurchaseAction(key, read, ttl) ==
  LET kept == Unexpired(read, ttl) IN
    IF kept[key] # Never THEN locks' = kept /\ UNCHANGED taken
    ELSE /\ locks' = [kept EXCEPT ![key] = read]
         /\ taken' = [taken EXCEPT ![key] = Noted(@, 2)]

BotClaims ==
  /\ bot.at = "claiming"
  /\ ClaimPurchaseAction(bot.key, bot.read, TtlBot)
  /\ bot' = IdleBot
  /\ UNCHANGED <<now, recent, calls, thread, pressed, served, left>>

---------------------------------------------------------------------------
\* The Mini App

\* a request reaches the limit of its endpoint and reads the clock
ApiRequest(t, b) ==
  /\ thread[t].at = "idle" /\ left.request > 0 /\ left' = [left EXCEPT !.request = @ - 1]
  /\ thread' = [thread EXCEPT ![t] = [at |-> "limit", bucket |-> b, read |-> now]]
  /\ UNCHANGED <<now, recent, locks, calls, bot, pressed, taken, served>>

\* Mutant: one call too many.
AllowedOneMore(n, b) == n <= MaxCalls[b]

Allowed(n, b) == n < MaxCalls[b]

\* consume_api_rate_limit: old rows of every bucket go, those of this one are counted
ConsumeApiRateLimit(t) ==
  LET b == thread[t].bucket
      second == thread[t].read \div Second
      kept == [c \in Endpoints |-> {r \in calls[c] : r[1] > second - Period}]
      row == <<second, Cardinality({r \in kept[b] : r[1] = second})>>
      admitted == Allowed(Cardinality(kept[b]), b)
  IN
    /\ thread[t].at = "limit"
    /\ calls' = IF admitted THEN [kept EXCEPT ![b] = @ \cup {row}] ELSE kept
    /\ served' = IF admitted THEN [served EXCEPT ![b] = Noted(@, MaxCalls[b] + 1)] ELSE served
    /\ thread' = [thread EXCEPT ![t] =
                    IF admitted /\ b \in Wallet
                    THEN [at |-> "handler", bucket |-> b, read |-> Never] ELSE IdleThread]
    /\ UNCHANGED <<now, recent, locks, bot, pressed, taken, left>>

\* api_order_wallet: the plan and the price are looked up, or the request is refused;
\* then the clock is read for the lock
ApiOrderWallet(t) ==
  /\ thread[t].at = "handler"
  /\ thread' \in {[thread EXCEPT ![t] = IdleThread],
                  [thread EXCEPT ![t].at = "claiming", ![t].read = now]}
  /\ UNCHANGED <<now, recent, locks, calls, bot, pressed, taken, served, left>>

ApiClaims(t) ==
  /\ thread[t].at = "claiming"
  /\ ClaimPurchaseAction(Mini, thread[t].read, TtlMini)
  /\ thread' = [thread EXCEPT ![t] = IdleThread]
  /\ UNCHANGED <<now, recent, calls, bot, pressed, served, left>>

---------------------------------------------------------------------------
\* the process ends and starts again: the tables stay
Restart ==
  /\ left.restart > 0 /\ left' = [left EXCEPT !.restart = @ - 1]
  /\ recent' = [p \in Plans |-> Never] /\ pressed' = [p \in Plans |-> <<>>]
  /\ bot' = IdleBot /\ thread' = [t \in Threads |-> IdleThread]
  /\ UNCHANGED <<now, locks, calls, taken, served>>

Next ==
  \/ Tick
  \/ \E p \in Plans, m \in Messages : PayWithWallet(p, m)
  \/ BotClaims
  \/ \E t \in Threads, b \in Endpoints : ApiRequest(t, b)
  \/ \E t \in Threads : ConsumeApiRateLimit(t)
  \/ \E t \in Threads : ApiOrderWallet(t)
  \/ \E t \in Threads : ApiClaims(t)
  \/ Restart

Spec == Init /\ [][Next]_vars

---------------------------------------------------------------------------
\* Every variable keeps its type; no entry is dated later than now.
TypeOK ==
  LET Past == 0..now IN
    /\ now \in Times /\ left \in [press : Nat, request : Nat, restart : Nat]
    /\ recent \in [Plans -> Past \cup {Never}] /\ locks \in [Keys -> Past \cup {Never}]
    /\ \A b \in Endpoints : calls[b] \subseteq (0..(now \div Second)) \X (0..(MaxCalls[b] - 1))
    /\ bot \in [at : {"idle", "claiming"}, key : (Plans \X Messages) \cup {Never},
                read : Past \cup {Never}]
    /\ thread \in [Threads -> [at : {"idle", "limit", "handler", "claiming"},
                               bucket : Endpoints \cup {Never}, read : Past \cup {Never}]]
    /\ \A p \in Plans : pressed[p] \in BoundedSeq(Past, 2)
    /\ \A k \in Keys : taken[k] \in BoundedSeq(Past, 2)
    /\ \A b \in Endpoints : served[b] \in BoundedSeq(Past, MaxCalls[b] + 1)

Least(a, b) == IF a < b THEN a ELSE b

\* Two presses of one button that are both admitted are a cooldown apart while the process
\* lives; two claims of one key are more than the shorter TTL apart, less the wait for the
\* transaction, whoever asked and restarted in between.  The locks of the bot do not keep
\* their own TTL: a request of the Mini App deletes them after its shorter one
\* (utils.py:73, database.py:2180).
PressesApart ==
  /\ \A p \in Plans : Len(pressed[p]) = 2 => pressed[p][2] - pressed[p][1] >= Cooldown
  /\ \A k \in Keys : Len(taken[k]) = 2 =>
       taken[k][2] - taken[k][1] > Least(TtlBot, TtlMini) - MaxWait

\* No endpoint serves more than its number of calls within a period, less the second that
\* is cut off the clock and the wait for the transaction, whatever the other endpoints
\* delete meanwhile (database.py:2271).
RateKept ==
  \A b \in Endpoints : Len(served[b]) = MaxCalls[b] + 1 =>
    served[b][MaxCalls[b] + 1] - served[b][1] > (Period - 1) * Second - MaxWait

=============================================================================
