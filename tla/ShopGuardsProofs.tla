--------------------------- MODULE ShopGuardsProofs ---------------------------
(***************************************************************************)
(* Proofs about ShopGuards, for any number of buttons, messages, requests  *)
(* and endpoints and any lengths of the cooldown, the locks and the        *)
(* period: admitted presses of a button and claims of a key are as far     *)
(* apart as the guards can promise, and no endpoint serves more than its   *)
(* calls.                                                                  *)
(***************************************************************************)
EXTENDS ShopGuards, FiniteSetTheorems, TLAPS

Past == 0..now
Dates == Past \cup {Never}

\* A history of at most n times, up to one of them.
Log(s, n, time) == s \in Seq(Nat) /\ Len(s) <= n /\ \A i \in 1..Len(s) : s[i] <= time

Typed ==
  /\ now \in Times /\ left \in [press : Nat, request : Nat, restart : Nat]
  /\ recent \in [Plans -> Dates] /\ locks \in [Keys -> Dates]
  /\ bot \in [at : {"idle", "claiming"}, key : (Plans \X Messages) \cup {Never}, read : Dates]
  /\ thread \in [Threads -> [at : {"idle", "limit", "handler", "claiming"},
                             bucket : Endpoints \cup {Never}, read : Dates]]

\* Whoever waits for a transaction has read the clock, and not longer ago than the bound.
Waited(read) == read \in Past /\ now - read <= MaxWait

Timely ==
  /\ bot.at = "claiming" => bot.key \in Keys /\ Waited(bot.read)
  /\ \A t \in Threads : /\ thread[t].read # Never => Waited(thread[t].read)
                        /\ thread[t].at \in {"limit", "claiming"} => thread[t].read # Never
                        /\ thread[t].at = "limit" => thread[t].bucket \in Endpoints

Logged ==
  /\ pressed \in [Plans -> Seq(Nat)] /\ \A p \in Plans : Log(pressed[p], 2, now)
  /\ taken \in [Keys -> Seq(Nat)] /\ \A k \in Keys : Log(taken[k], 2, now)
  /\ served \in [Endpoints -> Seq(Nat)] /\ \A b \in Endpoints : Log(served[b], MaxCalls[b] + 1, now)

\* What the duplicate guard remembers of a button is not older than its last admission; what
\* it has dropped is older than the cooldown.
Remembered ==
  \A p \in Plans : LET s == pressed[p] IN
    /\ Len(s) = 2 => s[2] - s[1] >= Cooldown
    /\ Len(s) > 0 => IF recent[p] = Never THEN now - s[Len(s)] >= Cooldown
                     ELSE recent[p] >= s[Len(s)]

Apart == Least(TtlBot, TtlMini) - MaxWait

\* The lock of a key is dated at most a wait before its last claim; a lock that is gone was too
\* old for somebody.
Locked ==
  \A k \in Keys : LET s == taken[k] IN
    /\ Len(s) = 2 => s[2] - s[1] > Apart
    /\ Len(s) > 0 => IF locks[k] = Never THEN now - s[Len(s)] > Apart
                     ELSE locks[k] >= s[Len(s)] - MaxWait

SameSecond(rs, second) == {q \in rs : q[1] = second}

\* The rows of a bucket: no more than its calls, those of one second numbered from 0.
Rows ==
  /\ calls \in [Endpoints -> SUBSET ((0..(now \div Second)) \X Nat)]
  /\ \A b \in Endpoints : IsFiniteSet(calls[b]) /\ Cardinality(calls[b]) <= MaxCalls[b]
  /\ \A b \in Endpoints : \A r \in calls[b] :
       r[2] < Cardinality(SameSecond(calls[b], r[1]))

Since(time) == (time - MaxWait) \div Second
RowsSince(rs, second) == {r \in rs : r[1] >= second}

\* Of the calls served since one of them, every one has its row as long as none of those rows
\* can have been too old for anybody.
Backed ==
  \A b \in Endpoints : \A i \in 1..Len(served[b]) :
    now \div Second - Period < Since(served[b][i])
      => Cardinality(RowsSince(calls[b], Since(served[b][i]))) >= Len(served[b]) - i + 1

IInv == Typed /\ Timely /\ Logged /\ Remembered /\ Locked /\ Rows /\ Backed /\ RateKept

---------------------------------------------------------------------------
\* Numbers and histories

LEMMA Constants ==
  /\ Period \in Nat \ {0} /\ Cooldown \in Nat \ {0} /\ TtlBot \in Nat \ {0}
  /\ TtlMini \in Nat \ {0} /\ Second \in Nat \ {0}
  /\ MaxRecent \in Nat /\ MaxTime \in Nat /\ MaxWait \in Nat
  /\ MaxCalls \in [Endpoints -> Nat \ {0}] /\ Never \notin Times
  BY GuardAssumption DEF GuardAssumption, Times

LEMMA DivGrows ==
  ASSUME NEW a \in Int, NEW b \in Int, a <= b, NEW s \in Nat \ {0}
  PROVE  a \div s <= b \div s /\ a \div s \in Int
  OBVIOUS

LEMMA DivShift ==
  ASSUME NEW a \in Int, NEW k \in Int, NEW s \in Nat \ {0}
  PROVE  (a + k * s) \div s = a \div s + k
  OBVIOUS

LEMMA NotedShape ==
  ASSUME NEW n \in Nat \ {0}, NEW s \in Seq(Nat), Len(s) <= n, now \in Nat
  PROVE  /\ Noted(s, n) \in Seq(Nat)
         /\ Len(Noted(s, n)) = IF Len(s) < n THEN Len(s) + 1 ELSE n
         /\ Noted(s, n)[Len(Noted(s, n))] = now
         /\ \A i \in 1..(Len(Noted(s, n)) - 1) : 
               Noted(s, n)[i] = s[i + Len(s) + 1 - Len(Noted(s, n))]
  <1>. DEFINE all == Append(s, now)
  <1>1. all \in Seq(Nat) /\ Len(all) = Len(s) + 1 /\ all[Len(s) + 1] = now
         /\ \A i \in 1..Len(s) : all[i] = s[i]
    OBVIOUS
  <1>2. Noted(s, n) = IF Len(all) > n THEN Tail(all) ELSE all BY DEF Noted
  <1>. HIDE DEF all
  <1>3. CASE Len(s) < n
    <2>1. Noted(s, n) = all BY <1>1, <1>2, <1>3
    <2>2. all \in Seq(Nat) /\ Len(all) = Len(s) + 1 /\ all[Len(all)] = now BY <1>1
    <2>3. \A i \in 1..(Len(all) - 1) : all[i] = s[i + Len(s) + 1 - Len(all)] BY <1>1
    <2>. QED BY <1>3, <2>1, <2>2, <2>3
  <1>4. CASE Len(s) = n
    <2>. DEFINE later == Tail(all)
    <2>1. later \in Seq(Nat) /\ Len(later) = n /\ \A i \in 1..n : later[i] = all[i + 1]
      BY <1>1, <1>4
    <2>2. Noted(s, n) = later BY <1>1, <1>2, <1>4
    <2>. HIDE DEF later
    <2>3. later[Len(later)] = now BY <1>1, <1>4, <2>1
    <2>4. \A i \in 1..(Len(later) - 1) : later[i] = s[i + Len(s) + 1 - Len(later)]
      BY <1>1, <1>4, <2>1
    <2>. QED BY <1>4, <2>1, <2>2, <2>3, <2>4
  <1>. QED BY <1>3, <1>4

LEMMA NotedLogged ==
  ASSUME NEW n \in Nat \ {0}, NEW s, Log(s, n, now), now \in Nat
  PROVE  Log(Noted(s, n), n, now)
  <1>. DEFINE t == Noted(s, n)
  <1>0. s \in Seq(Nat) /\ Len(s) \in Nat /\ Len(s) <= n /\ \A i \in 1..Len(s) : s[i] <= now
    BY DEF Log
  <1>1. /\ t \in Seq(Nat) /\ Len(t) = IF Len(s) < n THEN Len(s) + 1 ELSE n
        /\ t[Len(t)] = now
        /\ \A i \in 1..(Len(t) - 1) : t[i] = s[i + Len(s) + 1 - Len(t)]
    BY <1>0, NotedShape
  <1>. HIDE DEF t
  <1>2. \A i \in 1..Len(t) : t[i] <= now
    <2>. SUFFICES ASSUME NEW i \in 1..Len(t), i # Len(t) PROVE t[i] <= now
      BY <1>1
    <2>1. i \in 1..(Len(t) - 1) BY <1>1
    <2>2. i + Len(s) + 1 - Len(t) \in 1..Len(s) BY <1>0, <1>1, <2>1
    <2>. QED BY <1>0, <1>1, <2>1, <2>2
  <1>3. Len(t) <= n BY <1>0, <1>1
  <1>. QED BY <1>1, <1>2, <1>3 DEF Log, t

LEMMA LogStays ==
  ASSUME NEW n, NEW s, NEW from \in Nat, NEW to \in Nat, from <= to, Log(s, n, from)
  PROVE  Log(s, n, to)
  BY DEF Log

---------------------------------------------------------------------------
\* Types

LEMMA NowNat ==
  ASSUME Typed
  PROVE  /\ now \in Nat /\ Never \notin Past /\ Past \subseteq Times
         /\ \A d \in Dates : d # Never => d \in Past
  BY Constants DEF Typed, Times, Past, Dates

LEMMA PrunedShape ==
  ASSUME Typed, NEW presses \in [Plans -> Dates]
  PROVE  /\ Pruned(presses) \in [Plans -> Dates]
         /\ \A p \in Plans : \/ Pruned(presses)[p] = presses[p]
                             \/ /\ Pruned(presses)[p] = Never /\ presses[p] # Never
                                /\ presses[p] < now - Cooldown
  BY DEF Pruned, Dates

LEMMA ClaimShape ==
  ASSUME Typed, Logged, NEW key \in Keys, NEW read \in Past, NEW ttl,
         ClaimPurchaseAction(key, read, ttl)
  PROVE  /\ locks' \in [Keys -> Dates]
         /\ taken' \in [Keys -> Seq(Nat)] /\ \A k \in Keys : Log(taken'[k], 2, now)
         /\ \A k \in Keys \ {key} : /\ taken'[k] = taken[k]
                                    /\ \/ locks'[k] = locks[k]
                                       \/ /\ locks'[k] = Never /\ locks[k] # Never
                                          /\ locks[k] < read - ttl
         /\ \/ taken'[key] = taken[key] /\ locks[key] # Never /\ locks'[key] = locks[key]
            \/ /\ taken'[key] = Noted(taken[key], 2) /\ locks'[key] = read
               /\ locks[key] = Never \/ locks[key] < read - ttl
  <1>. DEFINE kept == Unexpired(read, ttl)
  <1>1. /\ kept \in [Keys -> Dates]
        /\ \A k \in Keys : \/ kept[k] = locks[k]
                           \/ kept[k] = Never /\ locks[k] # Never /\ locks[k] < read - ttl
    BY DEF Typed, Unexpired, Dates
  <1>2. \/ kept[key] # Never /\ locks' = kept /\ taken' = taken
        \/ /\ kept[key] = Never /\ locks' = [kept EXCEPT ![key] = read]
           /\ taken' = [taken EXCEPT ![key] = Noted(@, 2)]
    BY DEF ClaimPurchaseAction
  <1>. HIDE DEF kept
  <1>3. Log(Noted(taken[key], 2), 2, now) BY NotedLogged, NowNat DEF Logged
  <1>4. locks' \in [Keys -> Dates] BY <1>1, <1>2 DEF Dates
  <1>5. taken' \in [Keys -> Seq(Nat)] /\ \A k \in Keys : Log(taken'[k], 2, now)
    BY <1>2, <1>3 DEF Logged, Log
  <1>6. CASE kept[key] # Never /\ locks' = kept /\ taken' = taken
    BY <1>1, <1>4, <1>5, <1>6
  <1>7. CASE /\ kept[key] = Never /\ locks' = [kept EXCEPT ![key] = read]
             /\ taken' = [taken EXCEPT ![key] = Noted(@, 2)]
    <2>1. locks'[key] = read /\ \A k \in Keys \ {key} : locks'[k] = kept[k] BY <1>1, <1>7
    <2>2. taken'[key] = Noted(taken[key], 2) /\ \A k \in Keys \ {key} : taken'[k] = taken[k]
      BY <1>7 DEF Logged
    <2>. QED BY <1>1, <1>4, <1>5, <1>7, <2>1, <2>2
  <1>. QED BY <1>2, <1>6, <1>7

Types == Typed /\ Timely /\ Logged

\* Time passes, and nobody waits longer than the bound.
LEMMA TickTypes == ASSUME Types, Tick PROVE Types'
  <1>1. now' = now + 1 /\ now' \in Times /\ now \in Nat BY NowNat, Constants DEF Types, Typed, Tick, Times
  <1>2. Dates \subseteq Dates' /\ Past \subseteq Past' BY <1>1 DEF Dates, Past
  <1>3. Typed' BY <1>1, <1>2 DEF Types, Typed, Tick
  <1>4. Timely'
    <2>1. bot.at = "claiming" => Waited(bot.read)'
      BY <1>1, <1>2, Constants DEF Types, Timely, Waited, Tick, Past
    <2>2. \A t \in Threads : thread[t].read # Never => Waited(thread[t].read)'
      BY <1>1, <1>2, Constants DEF Types, Timely, Waited, Tick, Past
    <2>. QED BY <2>1, <2>2 DEF Types, Timely, Tick
  <1>5. Logged'
    <2>1. UNCHANGED <<pressed, taken, served>> BY DEF Tick
    <2>2. \A p \in Plans : Log(pressed[p], 2, now + 1) BY <1>1, LogStays DEF Types, Logged
    <2>3. \A k \in Keys : Log(taken[k], 2, now + 1) BY <1>1, LogStays DEF Types, Logged
    <2>4. \A b \in Endpoints : Log(served[b], MaxCalls[b] + 1, now + 1) BY <1>1, LogStays DEF Types, Logged
    <2>. QED BY <1>1, <2>1, <2>2, <2>3, <2>4 DEF Types, Logged
  <1>. QED BY <1>3, <1>4, <1>5 DEF Types

LEMMA PressTypes == ASSUME Types, NEW p \in Plans, NEW m \in Messages, PayWithWallet(p, m) PROVE Types'
  <1>1. now \in Past /\ now \in Nat BY NowNat DEF Types, Past
  <1>2. recent' \in [Plans -> Dates]
    <2>1. [recent EXCEPT ![p] = now] \in [Plans -> Dates] BY <1>1 DEF Types, Typed, Dates
    <2>. QED BY <2>1, PrunedShape DEF Types, PayWithWallet
  <1>3. bot' = bot \/ bot' = [at |-> "claiming", key |-> <<p, m>>, read |-> now]
    BY DEF PayWithWallet
  <1>4. <<p, m>> \in Plans \X Messages /\ <<p, m>> \in Keys BY DEF Keys
  <1>5. bot' \in [at : {"idle", "claiming"}, key : (Plans \X Messages) \cup {Never}, read : Dates]
    BY <1>1, <1>3, <1>4 DEF Types, Typed, Dates
  <1>6. left' \in [press : Nat, request : Nat, restart : Nat]
    <2>1. left \in [press : Nat, request : Nat, restart : Nat] BY DEF Types, Typed
    <2>2. left.press > 0 /\ left' = [left EXCEPT !.press = @ - 1] BY DEF PayWithWallet
    <2>3. left.press - 1 \in Nat BY <2>1, <2>2
    <2>. QED BY <2>1, <2>2, <2>3
  <1>7. Typed' BY <1>2, <1>5, <1>6 DEF Types, Typed, PayWithWallet, Past, Dates
  <1>8. Timely'
    <2>1. bot'.at = "claiming" => bot'.key \in Keys /\ Waited(bot'.read)
      BY <1>1, <1>3, <1>4, Constants DEF Types, Timely, Waited
    <2>. QED BY <2>1 DEF Types, Timely, Waited, PayWithWallet, Past
  <1>9. Logged'
    <2>1. pressed' = pressed \/ pressed' = [pressed EXCEPT ![p] = Noted(@, 2)] BY DEF PayWithWallet
    <2>2. Log(Noted(pressed[p], 2), 2, now) BY <1>1, NotedLogged DEF Types, Logged
    <2>3. pressed' \in [Plans -> Seq(Nat)] /\ \A q \in Plans : Log(pressed'[q], 2, now)
      BY <2>1, <2>2 DEF Types, Logged, Log
    <2>. QED BY <2>3 DEF Types, Logged, PayWithWallet
  <1>. QED BY <1>7, <1>8, <1>9 DEF Types

LEMMA BotClaimsTypes == ASSUME Types, BotClaims PROVE Types'
  <1>1. bot.key \in Keys /\ bot.read \in Past BY DEF Types, Timely, Waited, BotClaims
  <1>2. /\ locks' \in [Keys -> Dates]
        /\ taken' \in [Keys -> Seq(Nat)] /\ \A k \in Keys : Log(taken'[k], 2, now)
    BY <1>1, ClaimShape DEF Types, BotClaims
  <1>3. bot' = IdleBot /\ UNCHANGED <<now, recent, calls, thread, pressed, served, left>>
    BY DEF BotClaims
  <1>4. Typed' BY <1>2, <1>3 DEF Types, Typed, IdleBot, Past, Dates
  <1>5. Timely' BY <1>3 DEF Types, Timely, Waited, IdleBot, Past
  <1>6. Logged' BY <1>2, <1>3 DEF Types, Logged
  <1>. QED BY <1>4, <1>5, <1>6 DEF Types

\* A request of the Mini App goes on.
LEMMA ThreadTypes ==
  ASSUME Types, NEW t \in Threads, NEW at \in {"idle", "limit", "handler", "claiming"},
         NEW bucket \in Endpoints \cup {Never}, NEW read \in {now, Never},
         thread' = [thread EXCEPT ![t] = [at |-> at, bucket |-> bucket, read |-> read]],
         at \in {"limit", "claiming"} => read # Never, at = "limit" => bucket \in Endpoints,
         now' = now
  PROVE  /\ thread' \in [Threads -> [at : {"idle", "limit", "handler", "claiming"},
                                     bucket : Endpoints \cup {Never}, read : Dates]]
         /\ \A u \in Threads : /\ thread'[u].read # Never => Waited(thread'[u].read)
                               /\ thread'[u].at \in {"limit", "claiming"} => thread'[u].read # Never
                               /\ thread'[u].at = "limit" => thread'[u].bucket \in Endpoints
  <1>1. now \in Past /\ now \in Nat BY NowNat DEF Types, Past
  <1>2. thread \in [Threads -> [at : {"idle", "limit", "handler", "claiming"},
                                bucket : Endpoints \cup {Never}, read : Dates]]
    BY DEF Types, Typed
  <1>3. read \in Dates /\ (read # Never => Waited(read)) BY <1>1, Constants DEF Dates, Waited
  <1>4. /\ thread'[t] = [at |-> at, bucket |-> bucket, read |-> read]
        /\ \A u \in Threads \ {t} : thread'[u] = thread[u]
    BY <1>2
  <1>. QED BY <1>2, <1>3, <1>4 DEF Types, Timely

LEMMA ApiRequestTypes == ASSUME Types, NEW t \in Threads, NEW b \in Endpoints, ApiRequest(t, b) PROVE Types'
  <1>1. thread' = [thread EXCEPT ![t] = [at |-> "limit", bucket |-> b, read |-> now]] /\ now' = now
    BY DEF ApiRequest
  <1>2. now # Never BY NowNat DEF Types, Past
  <1>3. /\ thread' \in [Threads -> [at : {"idle", "limit", "handler", "claiming"},
                                    bucket : Endpoints \cup {Never}, read : Dates]]
        /\ \A u \in Threads : /\ thread'[u].read # Never => Waited(thread'[u].read)
                              /\ thread'[u].at \in {"limit", "claiming"} => thread'[u].read # Never
                              /\ thread'[u].at = "limit" => thread'[u].bucket \in Endpoints
    BY <1>1, <1>2, ThreadTypes
  <1>4. left' \in [press : Nat, request : Nat, restart : Nat]
    <2>1. left \in [press : Nat, request : Nat, restart : Nat] BY DEF Types, Typed
    <2>2. left.request > 0 /\ left' = [left EXCEPT !.request = @ - 1] BY DEF ApiRequest
    <2>3. left.request - 1 \in Nat BY <2>1, <2>2
    <2>. QED BY <2>1, <2>2, <2>3
  <1>5. Typed' BY <1>3, <1>4 DEF Types, Typed, ApiRequest, Past, Dates
  <1>6. Timely' BY <1>3 DEF Types, Timely, Waited, ApiRequest, Past
  <1>7. Logged' BY DEF Types, Logged, ApiRequest
  <1>. QED BY <1>5, <1>6, <1>7 DEF Types

LEMMA ConsumeTypes == ASSUME Types, NEW t \in Threads, ConsumeApiRateLimit(t) PROVE Types'
  <1>. DEFINE b == thread[t].bucket
  <1>1. b \in Endpoints BY DEF Types, Timely, ConsumeApiRateLimit
  <1>2. \/ thread' = [thread EXCEPT ![t] = [at |-> "handler", bucket |-> b, read |-> Never]]
        \/ thread' = [thread EXCEPT ![t] = [at |-> "idle", bucket |-> Never, read |-> Never]]
    BY DEF ConsumeApiRateLimit, IdleThread
  <1>3. served' = served \/ served' = [served EXCEPT ![b] = Noted(@, MaxCalls[b] + 1)]
    BY DEF ConsumeApiRateLimit
  <1>4. UNCHANGED <<now, recent, locks, bot, pressed, taken, left>> BY DEF ConsumeApiRateLimit
  <1>. HIDE DEF b
  <1>5. /\ thread' \in [Threads -> [at : {"idle", "limit", "handler", "claiming"},
                                    bucket : Endpoints \cup {Never}, read : Dates]]
        /\ \A u \in Threads : /\ thread'[u].read # Never => Waited(thread'[u].read)
                              /\ thread'[u].at \in {"limit", "claiming"} => thread'[u].read # Never
                              /\ thread'[u].at = "limit" => thread'[u].bucket \in Endpoints
    BY <1>1, <1>2, <1>4, ThreadTypes
  <1>6. Typed' BY <1>4, <1>5 DEF Types, Typed, Past, Dates
  <1>7. Timely' BY <1>4, <1>5 DEF Types, Timely, Waited, Past
  <1>8. MaxCalls[b] + 1 \in Nat \ {0} BY <1>1, Constants
  <1>9. Log(Noted(served[b], MaxCalls[b] + 1), MaxCalls[b] + 1, now)
    BY <1>1, <1>8, NotedLogged, NowNat DEF Types, Logged
  <1>10. served' \in [Endpoints -> Seq(Nat)] /\ \A c \in Endpoints : Log(served'[c], MaxCalls[c] + 1, now)
    BY <1>3, <1>9 DEF Types, Logged, Log
  <1>11. Logged' BY <1>4, <1>10 DEF Types, Logged
  <1>. QED BY <1>6, <1>7, <1>11 DEF Types

LEMMA OrderTypes == ASSUME Types, NEW t \in Threads, ApiOrderWallet(t) PROVE Types'
  <1>. DEFINE b == thread[t].bucket
  <1>1. b \in Endpoints \cup {Never} BY DEF Types, Typed
  <1>2. \/ thread' = [thread EXCEPT ![t] = [at |-> "claiming", bucket |-> b, read |-> now]]
        \/ thread' = [thread EXCEPT ![t] = [at |-> "idle", bucket |-> Never, read |-> Never]]
    <2>. DEFINE moved == [thread EXCEPT ![t].at = "claiming", ![t].read = now]
                claiming == [at |-> "claiming", bucket |-> b, read |-> now]
    <2>1. thread[t] \in [at : {"idle", "limit", "handler", "claiming"},
                         bucket : Endpoints \cup {Never}, read : Dates]
      BY DEF Types, Typed
    <2>2. moved[t] = claiming BY <2>1 DEF Types, Typed
    <2>3. moved = [thread EXCEPT ![t] = moved[t]] BY DEF Types, Typed
    <2>4. moved = [thread EXCEPT ![t] = claiming] BY <2>2, <2>3
    <2>. QED BY <2>4 DEF ApiOrderWallet, IdleThread
  <1>. HIDE DEF b
  <1>3. UNCHANGED <<now, recent, locks, calls, bot, pressed, taken, served, left>> BY DEF ApiOrderWallet
  <1>4. now # Never BY NowNat DEF Types, Past
  <1>5. /\ thread' \in [Threads -> [at : {"idle", "limit", "handler", "claiming"},
                                    bucket : Endpoints \cup {Never}, read : Dates]]
        /\ \A u \in Threads : /\ thread'[u].read # Never => Waited(thread'[u].read)
                              /\ thread'[u].at \in {"limit", "claiming"} => thread'[u].read # Never
                              /\ thread'[u].at = "limit" => thread'[u].bucket \in Endpoints
    BY <1>1, <1>2, <1>3, <1>4, ThreadTypes
  <1>6. Typed' BY <1>3, <1>5 DEF Types, Typed, Past, Dates
  <1>7. Timely' BY <1>3, <1>5 DEF Types, Timely, Waited, Past
  <1>8. Logged' BY <1>3 DEF Types, Logged
  <1>. QED BY <1>6, <1>7, <1>8 DEF Types

LEMMA ApiClaimsTypes == ASSUME Types, NEW t \in Threads, ApiClaims(t) PROVE Types'
  <1>1. thread[t].read \in Past BY DEF Types, Timely, Waited, ApiClaims
  <1>2. /\ locks' \in [Keys -> Dates]
        /\ taken' \in [Keys -> Seq(Nat)] /\ \A k \in Keys : Log(taken'[k], 2, now)
    BY <1>1, ClaimShape DEF Types, ApiClaims, Keys
  <1>3. thread' = [thread EXCEPT ![t] = [at |-> "idle", bucket |-> Never, read |-> Never]]
         /\ UNCHANGED <<now, recent, calls, bot, pressed, served, left>>
    BY DEF ApiClaims, IdleThread
  <1>4. /\ thread' \in [Threads -> [at : {"idle", "limit", "handler", "claiming"},
                                    bucket : Endpoints \cup {Never}, read : Dates]]
        /\ \A u \in Threads : /\ thread'[u].read # Never => Waited(thread'[u].read)
                              /\ thread'[u].at \in {"limit", "claiming"} => thread'[u].read # Never
                              /\ thread'[u].at = "limit" => thread'[u].bucket \in Endpoints
    BY <1>3, ThreadTypes
  <1>5. Typed' BY <1>2, <1>3, <1>4 DEF Types, Typed, Past, Dates
  <1>6. Timely' BY <1>3, <1>4 DEF Types, Timely, Waited, Past
  <1>7. Logged' BY <1>2, <1>3 DEF Types, Logged
  <1>. QED BY <1>5, <1>6, <1>7 DEF Types

LEMMA RestartTypes == ASSUME Types, Restart PROVE Types'
  <1>1. left' \in [press : Nat, request : Nat, restart : Nat]
    <2>1. left \in [press : Nat, request : Nat, restart : Nat] BY DEF Types, Typed
    <2>2. left.restart > 0 /\ left' = [left EXCEPT !.restart = @ - 1] BY DEF Restart
    <2>3. left.restart - 1 \in Nat BY <2>1, <2>2
    <2>. QED BY <2>1, <2>2, <2>3
  <1>2. Typed' BY <1>1 DEF Types, Typed, Restart, IdleBot, IdleThread, Past, Dates
  <1>3. Timely' BY DEF Types, Timely, Restart, IdleBot, IdleThread
  <1>4. Logged' BY DEF Types, Logged, Log, Restart
  <1>. QED BY <1>2, <1>3, <1>4 DEF Types

LEMMA InitTypes == Init => Types
  <1>. SUFFICES ASSUME Init PROVE Types
    OBVIOUS
  <1>1. now = 0 /\ 0 \in Times /\ left \in Loads BY Constants DEF Init, Times
  <1>2. Typed BY <1>1, GuardAssumption DEF Init, Typed, IdleBot, IdleThread, Dates, GuardAssumption
  <1>3. Timely BY DEF Init, Timely, IdleBot, IdleThread
  <1>4. Logged BY Constants DEF Init, Logged, Log
  <1>. QED BY <1>2, <1>3, <1>4 DEF Types

LEMMA TypesStep == ASSUME Types, [Next]_vars PROVE Types'
  <1>1. CASE UNCHANGED vars BY <1>1 DEF vars, Types, Typed, Timely, Logged, Waited, Past, Dates
  <1>. QED BY <1>1, TickTypes, PressTypes, BotClaimsTypes, ApiRequestTypes, ConsumeTypes, OrderTypes,
              ApiClaimsTypes, RestartTypes DEF Next

---------------------------------------------------------------------------
\* The duplicate guard

\* What is noted last is now, and what was last before comes before it.
LEMMA NotedPair ==
  ASSUME NEW s, Log(s, 2, now), now \in Nat
  PROVE  /\ Len(Noted(s, 2)) \in 1..2 /\ Noted(s, 2)[Len(Noted(s, 2))] = now
         /\ Len(Noted(s, 2)) = 2 => /\ Len(s) > 0 /\ Noted(s, 2)[1] = s[Len(s)] /\ Noted(s, 2)[2] = now
  <1>. DEFINE t == Noted(s, 2)
  <1>1. s \in Seq(Nat) /\ Len(s) \in Nat /\ Len(s) <= 2 /\ 2 \in Nat \ {0} BY DEF Log
  <1>2. Len(t) = IF Len(s) < 2 THEN Len(s) + 1 ELSE 2 BY <1>1, NotedShape
  <1>3. t[Len(t)] = now BY <1>1, NotedShape
  <1>4. \A i \in 1..(Len(t) - 1) : t[i] = s[i + Len(s) + 1 - Len(t)] BY <1>1, NotedShape
  <1>. HIDE DEF t
  <1>5. Len(t) \in 1..2 BY <1>1, <1>2
  <1>6. ASSUME Len(t) = 2 PROVE Len(s) > 0 /\ t[1] = s[Len(s)] /\ t[2] = now
    <2>1. Len(s) > 0 BY <1>1, <1>2, <1>6
    <2>2. 1 \in 1..(Len(t) - 1) /\ 1 + Len(s) + 1 - Len(t) = Len(s) BY <1>1, <1>6
    <2>3. t[1] = s[Len(s)] BY <1>4, <2>2
    <2>. QED BY <1>3, <1>6, <2>1, <2>3
  <1>. QED BY <1>3, <1>5, <1>6 DEF t

LEMMA RememberedStep == ASSUME Types, Remembered, [Next]_vars PROVE Remembered'
  <1>1. now \in Nat /\ Never \notin Past /\ \A p \in Plans : recent[p] # Never => recent[p] \in Past
    BY NowNat DEF Types, Typed
  <1>2. \A p \in Plans : Log(pressed[p], 2, now) BY DEF Types, Logged
  <1>3. ASSUME UNCHANGED <<recent, pressed, now>> PROVE Remembered' BY <1>3 DEF Remembered
  <1>4. CASE Tick
    <2>1. now' = now + 1 /\ UNCHANGED <<recent, pressed>> BY <1>4 DEF Tick
    <2>2. \A p \in Plans : \A i \in 1..Len(pressed[p]) : pressed[p][i] \in Nat
      BY <1>2 DEF Log
    <2>3. \A p \in Plans : Len(pressed[p]) \in Nat BY <1>2 DEF Log
    <2>. QED BY <1>1, <2>1, <2>2, <2>3, Constants DEF Remembered
  <1>5. ASSUME NEW p \in Plans, NEW m \in Messages, PayWithWallet(p, m) PROVE Remembered'
    <2>. DEFINE touched == [recent EXCEPT ![p] = now]
    <2>0. now' = now BY <1>5 DEF PayWithWallet
    <2>1. touched \in [Plans -> Dates] /\ touched[p] = now /\ \A q \in Plans \ {p} : touched[q] = recent[q]
      BY <1>1 DEF Types, Typed, Dates, Past
    <2>. HIDE DEF touched
    <2>2. \A q \in Plans : \/ recent'[q] = touched[q]
                           \/ /\ recent'[q] = Never /\ touched[q] # Never
                              /\ touched[q] < now - Cooldown
      BY <1>5, <2>1, PrunedShape DEF Types, PayWithWallet, touched
    <2>3. recent'[p] = now BY <1>1, <2>1, <2>2, Constants
    <2>4. now # Never BY <1>1 DEF Past
    <2>5. ASSUME NEW q \in Plans \ {p}, Len(pressed[q]) > 0
          PROVE  IF recent'[q] = Never THEN now - pressed[q][Len(pressed[q])] >= Cooldown
                 ELSE recent'[q] >= pressed[q][Len(pressed[q])]
      <3>. DEFINE last == pressed[q][Len(pressed[q])]
      <3>1. last \in Nat BY <1>2, <2>5 DEF Log
      <3>2. IF recent[q] = Never THEN now - last >= Cooldown ELSE recent[q] >= last
        BY <2>5 DEF Remembered
      <3>. HIDE DEF last
      <3>3. \/ recent'[q] = recent[q]
            \/ recent'[q] = Never /\ recent[q] # Never /\ recent[q] < now - Cooldown
        BY <2>1, <2>2
      <3>4. IF recent'[q] = Never THEN now - last >= Cooldown ELSE recent'[q] >= last
        BY <1>1, <3>1, <3>2, <3>3, Constants DEF Past
      <3>. QED BY <3>4 DEF last
    <2>6. CASE pressed' = pressed
      <3>1. Len(pressed[p]) > 0 => recent'[p] >= pressed[p][Len(pressed[p])]
        BY <1>2, <2>3 DEF Log
      <3>. QED BY <2>0, <2>3, <2>4, <2>5, <2>6, <3>1 DEF Remembered
    <2>7. CASE ~IsDuplicateAction(p) /\ pressed' = [pressed EXCEPT ![p] = Noted(@, 2)]
      <3>. DEFINE s == pressed[p]
                  t == Noted(s, 2)
      <3>1. pressed'[p] = t /\ \A q \in Plans \ {p} : pressed'[q] = pressed[q]
        BY <2>7 DEF Types, Logged
      <3>2. /\ Len(t) \in 1..2 /\ t[Len(t)] = now
            /\ Len(t) = 2 => Len(s) > 0 /\ t[1] = s[Len(s)] /\ t[2] = now
        BY <1>1, <1>2, NotedPair
      <3>3. Len(s) > 0 => s[Len(s)] \in Nat BY <1>2 DEF Log
      <3>4. Len(s) > 0 => IF recent[p] = Never THEN now - s[Len(s)] >= Cooldown
                          ELSE recent[p] >= s[Len(s)]
        BY DEF Remembered
      <3>5. recent[p] = Never \/ now - recent[p] >= Cooldown
        BY <1>1, <2>7, Constants DEF IsDuplicateAction, Past
      <3>. HIDE DEF s, t
      <3>6. Len(s) > 0 => now - s[Len(s)] >= Cooldown
        BY <1>1, <3>3, <3>4, <3>5, Constants DEF Past
      <3>7. Len(t) = 2 => t[2] - t[1] >= Cooldown BY <3>2, <3>6
      <3>8. recent'[p] >= t[Len(t)] BY <1>1, <2>3, <3>2
      <3>. QED BY <2>0, <2>3, <2>4, <2>5, <3>1, <3>7, <3>8 DEF Remembered
    <2>. QED BY <1>5, <2>6, <2>7 DEF PayWithWallet
  <1>6. CASE Restart
    <2>1. \A p \in Plans : pressed'[p] = <<>> BY <1>6 DEF Restart
    <2>. QED BY <2>1 DEF Remembered
  <1>7. CASE UNCHANGED vars BY <1>3, <1>7 DEF vars
  <1>. QED BY <1>3, <1>4, <1>5, <1>6, <1>7
           DEF Next, BotClaims, ApiRequest, ConsumeApiRateLimit, ApiOrderWallet, ApiClaims

---------------------------------------------------------------------------
\* The locks

LEMMA ApartInt == /\ Apart \in Int /\ MaxWait \in Nat /\ TtlBot - MaxWait >= Apart /\ TtlMini - MaxWait >= Apart
  BY Constants DEF Apart, Least

\* A claim by anybody with a clock not read longer ago than the bound.
LEMMA ClaimLocked ==
  ASSUME Types, Locked, NEW key \in Keys, NEW read, Waited(read), NEW ttl \in {TtlBot, TtlMini},
         ClaimPurchaseAction(key, read, ttl), now' = now
  PROVE  Locked'
  <1>1. now \in Nat /\ Never \notin Past /\ \A k \in Keys : locks[k] # Never => locks[k] \in Past
    BY NowNat DEF Types, Typed
  <1>2. \A k \in Keys : Log(taken[k], 2, now) BY DEF Types, Logged
  <1>3. read \in Past /\ read \in Nat /\ read <= now /\ now - read <= MaxWait /\ ttl - MaxWait >= Apart /\ ttl \in Nat
    BY <1>1, ApartInt, Constants DEF Waited, Past
  <1>4. ASSUME NEW k \in Keys \ {key}, Len(taken[k]) > 0
        PROVE  IF locks'[k] = Never THEN now - taken[k][Len(taken[k])] > Apart
               ELSE locks'[k] >= taken[k][Len(taken[k])] - MaxWait
    <2>. DEFINE last == taken[k][Len(taken[k])]
    <2>1. last \in Nat BY <1>2, <1>4 DEF Log
    <2>2. IF locks[k] = Never THEN now - last > Apart ELSE locks[k] >= last - MaxWait
      BY <1>4 DEF Locked
    <2>. HIDE DEF last
    <2>3. \/ locks'[k] = locks[k]
          \/ locks'[k] = Never /\ locks[k] # Never /\ locks[k] < read - ttl
      BY <1>3, ClaimShape DEF Types
    <2>4. IF locks'[k] = Never THEN now - last > Apart ELSE locks'[k] >= last - MaxWait
      BY <1>1, <1>3, <2>1, <2>2, <2>3, ApartInt DEF Past
    <2>. QED BY <2>4 DEF last
  <1>5. \A k \in Keys \ {key} : taken'[k] = taken[k] BY <1>3, ClaimShape DEF Types
  <1>6. CASE taken'[key] = taken[key] /\ locks[key] # Never /\ locks'[key] = locks[key]
    BY <1>4, <1>5, <1>6 DEF Locked
  <1>7. CASE /\ taken'[key] = Noted(taken[key], 2) /\ locks'[key] = read
             /\ locks[key] = Never \/ locks[key] < read - ttl
    <2>. DEFINE s == taken[key]
                t == Noted(s, 2)
    <2>1. /\ Len(t) \in 1..2 /\ t[Len(t)] = now
          /\ Len(t) = 2 => Len(s) > 0 /\ t[1] = s[Len(s)] /\ t[2] = now
      BY <1>1, <1>2, NotedPair
    <2>2. Len(s) > 0 => s[Len(s)] \in Nat BY <1>2 DEF Log
    <2>3. Len(s) > 0 => IF locks[key] = Never THEN now - s[Len(s)] > Apart
                        ELSE locks[key] >= s[Len(s)] - MaxWait
      BY DEF Locked
    <2>. HIDE DEF s, t
    <2>4. Len(s) > 0 => now - s[Len(s)] > Apart
      BY <1>1, <1>3, <1>7, <2>2, <2>3, ApartInt DEF Past
    <2>5. Len(t) = 2 => t[2] - t[1] > Apart BY <2>1, <2>4
    <2>6. locks'[key] # Never /\ locks'[key] >= t[Len(t)] - MaxWait
      BY <1>1, <1>3, <1>7, <2>1, ApartInt
    <2>7. taken'[key] = t BY <1>7 DEF s, t
    <2>. QED BY <1>4, <1>5, <2>5, <2>6, <2>7 DEF Locked
  <1>. QED BY <1>3, <1>6, <1>7, ClaimShape DEF Types

LEMMA LockedStep == ASSUME Types, Locked, [Next]_vars PROVE Locked'
  <1>1. now \in Nat BY NowNat DEF Types
  <1>2. \A k \in Keys : Log(taken[k], 2, now) BY DEF Types, Logged
  <1>3. ASSUME UNCHANGED <<locks, taken, now>> PROVE Locked' BY <1>3 DEF Locked
  <1>4. CASE Tick
    <2>1. now' = now + 1 /\ UNCHANGED <<locks, taken>> BY <1>4 DEF Tick
    <2>2. \A k \in Keys : Len(taken[k]) \in Nat /\ \A i \in 1..Len(taken[k]) : taken[k][i] \in Nat
      BY <1>2 DEF Log
    <2>. QED BY <1>1, <2>1, <2>2, ApartInt DEF Locked
  <1>5. CASE BotClaims
    <2>1. bot.key \in Keys /\ Waited(bot.read) BY <1>5 DEF Types, Timely, BotClaims
    <2>. QED BY <1>5, <2>1, ClaimLocked DEF BotClaims
  <1>6. ASSUME NEW t \in Threads, ApiClaims(t) PROVE Locked'
    <2>1. Waited(thread[t].read) BY <1>6 DEF Types, Timely, ApiClaims
    <2>2. Mini \in Keys BY DEF Keys
    <2>. QED BY <1>6, <2>1, <2>2, ClaimLocked DEF ApiClaims
  <1>7. CASE UNCHANGED vars BY <1>3, <1>7 DEF vars
  <1>. QED BY <1>3, <1>4, <1>5, <1>6, <1>7
           DEF Next, PayWithWallet, ApiRequest, ConsumeApiRateLimit, ApiOrderWallet, Restart

---------------------------------------------------------------------------
\* The rate limit

Kept(b, second) == {r \in calls[b] : r[1] > second - Period}

LEMMA SecondInt ==
  ASSUME Typed PROVE now \div Second \in Nat
  BY NowNat, Constants

LEMMA DivNat == ASSUME NEW a \in Nat, NEW s \in Nat \ {0} PROVE a \div s \in Nat
  OBVIOUS

\* A request with a clock read not longer ago than the bound.
LEMMA ReadSecond ==
  ASSUME Typed, NEW read, Waited(read)
  PROVE  /\ read \div Second \in 0..(now \div Second) /\ Since(now) <= read \div Second
         /\ Since(now) \in Int
  <1>1. now \in Nat /\ read \in Nat /\ read <= now /\ now - MaxWait <= read /\ Second \in Nat \ {0}
         /\ MaxWait \in Nat
    BY NowNat, Constants DEF Waited, Past
  <1>2. read \div Second \in Nat /\ read \div Second <= now \div Second /\ now \div Second \in Nat
    BY <1>1, DivGrows
  <1>3. Since(now) <= read \div Second /\ Since(now) \in Int
    <2>1. now - MaxWait \in Int BY <1>1
    <2>. QED BY <1>1, <2>1, DivGrows DEF Since
  <1>. QED BY <1>2, <1>3

LEMMA SinceInt == ASSUME NEW x \in Nat PROVE Since(x) \in Int
  <1>1. x - MaxWait \in Int /\ Second \in Nat \ {0} BY Constants
  <1>. QED BY <1>1, DivGrows DEF Since

LEMMA SinceGrows ==
  ASSUME NEW x \in Nat, NEW y \in Nat, x <= y
  PROVE  Since(x) \in Int /\ Since(y) \in Int /\ Since(x) <= Since(y)
  <1>1. x - MaxWait \in Int /\ y - MaxWait \in Int /\ x - MaxWait <= y - MaxWait /\ Second \in Nat \ {0}
    BY Constants
  <1>. QED BY <1>1, DivGrows DEF Since

\* Within a period, less a second and the wait, no row was too old.
LEMMA WithinPeriod ==
  ASSUME NEW x \in Nat, NEW y \in Nat, y - x <= (Period - 1) * Second - MaxWait
  PROVE  y \div Second - Period < Since(x)
  <1>1. Period \in Nat /\ Second \in Nat \ {0} /\ MaxWait \in Nat BY Constants
  <1>. DEFINE z == x - MaxWait
              k == Period - 1
  <1>2. z \in Int /\ k \in Int BY <1>1
  <1>3. k * Second \in Int BY <1>1, <1>2
  <1>4. y <= z + k * Second BY <1>1, <1>3
  <1>. HIDE DEF z, k
  <1>5. y \div Second <= (z + k * Second) \div Second
    <2>1. z + k * Second \in Int /\ y \in Int BY <1>2, <1>3
    <2>. QED BY <1>1, <1>4, <2>1, DivGrows
  <1>6. (z + k * Second) \div Second = z \div Second + k BY <1>1, <1>2, DivShift
  <1>7. y \div Second \in Int /\ z \div Second \in Int
    <2>1. y \in Int BY <1>1
    <2>. QED BY <1>1, <1>2, <2>1, DivGrows
  <1>8. y \div Second <= z \div Second + k BY <1>5, <1>6
  <1>9. z \div Second = Since(x) /\ k = Period - 1 BY DEF z, k, Since
  <1>. QED BY <1>1, <1>7, <1>8, <1>9

\* What a call does to the rows of any bucket.
LEMMA KeptRows ==
  ASSUME Types, Rows, NEW b \in Endpoints, NEW second \in 0..(now \div Second)
  PROVE  /\ Kept(b, second) \subseteq calls[b] /\ IsFiniteSet(Kept(b, second))
         /\ Cardinality(Kept(b, second)) <= MaxCalls[b] /\ Cardinality(Kept(b, second)) \in Nat
         /\ \A r \in Kept(b, second) : r[2] < Cardinality(SameSecond(Kept(b, second), r[1]))
         /\ \A s \in Int : now \div Second - Period < s
              => RowsSince(Kept(b, second), s) = RowsSince(calls[b], s)
  <1>1. IsFiniteSet(calls[b]) /\ Cardinality(calls[b]) <= MaxCalls[b]
         /\ calls[b] \subseteq (0..(now \div Second)) \X Nat
    BY DEF Rows
  <1>2. Kept(b, second) \subseteq calls[b] BY DEF Kept
  <1>3. IsFiniteSet(Kept(b, second)) /\ Cardinality(Kept(b, second)) <= Cardinality(calls[b])
    BY <1>1, <1>2, FS_Subset
  <1>4. Cardinality(Kept(b, second)) \in Nat /\ Cardinality(calls[b]) \in Nat
    BY <1>1, <1>3, FS_CardinalityType
  <1>5. MaxCalls[b] \in Nat BY Constants
  <1>6. ASSUME NEW r \in Kept(b, second)
        PROVE  r[2] < Cardinality(SameSecond(Kept(b, second), r[1]))
    <2>1. SameSecond(Kept(b, second), r[1]) = SameSecond(calls[b], r[1])
      BY <1>6 DEF Kept, SameSecond
    <2>. QED BY <1>2, <2>1 DEF Rows
  <1>7. ASSUME NEW s \in Int, now \div Second - Period < s
        PROVE  RowsSince(Kept(b, second), s) = RowsSince(calls[b], s)
    <2>1. now \div Second \in Nat /\ Period \in Nat BY SecondInt, Constants DEF Types
    <2>2. \A r \in calls[b] : r[1] >= s => r[1] > second - Period
      BY <1>1, <1>7, <2>1
    <2>. QED BY <2>2 DEF Kept, RowsSince
  <1>. QED BY <1>2, <1>3, <1>4, <1>1, <1>5, <1>6, <1>7

\* The rows of a bucket with one more.
LEMMA RowAdded ==
  ASSUME NEW kept, IsFiniteSet(kept), NEW top \in Nat, kept \subseteq (0..top) \X Nat,
         \A r \in kept : r[2] < Cardinality(SameSecond(kept, r[1])),
         NEW second \in 0..top,
         NEW more, more = kept \cup {<<second, Cardinality(SameSecond(kept, second))>>}
  PROVE  /\ more \subseteq (0..top) \X Nat
         /\ IsFiniteSet(more) /\ Cardinality(more) = Cardinality(kept) + 1
         /\ \A r \in more : r[2] < Cardinality(SameSecond(more, r[1]))
         /\ <<second, Cardinality(SameSecond(kept, second))>> \notin kept
  <1>. DEFINE number == Cardinality(SameSecond(kept, second))
              row == <<second, number>>
  <1>0. more = kept \cup {row} OBVIOUS
  <1>1. \A s : IsFiniteSet(SameSecond(kept, s)) /\ Cardinality(SameSecond(kept, s)) \in Nat
    BY FS_Subset, FS_CardinalityType DEF SameSecond
  <1>2. number \in Nat BY <1>1
  <1>3. row \notin kept
    <2>. SUFFICES ASSUME row \in kept PROVE FALSE
      OBVIOUS
    <2>1. row[1] = second /\ row[2] = number OBVIOUS
    <2>2. row[2] < Cardinality(SameSecond(kept, row[1])) OBVIOUS
    <2>. QED BY <1>2, <2>1, <2>2
  <1>. HIDE DEF number
  <1>4. row[1] = second /\ row[2] = number /\ row \in (0..top) \X Nat BY <1>2
  <1>. HIDE DEF row
  <1>5. more \subseteq (0..top) \X Nat BY <1>0, <1>4
  <1>6. IsFiniteSet(more) /\ Cardinality(more) = Cardinality(kept) + 1
    <2>1. IsFiniteSet(kept \cup {row}) /\ Cardinality(kept \cup {row}) = Cardinality(kept) + 1
      BY <1>3, FS_AddElement
    <2>. QED BY <1>0, <2>1
  <1>7. Cardinality(SameSecond(more, second)) = number + 1
    <2>1. SameSecond(more, second) = SameSecond(kept, second) \cup {row} BY <1>0, <1>4 DEF SameSecond
    <2>2. row \notin SameSecond(kept, second) BY <1>3 DEF SameSecond
    <2>3. Cardinality(SameSecond(kept, second) \cup {row}) = Cardinality(SameSecond(kept, second)) + 1
      BY <1>1, <2>2, FS_AddElement
    <2>. QED BY <2>1, <2>3 DEF number
  <1>8. ASSUME NEW r \in more PROVE r[2] < Cardinality(SameSecond(more, r[1]))
    <2>1. CASE r[1] = second /\ r \in kept
      <3>1. r[2] < number BY <2>1 DEF number
      <3>2. r[2] \in Nat BY <2>1
      <3>. QED BY <1>2, <1>7, <2>1, <3>1, <3>2
    <2>2. CASE r[1] # second
      <3>1. r \in kept BY <1>0, <1>4, <2>2
      <3>2. SameSecond(more, r[1]) = SameSecond(kept, r[1]) BY <1>0, <1>4, <2>2 DEF SameSecond
      <3>. QED BY <3>1, <3>2
    <2>3. CASE r = row
      <3>1. r[1] = second /\ r[2] = number BY <1>4, <2>3
      <3>. QED BY <1>2, <1>7, <3>1
    <2>. QED BY <1>0, <2>1, <2>2, <2>3
  <1>. QED BY <1>3, <1>5, <1>6, <1>8 DEF row, number

LEMMA RowCounted ==
  ASSUME NEW kept, IsFiniteSet(kept), NEW row, row \notin kept, NEW s \in Int, s <= row[1]
  PROVE  Cardinality(RowsSince(kept \cup {row}, s)) = Cardinality(RowsSince(kept, s)) + 1
  <1>1. RowsSince(kept \cup {row}, s) = RowsSince(kept, s) \cup {row} BY DEF RowsSince
  <1>2. RowsSince(kept, s) \subseteq kept BY DEF RowsSince
  <1>3. IsFiniteSet(RowsSince(kept, s)) /\ row \notin RowsSince(kept, s) BY <1>2, FS_Subset
  <1>. QED BY <1>1, <1>3, FS_AddElement

Limits == Rows /\ Backed /\ RateKept

LEMMA LimitsStay ==
  ASSUME Types, Limits, UNCHANGED <<calls, served>>, now' \in {now, now + 1}
  PROVE  Limits'
  <1>1. now \in Nat /\ now' \in Nat /\ now <= now' BY NowNat DEF Types
  <1>2. now \div Second <= now' \div Second /\ now \div Second \in Nat /\ now' \div Second \in Nat
    <2>1. now \in Int /\ now' \in Int /\ Second \in Nat \ {0} BY <1>1, Constants
    <2>2. now \div Second <= now' \div Second BY <1>1, <2>1, DivGrows
    <2>3. now \div Second \in Nat BY <1>1, <2>1, DivNat
    <2>4. now' \div Second \in Nat BY <1>1, <2>1, DivNat
    <2>. QED BY <2>2, <2>3, <2>4
  <1>3. Rows' BY <1>2 DEF Limits, Rows
  <1>4. Backed'
    <2>. SUFFICES ASSUME NEW b \in Endpoints, NEW i \in 1..Len(served[b]),
                         now' \div Second - Period < Since(served[b][i])
                  PROVE  Cardinality(RowsSince(calls[b], Since(served[b][i]))) >= Len(served[b]) - i + 1
      BY DEF Backed
    <2>1. served[b][i] \in Nat BY DEF Types, Logged, Log
    <2>2. Since(served[b][i]) \in Int BY <2>1, SinceInt
    <2>3. Period \in Nat BY Constants
    <2>4. now \div Second - Period < Since(served[b][i]) BY <1>2, <2>2, <2>3
    <2>. QED BY <2>4 DEF Limits, Backed
  <1>5. RateKept' BY DEF Limits, RateKept
  <1>. QED BY <1>3, <1>4, <1>5 DEF Limits

\* What is noted as served: the last times of the bucket, and now.
LEMMA ServedShape ==
  ASSUME NEW n \in Nat \ {0}, NEW s, Log(s, n, now), now \in Nat, NEW i \in 1..Len(Noted(s, n))
  PROVE  LET t == Noted(s, n)
             old == i + Len(s) + 1 - Len(t) IN
         /\ Len(t) \in 1..n
         /\ \/ i = Len(t) /\ t[i] = now
            \/ /\ i < Len(t) /\ old \in 1..Len(s) /\ t[i] = s[old] /\ s[old] \in Nat /\ s[old] <= now
               /\ Len(t) - i = Len(s) - old + 1
  <1>. DEFINE t == Noted(s, n)
              old == i + Len(s) + 1 - Len(t)
  <1>1. s \in Seq(Nat) /\ Len(s) \in Nat /\ Len(s) <= n /\ \A j \in 1..Len(s) : s[j] \in Nat /\ s[j] <= now
    BY DEF Log
  <1>2. Len(t) = IF Len(s) < n THEN Len(s) + 1 ELSE n BY <1>1, NotedShape
  <1>3. t[Len(t)] = now BY <1>1, NotedShape
  <1>4. \A j \in 1..(Len(t) - 1) : t[j] = s[j + Len(s) + 1 - Len(t)] BY <1>1, NotedShape
  <1>. HIDE DEF t
  <1>5. Len(t) \in 1..n BY <1>1, <1>2
  <1>6. i \in 1..Len(t) BY DEF t
  <1>7. CASE i = Len(t) BY <1>3, <1>5, <1>7 DEF t
  <1>8. CASE i # Len(t)
    <2>1. i \in 1..(Len(t) - 1) /\ i < Len(t) BY <1>5, <1>6, <1>8
    <2>2. old \in 1..Len(s) /\ Len(t) - i = Len(s) - old + 1 BY <1>1, <1>2, <1>5, <2>1
    <2>3. t[i] = s[old] BY <1>4, <2>1
    <2>. HIDE DEF old
    <2>4. s[old] \in Nat /\ s[old] <= now BY <1>1, <2>2
    <2>. QED BY <1>5, <2>1, <2>2, <2>3, <2>4 DEF t, old
  <1>. QED BY <1>7, <1>8

LEMMA ConsumeLimits == ASSUME Types, Limits, NEW t \in Threads, ConsumeApiRateLimit(t) PROVE Limits'
  <1>. DEFINE b == thread[t].bucket
              second == thread[t].read \div Second
              kept == [c \in Endpoints |-> Kept(c, second)]
              row == <<second, Cardinality(SameSecond(kept[b], second))>>
              admitted == Cardinality(kept[b]) < MaxCalls[b]
              sec == now \div Second
  <1>1. b \in Endpoints /\ Waited(thread[t].read)
    BY DEF Types, Timely, ConsumeApiRateLimit
  <1>2. /\ calls' = IF admitted THEN [kept EXCEPT ![b] = @ \cup {row}] ELSE kept
        /\ served' = IF admitted THEN [served EXCEPT ![b] = Noted(@, MaxCalls[b] + 1)] ELSE served
        /\ now' = now
    BY Zenon DEF ConsumeApiRateLimit, Allowed, Kept, SameSecond
  <1>. HIDE DEF b
  <1>3. second \in 0..sec /\ Since(now) <= second /\ Since(now) \in Int /\ sec \in Nat
    BY <1>1, ReadSecond, SecondInt DEF Types
  <1>. HIDE DEF second
  <1>4. \A c \in Endpoints :
          /\ kept[c] \subseteq calls[c] /\ kept[c] = Kept(c, second) /\ IsFiniteSet(kept[c])
          /\ Cardinality(kept[c]) <= MaxCalls[c] /\ Cardinality(kept[c]) \in Nat
          /\ \A r \in kept[c] : r[2] < Cardinality(SameSecond(kept[c], r[1]))
          /\ \A s \in Int : sec - Period < s => RowsSince(kept[c], s) = RowsSince(calls[c], s)
    <2>. SUFFICES ASSUME NEW c \in Endpoints
                  PROVE  /\ Kept(c, second) \subseteq calls[c] /\ IsFiniteSet(Kept(c, second))
                         /\ Cardinality(Kept(c, second)) <= MaxCalls[c] /\ Cardinality(Kept(c, second)) \in Nat
                         /\ \A r \in Kept(c, second) :
                              r[2] < Cardinality(SameSecond(Kept(c, second), r[1]))
                         /\ \A s \in Int : sec - Period < s
                              => RowsSince(Kept(c, second), s) = RowsSince(calls[c], s)
      OBVIOUS
    <2>. QED BY <1>3, KeptRows DEF Limits
  <1>5. \A c \in Endpoints : kept[c] \subseteq (0..sec) \X Nat BY <1>4 DEF Limits, Rows
  <1>6. \A c \in Endpoints : MaxCalls[c] \in Nat \ {0} BY Constants
  <1>7. kept \in [Endpoints -> SUBSET ((0..sec) \X Nat)] BY <1>5
  <1>. HIDE DEF kept
  \* The rows that back the calls served before.
  <1>8. ASSUME NEW c \in Endpoints, NEW i \in 1..Len(served[c]), sec - Period < Since(served[c][i])
        PROVE  Cardinality(RowsSince(kept[c], Since(served[c][i]))) >= Len(served[c]) - i + 1
    <2>1. served[c][i] \in Nat BY DEF Types, Logged, Log
    <2>2. Since(served[c][i]) \in Int BY <2>1, SinceInt
    <2>3. RowsSince(kept[c], Since(served[c][i])) = RowsSince(calls[c], Since(served[c][i]))
      BY <1>4, <1>8, <2>2
    <2>. QED BY <1>8, <2>3 DEF Limits, Backed
  <1>9. CASE ~admitted
    <2>1. calls' = kept /\ served' = served BY <1>2, <1>9
    <2>2. Rows' BY <1>2, <1>4, <1>7, <2>1 DEF Rows
    <2>3. Backed' BY <1>2, <1>8, <2>1 DEF Backed
    <2>4. RateKept' BY <2>1 DEF Limits, RateKept
    <2>. QED BY <2>2, <2>3, <2>4 DEF Limits
  <1>10. CASE admitted
    <2>. DEFINE more == kept[b] \cup {row}
                n == MaxCalls[b] + 1
                old == served[b]
                new == Noted(old, n)
    <2>1. /\ more \subseteq (0..sec) \X Nat
          /\ IsFiniteSet(more) /\ Cardinality(more) = Cardinality(kept[b]) + 1
          /\ \A r \in more : r[2] < Cardinality(SameSecond(more, r[1]))
          /\ row \notin kept[b] /\ row[1] = second
      <3>. DEFINE K == kept[b]
      <3>1. /\ IsFiniteSet(K) /\ K \subseteq (0..sec) \X Nat
            /\ \A r \in K : r[2] < Cardinality(SameSecond(K, r[1]))
        BY <1>1, <1>4, <1>5
      <3>. HIDE DEF K, sec
      <3>2. PICK rows : rows = K \cup {<<second, Cardinality(SameSecond(K, second))>>}
        OBVIOUS
      <3>3. sec \in Nat /\ second \in 0..sec BY <1>3
      <3>4. rows \subseteq (0..sec) \X Nat BY <3>1, <3>2, <3>3, RowAdded
      <3>5. IsFiniteSet(rows) BY <3>1, <3>2, <3>3, RowAdded
      <3>6. \A r \in rows : r[2] < Cardinality(SameSecond(rows, r[1])) BY <3>1, <3>2, <3>3, RowAdded
      <3>7. <<second, Cardinality(SameSecond(K, second))>> \notin K BY <3>1, <3>2, <3>3, RowAdded
      <3>8. Cardinality(rows) = Cardinality(K) + 1 BY <3>1, <3>2, <3>7, FS_AddElement
      <3>9. rows = more BY <3>2 DEF K
      <3>. HIDE DEF more
      <3>. QED BY <3>4, <3>9, <3>5, <3>8, <3>6, <3>7 DEF K
    <2>2. calls' = [kept EXCEPT ![b] = more] /\ served' = [served EXCEPT ![b] = new]
      BY <1>2, <1>10
    <2>3. /\ calls'[b] = more /\ \A c \in Endpoints \ {b} : calls'[c] = kept[c]
          /\ served'[b] = new /\ \A c \in Endpoints \ {b} : served'[c] = served[c]
      BY <1>1, <1>7, <2>2 DEF Types, Logged
    <2>4. Cardinality(more) <= MaxCalls[b] /\ Cardinality(more) \in Nat
      BY <1>1, <1>4, <1>6, <1>10, <2>1
    <2>. HIDE DEF more, row
    <2>5. calls' \in [Endpoints -> SUBSET ((0..sec) \X Nat)] BY <1>7, <2>1, <2>2
    <2>6. Rows' BY <1>1, <1>2, <1>4, <2>1, <2>3, <2>4, <2>5 DEF Rows
    <2>7. n \in Nat \ {0} /\ Log(old, n, now) /\ now \in Nat
      BY <1>1, <1>6, NowNat DEF Types, Logged
    <2>. HIDE DEF n, old
    <2>8. ASSUME NEW i \in 1..Len(new), sec - Period < Since(new[i])
          PROVE  /\ Cardinality(RowsSince(more, Since(new[i]))) >= Len(new) - i + 1
      <3>. DEFINE j == i + Len(old) + 1 - Len(new)
      <3>1. /\ Len(new) \in 1..n
            /\ \/ i = Len(new) /\ new[i] = now
               \/ /\ i < Len(new) /\ j \in 1..Len(old) /\ new[i] = old[j] /\ old[j] \in Nat /\ old[j] <= now
                  /\ Len(new) - i = Len(old) - j + 1
        BY <2>7, ServedShape
      <3>. HIDE DEF new, j
      <3>2. new[i] \in Nat /\ new[i] <= now BY <2>7, <3>1
      <3>3. Since(new[i]) \in Int /\ Since(new[i]) <= second
        <4>1. Since(new[i]) \in Int /\ Since(new[i]) <= Since(now) BY <2>7, <3>2, SinceGrows
        <4>. QED BY <1>3, <4>1
      <3>4. Cardinality(RowsSince(more, Since(new[i]))) = Cardinality(RowsSince(kept[b], Since(new[i]))) + 1
        <4>1. Since(new[i]) <= row[1] /\ IsFiniteSet(kept[b]) BY <1>1, <1>4, <2>1, <3>3
        <4>. QED BY <2>1, <3>3, <4>1, RowCounted DEF more
      <3>5. Cardinality(RowsSince(kept[b], Since(new[i]))) \in Nat
        <4>1. RowsSince(kept[b], Since(new[i])) \subseteq kept[b] BY DEF RowsSince
        <4>. QED BY <1>1, <1>4, <4>1, FS_Subset, FS_CardinalityType
      <3>6. CASE i = Len(new) BY <3>1, <3>4, <3>5, <3>6
      <3>7. CASE i < Len(new)
        <4>1. j \in 1..Len(old) /\ new[i] = old[j] /\ Len(new) - i = Len(old) - j + 1
          BY <3>1, <3>7
        <4>2. Cardinality(RowsSince(kept[b], Since(old[j]))) >= Len(old) - j + 1
          BY <1>1, <1>8, <2>8, <4>1 DEF old
        <4>3. Len(old) \in Nat BY <2>7 DEF Log
        <4>. QED BY <3>1, <3>4, <3>5, <4>1, <4>2, <4>3
      <3>. QED BY <3>1, <3>6, <3>7
    <2>9. Backed'
      <3>. SUFFICES ASSUME NEW c \in Endpoints, NEW i \in 1..Len(served'[c]),
                           sec - Period < Since(served'[c][i])
                    PROVE  Cardinality(RowsSince(calls'[c], Since(served'[c][i]))) >= Len(served'[c]) - i + 1
        BY <1>2 DEF Backed, Since
      <3>1. CASE c = b BY <2>3, <2>8, <3>1
      <3>2. CASE c # b BY <1>8, <2>3, <3>2
      <3>. QED BY <3>1, <3>2
    <2>10. ASSUME Len(new) = n PROVE new[n] - new[1] > (Period - 1) * Second - MaxWait
      <3>1. 1 \in 1..Len(new) /\ n \in 1..Len(new) BY <2>7, <2>10
      <3>2. new[n] = now
        <4>. DEFINE j == n + Len(old) + 1 - Len(new)
        <4>1. \/ n = Len(new) /\ new[n] = now
              \/ n < Len(new)
          BY <2>7, <3>1, ServedShape
        <4>. QED BY <2>7, <2>10, <4>1
      <3>3. new[1] \in Nat
        <4>. DEFINE j == 1 + Len(old) + 1 - Len(new)
        <4>1. \/ new[1] = now
              \/ new[1] = old[j] /\ old[j] \in Nat
          BY <2>7, <3>1, ServedShape
        <4>. QED BY <2>7, <4>1
      <3>. HIDE DEF new
      <3>. SUFFICES ASSUME now - new[1] <= (Period - 1) * Second - MaxWait PROVE FALSE
        <4>1. (Period - 1) * Second - MaxWait \in Int BY Constants
        <4>. QED BY <2>7, <3>2, <3>3, <4>1
      <3>4. sec - Period < Since(new[1]) BY <2>7, <3>3, WithinPeriod
      <3>5. Cardinality(RowsSince(more, Since(new[1]))) >= n BY <2>7, <2>8, <2>10, <3>1, <3>4
      <3>6. Cardinality(RowsSince(more, Since(new[1]))) <= Cardinality(more)
             /\ Cardinality(RowsSince(more, Since(new[1]))) \in Nat
        <4>1. RowsSince(more, Since(new[1])) \subseteq more BY DEF RowsSince
        <4>. QED BY <2>1, <4>1, FS_Subset, FS_CardinalityType
      <3>. QED BY <1>1, <1>6, <2>4, <3>5, <3>6 DEF n
    <2>11. RateKept'
      <3>. SUFFICES ASSUME NEW c \in Endpoints, Len(served'[c]) = MaxCalls[c] + 1
                    PROVE  served'[c][MaxCalls[c] + 1] - served'[c][1] > (Period - 1) * Second - MaxWait
        BY DEF RateKept
      <3>1. CASE c = b BY <2>3, <2>10, <3>1 DEF n
      <3>2. CASE c # b BY <2>3, <3>2 DEF Limits, RateKept
      <3>. QED BY <3>1, <3>2
    <2>. QED BY <2>6, <2>9, <2>11 DEF Limits
  <1>. QED BY <1>9, <1>10

LEMMA LimitsStep == ASSUME Types, Limits, [Next]_vars PROVE Limits'
  <1>1. ASSUME UNCHANGED <<calls, served>>, now' \in {now, now + 1} PROVE Limits' BY <1>1, LimitsStay
  <1>2. CASE UNCHANGED vars BY <1>1, <1>2 DEF vars
  <1>. QED BY <1>1, <1>2, ConsumeLimits
           DEF Next, Tick, PayWithWallet, BotClaims, ApiRequest, ApiOrderWallet, ApiClaims, Restart

---------------------------------------------------------------------------
LEMMA InitInv == Init => IInv
  <1>. SUFFICES ASSUME Init PROVE IInv
    OBVIOUS
  <1>1. Types BY InitTypes
  <1>2. Remembered BY DEF Init, Remembered
  <1>3. Locked BY DEF Init, Locked
  <1>4. Rows BY FS_EmptySet, Constants DEF Init, Rows
  <1>5. \A b \in Endpoints : served[b] = <<>> BY DEF Init
  <1>6. Backed BY <1>5 DEF Backed
  <1>7. RateKept BY <1>5, Constants DEF RateKept
  <1>. QED BY <1>1, <1>2, <1>3, <1>4, <1>6, <1>7 DEF IInv, Types

LEMMA StepInv == IInv /\ [Next]_vars => IInv'
  BY TypesStep, RememberedStep, LockedStep, LimitsStep DEF IInv, Types, Limits

LEMMA Invariance == Spec => []IInv
  BY InitInv, StepInv, PTL DEF Spec

\* A history that keeps its type is one of at most n times up to now.
LEMMA LogBounded ==
  ASSUME NEW n \in Nat, NEW s, now \in Nat, Log(s, n, now) PROVE s \in BoundedSeq(Past, n)
  <1>1. s \in Seq(Nat) /\ Len(s) \in 0..n /\ \A i \in 1..Len(s) : s[i] \in Past BY DEF Log, Past
  <1>2. s \in [1..Len(s) -> Past] BY <1>1
  <1>. QED BY <1>1, <1>2 DEF BoundedSeq, SeqOf

\* Every variable keeps its type for any load: no press, lock, call or entry of a history is
\* dated later than now, and no bucket has more rows than its calls (database.py:2271).
THEOREM TypeCorrect == Spec => []TypeOK
  <1>1. IInv => TypeOK
    <2>. SUFFICES ASSUME IInv PROVE TypeOK
      OBVIOUS
    <2>1. Typed /\ Logged /\ Rows /\ Types BY DEF IInv, Types
    <2>2. now \in Nat BY <2>1, NowNat
    <2>3. ASSUME NEW b \in Endpoints
          PROVE  calls[b] \subseteq (0..(now \div Second)) \X (0..(MaxCalls[b] - 1))
      <3>. SUFFICES ASSUME NEW r \in calls[b]
                    PROVE  r \in (0..(now \div Second)) \X (0..(MaxCalls[b] - 1))
        OBVIOUS
      <3>. DEFINE peers == SameSecond(calls[b], r[1])
      <3>1. r \in (0..(now \div Second)) \X Nat /\ r[2] < Cardinality(peers)
        BY <2>1 DEF Rows
      <3>2. IsFiniteSet(calls[b]) /\ Cardinality(calls[b]) <= MaxCalls[b] BY <2>1 DEF Rows
      <3>3. peers \subseteq calls[b] BY DEF SameSecond
      <3>. HIDE DEF peers
      <3>4. Cardinality(peers) <= Cardinality(calls[b]) /\ Cardinality(peers) \in Nat
             /\ Cardinality(calls[b]) \in Nat
        BY <3>2, <3>3, FS_Subset, FS_CardinalityType
      <3>5. MaxCalls[b] \in Nat BY Constants
      <3>6. r[2] \in 0..(MaxCalls[b] - 1) BY <3>1, <3>2, <3>4, <3>5
      <3>. QED BY <3>1, <3>6
    <2>4. \A p \in Plans : pressed[p] \in BoundedSeq(Past, 2) BY <2>1, <2>2, LogBounded DEF Logged
    <2>5. \A k \in Keys : taken[k] \in BoundedSeq(Past, 2) BY <2>1, <2>2, LogBounded DEF Logged
    <2>6. \A b \in Endpoints : served[b] \in BoundedSeq(Past, MaxCalls[b] + 1)
      BY <2>1, <2>2, LogBounded, Constants DEF Logged
    <2>. QED BY <2>1, <2>3, <2>4, <2>5, <2>6 DEF TypeOK, Typed, Dates, Past
  <1>. QED BY <1>1, Invariance, PTL

\* For any buttons, messages and lengths of time: admitted presses of one button are a cooldown
\* apart while the process lives, and claims of one key more than the shorter of the two TTLs
\* less the wait, whoever claims them and however often the process restarts (utils.py:73,
\* database.py:2180).
THEOREM PressesKeptApart == Spec => []PressesApart
  <1>1. IInv => PressesApart BY DEF IInv, Remembered, Locked, Apart, PressesApart
  <1>. QED BY <1>1, Invariance, PTL

\* For any number of requests, endpoints, calls and seconds: no endpoint serves more than its
\* calls within a period less a second and the wait, whatever rows the other endpoints' calls
\* delete meanwhile (database.py:2271).
THEOREM RateAlwaysKept == Spec => []RateKept
  BY Invariance, PTL DEF IInv

=============================================================================
