-------------------------- MODULE ShopAccountsProofs --------------------------
(***************************************************************************)
(* Proofs about ShopAccounts, for any buyers, threads, plans and bounds:   *)
(* the cache of "orders_enabled", the one free test of a buyer, and then   *)
(* the books: wallets, locked rewards and the money of purchases under     *)
(* way.                                                                    *)
(*                                                                         *)
(* The balances are sums over buyers and workers.  A sum of natural        *)
(* numbers is the number of coins in a finite set, and what a sum does     *)
(* when a row changes follows from what the cardinality does.              *)
(***************************************************************************)
EXTENDS ShopAccounts, FiniteSetTheorems, TLAPS

Stages == {"idle", "filling", "overtaken", "admitted", "priced", "code", "reward", "order",
           "releasing", "caching"}

\* Stages without a purchase.
Bare == {"idle", "filling", "overtaken", "admitted", "releasing", "caching"}

Jobs == [at : Stages, who : Users \cup {Nobody}, plan : Plans \cup {"none"}, price : Nat,
         coded : BOOLEAN, seen : {"none", "on", "off"}]

\* The part of TypeOK that has no balance in it.
Shapes ==
  /\ enabled \in {"on", "off"} /\ cached \in {"none", "on", "off"} /\ stale \in BOOLEAN
  /\ uses \in Nat /\ applied \in [Users -> Nat]
  /\ job \in [Workers -> Jobs]
  /\ tests \in [Users -> Nat] /\ opened \subseteq Users /\ raced \subseteq Users

\* A thread that reads the setting and was not overtaken holds its value.
Reads == \A w \in Workers : job[w].at = "filling" => job[w].seen = enabled

\* Who is not buying has no plan in hand.
Empty == \A w \in Workers : job[w].at \in Bare => job[w].plan = "none"

Tests(w, u) == job[w].who = u /\ job[w].plan = "test"

\* A buyer whose requests never overlapped has one free test, or one request for it, or
\* one link to pay for it, or nothing.
OneTest ==
  \A u \in Users \ raced :
    /\ tests[u] <= 1
    /\ u \in opened => tests[u] = 0 /\ \A w \in Workers : ~Tests(w, u)
    /\ \A w \in Workers : Tests(w, u) =>
         tests[u] = 0 /\ \A v \in Workers : Tests(v, u) => v = w

IInv == Shapes /\ Reads /\ CacheTrue /\ Empty /\ OneTest

---------------------------------------------------------------------------
\* Prices are natural numbers.
LEMMA LeastNat == ASSUME NEW a \in Nat, NEW b \in Nat PROVE Least(a, b) \in Nat
  BY DEF Least

LEMMA MinusNat == ASSUME NEW a \in Nat, NEW b \in Nat PROVE Minus(a, b) \in Nat
  BY DEF Minus

LEMMA PriceNat ==
  ASSUME NEW u \in Users, NEW plan \in Plans, NEW coded \in BOOLEAN
  PROVE  FinalPrice(u, plan, coded) \in Nat
  <1>1. PlanPrice[plan] \in Nat /\ CodeOff \in Nat /\ AgentOff[u] \in Nat
    BY ShopAssumption DEF ShopAssumption, Plans
  <1>2. CodePrice(plan, coded) \in Nat
    <2>1. (IF Valid(plan, coded) THEN CodeOff ELSE 0) \in Nat BY <1>1
    <2>. QED BY <1>1, <2>1, MinusNat DEF CodePrice
  <1>3. AgentPrice(u, plan) \in Nat BY <1>1, MinusNat DEF AgentPrice
  <1>. QED BY <1>2, <1>3, LeastNat DEF FinalPrice

LEMMA ProductNat == ASSUME NEW a \in Nat, NEW b \in Nat PROVE a * b \in Nat
  OBVIOUS

LEMMA CustomPriceNat ==
  ASSUME Shapes, NEW u \in Users, NEW w \in Workers
  PROVE  CustomPrice(w, u) \in Nat
  <1>1. "custom" \in Plans BY ShopAssumption DEF ShopAssumption
  <1>2. PlanPrice["custom"] \in Nat /\ CodeOff \in Nat /\ AgentOff[u] \in Nat
    BY <1>1, ShopAssumption DEF ShopAssumption, Plans
  <1>3. AgentPrice(u, "custom") \in Nat BY <1>2, MinusNat DEF AgentPrice
  <1>4. applied[u] * CodeOff \in Nat BY <1>2, ProductNat DEF Shapes
  <1>5. (IF w = Loop THEN applied[u] * CodeOff ELSE 0) \in Nat BY <1>4
  <1>. QED BY <1>3, <1>5, MinusNat DEF CustomPrice

LEMMA IdleJob == Idle \in Jobs
  BY DEF Idle, Jobs, Stages

---------------------------------------------------------------------------
\* What a step does to the part of the state the invariant is about.

\* Nothing but the uses of the code.
Aside ==
  /\ UNCHANGED <<setting, job, tests, opened, raced>>
  /\ uses' \in Nat /\ applied' \in [Users -> Nat]

\* A worker goes on with what it has, and only then with a purchase.
Works(w) ==
  /\ UNCHANGED <<setting, tests, opened, raced>>
  /\ uses' \in Nat /\ applied' \in [Users -> Nat]
  /\ \E r \in Jobs :
       /\ job' = [job EXCEPT ![w] = r]
       /\ job[w].at # "caching" /\ r.at # "overtaken"
       /\ r.at = "filling" => r.seen = enabled
       /\ r.at \in Bare => r.plan = "none"
       /\ r.plan = "none" \/ (r.plan = job[w].plan /\ r.who = job[w].who)

\* A worker begins a purchase.
Begins(w, u, plan) ==
  /\ UNCHANGED <<setting, tests, opened, codes>>
  /\ plan = "test" => tests[u] = 0
  /\ raced' = IF plan = "test" /\ TestOutstanding(u) THEN raced \cup {u} ELSE raced
  /\ \E r \in Jobs : r.at = "priced" /\ r.who = u /\ r.plan = plan
                       /\ job' = [job EXCEPT ![w] = r]
  /\ job[w].at \in {"idle", "admitted"}

\* A worker writes the order of what it has in hand.
Writes(w) ==
  /\ UNCHANGED <<setting, opened, raced, codes>>
  /\ job[w].at = "order"
  /\ tests' = IF job[w].plan = "test" THEN [tests EXCEPT ![job[w].who] = @ + 1] ELSE tests
  /\ \E r \in Jobs :
       /\ job' = [job EXCEPT ![w] = r]
       /\ r = Idle \/ (r.at = "reward" /\ job[w].plan = "custom" /\ r.plan = "custom")

LEMMA AsideKeeps == ASSUME IInv, Aside PROVE IInv'
  <1>1. Shapes' BY DEF IInv, Aside, Shapes, setting
  <1>2. Reads' /\ CacheTrue' BY DEF IInv, Aside, Reads, CacheTrue, At, setting
  <1>3. Empty' /\ OneTest' BY DEF IInv, Aside, Empty, OneTest, Tests
  <1>. QED BY <1>1, <1>2, <1>3 DEF IInv

LEMMA WorksKeeps == ASSUME IInv, NEW w \in Workers, Works(w) PROVE IInv'
  <1>1. PICK r \in Jobs :
          /\ job' = [job EXCEPT ![w] = r]
          /\ job[w].at # "caching" /\ r.at # "overtaken"
          /\ r.at = "filling" => r.seen = enabled
          /\ r.at \in Bare => r.plan = "none"
          /\ r.plan = "none" \/ (r.plan = job[w].plan /\ r.who = job[w].who)
    BY DEF Works
  <1>2. job \in [Workers -> Jobs] BY DEF IInv, Shapes
  <1>3. job'[w] = r /\ \A v \in Workers : v # w => job'[v] = job[v] BY <1>1, <1>2
  <1>4. Shapes' BY <1>1, <1>2 DEF IInv, Works, Shapes, setting
  <1>5. Reads' BY <1>1, <1>3 DEF IInv, Works, Reads, setting
  <1>6. CacheTrue'
    <2>1. At(Loop, "caching") => At(Loop, "caching")'
      <3>1. Loop \in Workers BY DEF Workers
      <3>. QED BY <1>1, <1>3, <3>1 DEF At
    <2>. QED BY <2>1 DEF IInv, Works, CacheTrue, setting
  <1>7. Empty' BY <1>1, <1>3 DEF IInv, Empty
  <1>8. OneTest'
    <2>1. \A v \in Workers, u \in Users : Tests(v, u)' => Tests(v, u)
      BY <1>1, <1>3 DEF Tests
    <2>. QED BY <2>1 DEF IInv, Works, OneTest
  <1>. QED BY <1>4, <1>5, <1>6, <1>7, <1>8 DEF IInv

LEMMA BeginsKeeps ==
  ASSUME IInv, NEW w \in Workers, NEW u \in Users, NEW plan \in Plans, Begins(w, u, plan)
  PROVE  IInv'
  <1>1. PICK r \in Jobs : r.at = "priced" /\ r.who = u /\ r.plan = plan
                            /\ job' = [job EXCEPT ![w] = r]
    BY DEF Begins
  <1>2. job \in [Workers -> Jobs] BY DEF IInv, Shapes
  <1>3. job'[w] = r /\ \A v \in Workers : v # w => job'[v] = job[v] BY <1>1, <1>2
  <1>4. Shapes' BY <1>1, <1>2 DEF IInv, Begins, Shapes, setting, codes
  <1>5. Reads' BY <1>1, <1>3 DEF IInv, Begins, Reads, setting
  <1>6. CacheTrue'
    <2>1. At(Loop, "caching") => At(Loop, "caching")'
      <3>1. Loop \in Workers BY DEF Workers
      <3>. QED BY <1>3, <3>1 DEF At, Begins
    <2>. QED BY <2>1 DEF IInv, Begins, CacheTrue, setting
  <1>7. Empty' BY <1>1, <1>3 DEF IInv, Empty, Bare
  <1>8. OneTest'
    <2>1. job[w].plan = "none" BY DEF IInv, Empty, Begins, Bare
    <2>2. \A v \in Workers, x \in Users : Tests(v, x)' =>
            Tests(v, x) \/ (v = w /\ x = u /\ plan = "test")
      BY <1>1, <1>3 DEF Tests
    <2>3. raced \subseteq raced' BY DEF Begins
    <2>4. ASSUME plan = "test", u \notin raced'
          PROVE  /\ tests[u] = 0 /\ u \notin opened
                 /\ \A v \in Workers : ~Tests(v, u)
      BY <2>4 DEF Begins, TestOutstanding, Tests
    <2>5. tests' = tests /\ opened' = opened BY DEF Begins
    <2>. SUFFICES ASSUME NEW x \in Users, x \notin raced'
                  PROVE  /\ tests[x] <= 1
                         /\ x \in opened => tests[x] = 0 /\ \A v \in Workers : ~Tests(v, x)'
                         /\ \A v \in Workers : Tests(v, x)' =>
                              tests[x] = 0 /\ \A y \in Workers : Tests(y, x)' => y = v
      BY <2>5 DEF OneTest, Tests
    <2>6. x \notin raced BY <2>3
    <2>7. CASE plan = "test" /\ x = u
      <3>1. \A v \in Workers : Tests(v, x)' => v = w BY <2>2, <2>4, <2>7
      <3>2. tests[x] = 0 /\ x \notin opened BY <2>4, <2>7
      <3>. QED BY <3>1, <3>2
    <2>8. CASE ~(plan = "test" /\ x = u)
      <3>1. \A v \in Workers : Tests(v, x)' => Tests(v, x) BY <2>2, <2>8
      <3>. QED BY <2>6, <3>1 DEF IInv, OneTest
    <2>. QED BY <2>7, <2>8
  <1>. QED BY <1>4, <1>5, <1>6, <1>7, <1>8 DEF IInv

LEMMA WritesKeeps == ASSUME IInv, NEW w \in Workers, Writes(w) PROVE IInv'
  <1>1. PICK r \in Jobs :
          /\ job' = [job EXCEPT ![w] = r]
          /\ r = Idle \/ (r.at = "reward" /\ job[w].plan = "custom" /\ r.plan = "custom")
    BY DEF Writes
  <1>2. job \in [Workers -> Jobs] BY DEF IInv, Shapes
  <1>3. job'[w] = r /\ \A v \in Workers : v # w => job'[v] = job[v] BY <1>1, <1>2
  <1>4. r.at \in {"idle", "reward"} /\ r.plan # "test" /\ (r.at = "idle" => r.plan = "none")
    BY <1>1 DEF Idle
  <1>5. tests' \in [Users -> Nat]
    <2>1. tests \in [Users -> Nat] BY DEF IInv, Shapes
    <2>2. tests' = tests \/ tests' = [tests EXCEPT ![job[w].who] = @ + 1] BY DEF Writes
    <2>. QED BY <2>1, <2>2
  <1>6. Shapes' BY <1>1, <1>2, <1>5 DEF IInv, Writes, Shapes, setting, codes
  <1>7. Reads' BY <1>3, <1>4 DEF IInv, Writes, Reads, setting
  <1>8. CacheTrue'
    <2>1. At(Loop, "caching") => At(Loop, "caching")'
      <3>1. Loop \in Workers BY DEF Workers
      <3>. QED BY <1>3, <3>1 DEF At, Writes
    <2>. QED BY <2>1 DEF IInv, Writes, CacheTrue, setting
  <1>9. Empty' BY <1>3, <1>4 DEF IInv, Empty, Bare
  <1>10. OneTest'
    <2>1. \A v \in Workers, x \in Users : Tests(v, x)' => Tests(v, x) /\ v # w
      BY <1>3, <1>4 DEF Tests
    <2>2. ASSUME NEW x \in Users PROVE tests'[x] = IF Tests(w, x) THEN tests[x] + 1 ELSE tests[x]
      BY DEF IInv, Shapes, Writes, Tests
    <2>3. raced' = raced /\ opened' = opened BY DEF Writes
    <2>. SUFFICES ASSUME NEW x \in Users, x \notin raced
                  PROVE  /\ tests'[x] <= 1
                         /\ x \in opened => tests'[x] = 0 /\ \A v \in Workers : ~Tests(v, x)'
                         /\ \A v \in Workers : Tests(v, x)' =>
                              tests'[x] = 0 /\ \A y \in Workers : Tests(y, x)' => y = v
      BY <2>3 DEF OneTest, Tests
    <2>4. CASE Tests(w, x)
      <3>1. tests[x] = 0 /\ x \notin opened /\ \A v \in Workers : Tests(v, x) => v = w
        BY <2>4 DEF IInv, OneTest
      <3>2. \A v \in Workers : ~Tests(v, x)' BY <2>1, <3>1
      <3>3. tests'[x] = 1 BY <2>2, <2>4, <3>1
      <3>. QED BY <3>1, <3>2, <3>3
    <2>5. CASE ~Tests(w, x)
      <3>1. tests'[x] = tests[x] BY <2>2, <2>5
      <3>. QED BY <2>1, <3>1 DEF IInv, OneTest
    <2>. QED BY <2>4, <2>5
  <1>. QED BY <1>6, <1>7, <1>8, <1>9, <1>10 DEF IInv

---------------------------------------------------------------------------
\* The cache

LEMMA SetOrdersKeeps ==
  ASSUME IInv, NEW value \in {"on", "off"}, SetOrders(value) PROVE IInv'
  <1>1. job \in [Workers -> Jobs] BY DEF IInv, Shapes
  <1>2. ASSUME NEW w \in Workers
        PROVE  /\ job'[w] \in Jobs /\ job'[w].at # "filling"
               /\ w = Loop => job'[w].at = "caching"
               /\ job'[w].at \in Bare => job'[w].plan = "none"
               /\ job'[w].plan = "none" \/ (job'[w].plan = job[w].plan /\ job'[w].who = job[w].who)
    <2>1. CASE w = Loop
      <3>1. job'[w] = [Idle EXCEPT !.at = "caching"] BY <2>1 DEF SetOrders
      <3>2. job'[w] \in Jobs BY <3>1, IdleJob DEF Jobs, Stages
      <3>3. job'[w].at = "caching" /\ job'[w].plan = "none" BY <3>1 DEF Idle
      <3>. QED BY <2>1, <3>2, <3>3
    <2>2. CASE w # Loop /\ job[w].at = "filling"
      <3>1. job'[w] = [job[w] EXCEPT !.at = "overtaken"] BY <2>2 DEF SetOrders
      <3>2. job[w] \in Jobs /\ job[w].plan = "none" BY <1>1, <2>2 DEF IInv, Empty, Bare
      <3>3. job'[w] \in Jobs BY <3>1, <3>2 DEF Jobs, Stages
      <3>4. job'[w].at = "overtaken" /\ job'[w].plan = "none" BY <3>1, <3>2 DEF Jobs
      <3>. QED BY <2>2, <3>3, <3>4
    <2>3. CASE w # Loop /\ job[w].at # "filling"
      <3>1. job'[w] = job[w] BY <2>3 DEF SetOrders
      <3>. QED BY <1>1, <2>3, <3>1 DEF IInv, Empty
    <2>. QED BY <2>1, <2>2, <2>3
  <1>3. job' \in [Workers -> Jobs] BY <1>2 DEF SetOrders
  <1>4. Shapes' BY <1>3 DEF IInv, Shapes, SetOrders, codes
  <1>5. Reads' BY <1>2 DEF Reads
  <1>6. Loop \in Workers BY DEF Workers
  <1>7. CacheTrue' BY <1>2, <1>6 DEF CacheTrue, At
  <1>8. Empty' BY <1>2 DEF Empty
  <1>9. \A v \in Workers, u \in Users : Tests(v, u)' => Tests(v, u) BY <1>2 DEF Tests
  <1>10. OneTest' BY <1>9 DEF IInv, OneTest, SetOrders
  <1>. QED BY <1>4, <1>5, <1>7, <1>8, <1>10 DEF IInv

\* A worker that writes the cache goes on with nothing in hand.
LEMMA CachedKeeps ==
  ASSUME IInv, NEW w \in Workers,
         UNCHANGED <<enabled, codes, tests, opened, raced>>,
         NEW r \in Jobs, job' = [job EXCEPT ![w] = r],
         r.at \in {"idle", "admitted"}, r.plan = "none",
         cached' \in {"none", "on", "off"}, stale' \in BOOLEAN,
         cached' \in {"none", enabled} \/ stale'
  PROVE  IInv'
  <1>1. job \in [Workers -> Jobs] BY DEF IInv, Shapes
  <1>2. job'[w] = r /\ \A v \in Workers : v # w => job'[v] = job[v] BY <1>1
  <1>3. Shapes' BY <1>1 DEF IInv, Shapes, codes
  <1>4. Reads' BY <1>2 DEF IInv, Reads
  <1>5. CacheTrue' BY DEF CacheTrue
  <1>6. Empty' BY <1>2 DEF IInv, Empty
  <1>7. \A v \in Workers, u \in Users : Tests(v, u)' => Tests(v, u) BY <1>2 DEF Tests
  <1>8. OneTest' BY <1>7 DEF IInv, OneTest
  <1>. QED BY <1>3, <1>4, <1>5, <1>6, <1>8 DEF IInv

LEMMA StoreReadKeeps == ASSUME IInv, NEW w \in Workers, StoreRead(w) PROVE IInv'
  <1>1. job \in [Workers -> Jobs] BY DEF IInv, Shapes
  <1>2. job[w] \in Jobs BY <1>1
  <1>3. cached' \in {"none", "on", "off"} BY <1>2 DEF StoreRead, Jobs
  <1>4. stale' \in BOOLEAN BY DEF StoreRead
  <1>5. cached' \in {"none", enabled} \/ stale'
    <2>1. CASE job[w].at = "filling" BY <2>1 DEF IInv, Reads, StoreRead
    <2>2. CASE job[w].at = "overtaken" BY <2>2 DEF StoreRead
    <2>. QED BY <2>1, <2>2 DEF StoreRead
  <1>6. UNCHANGED <<enabled, codes, tests, opened, raced>> BY DEF StoreRead
  <1>7. CASE job[w].seen = "on"
    <2>. DEFINE r == [Idle EXCEPT !.at = "admitted"]
    <2>1. r \in Jobs /\ r.at = "admitted" /\ r.plan = "none" BY DEF Idle, Jobs, Stages
    <2>2. job' = [job EXCEPT ![w] = r] BY <1>7 DEF StoreRead
    <2>. HIDE DEF r
    <2>. QED BY <1>3, <1>4, <1>5, <1>6, <2>1, <2>2, CachedKeeps
  <1>8. CASE job[w].seen # "on"
    <2>1. Idle \in Jobs /\ Idle.at = "idle" /\ Idle.plan = "none" BY IdleJob DEF Idle
    <2>2. job' = [job EXCEPT ![w] = Idle] BY <1>8 DEF StoreRead, Ends
    <2>. QED BY <1>3, <1>4, <1>5, <1>6, <2>1, <2>2, CachedKeeps
  <1>. QED BY <1>7, <1>8

LEMMA CacheSettingKeeps == ASSUME IInv, CacheSetting PROVE IInv'
  <1>1. Loop \in Workers BY DEF Workers
  <1>2. Idle \in Jobs /\ Idle.at = "idle" /\ Idle.plan = "none" BY IdleJob DEF Idle
  <1>3. job' = [job EXCEPT ![Loop] = Idle] BY DEF CacheSetting, Ends
  <1>4. cached' \in {"none", "on", "off"} /\ cached' = enabled /\ stale' = FALSE
    BY DEF IInv, Shapes, CacheSetting
  <1>5. UNCHANGED <<enabled, codes, tests, opened, raced>> BY DEF CacheSetting
  <1>. QED BY <1>1, <1>2, <1>3, <1>4, <1>5, CachedKeeps

\* The cache is filled with the setting, or emptied.
LEMMA RefreshKeeps ==
  ASSUME IInv, UNCHANGED <<enabled, codes, job, tests, opened, raced>>,
         cached' \in {"none", enabled}, stale' = FALSE
  PROVE  IInv'
  <1>1. Shapes' BY DEF IInv, Shapes, codes
  <1>2. Reads' /\ CacheTrue' BY DEF IInv, Reads, CacheTrue
  <1>3. Empty' /\ OneTest' BY DEF IInv, Empty, OneTest, Tests
  <1>. QED BY <1>1, <1>2, <1>3 DEF IInv

LEMMA CrashKeeps == ASSUME IInv, Crash PROVE IInv'
  <1>1. job' \in [Workers -> Jobs] /\ \A w \in Workers : job'[w] = Idle
    BY IdleJob DEF Crash
  <1>2. Shapes' BY <1>1 DEF IInv, Shapes, Crash, codes
  <1>3. Reads' BY <1>1 DEF Reads, Idle
  <1>4. CacheTrue' BY DEF CacheTrue, Crash
  <1>5. Empty' BY <1>1 DEF Empty, Idle
  <1>6. \A w \in Workers, u \in Users : ~Tests(w, u)' BY <1>1 DEF Tests, Idle
  <1>7. OneTest' BY <1>6 DEF IInv, OneTest, Crash
  <1>. QED BY <1>2, <1>3, <1>4, <1>5, <1>7 DEF IInv

---------------------------------------------------------------------------
\* The free test by an online payment

LEMMA OpenTestKeeps == ASSUME IInv, NEW u \in Users, OpenTest(u) PROVE IInv'
  <1>1. Shapes' BY DEF IInv, Shapes, OpenTest, setting, codes
  <1>2. Reads' /\ CacheTrue' BY DEF IInv, Reads, CacheTrue, At, OpenTest, setting
  <1>3. Empty' BY DEF IInv, Empty, OpenTest
  <1>4. OneTest'
    <2>1. raced \subseteq raced' BY DEF OpenTest
    <2>2. \A w \in Workers, x \in Users : Tests(w, x)' = Tests(w, x) BY DEF Tests, OpenTest
    <2>3. tests' = tests /\ opened' = opened \cup {u} /\ tests[u] = 0 BY DEF OpenTest
    <2>4. u \in raced' \/ \A w \in Workers : ~Tests(w, u)
      BY DEF OpenTest, TestOutstanding, Tests
    <2>. SUFFICES ASSUME NEW x \in Users, x \notin raced'
                  PROVE  /\ tests[x] <= 1
                         /\ x \in opened' => tests[x] = 0 /\ \A w \in Workers : ~Tests(w, x)
                         /\ \A w \in Workers : Tests(w, x) =>
                              tests[x] = 0 /\ \A v \in Workers : Tests(v, x) => v = w
      BY <2>2, <2>3 DEF OneTest
    <2>5. x \notin raced BY <2>1
    <2>6. x = u => tests[x] = 0 /\ \A w \in Workers : ~Tests(w, x) BY <2>3, <2>4
    <2>7. x # u /\ x \in opened' => x \in opened BY <2>3
    <2>. QED BY <2>5, <2>6, <2>7 DEF IInv, OneTest
  <1>. QED BY <1>1, <1>2, <1>3, <1>4 DEF IInv

LEMMA SettleTestKeeps == ASSUME IInv, NEW u \in Users, SettleTest(u) PROVE IInv'
  <1>1. tests' \in [Users -> Nat] /\ tests'[u] = tests[u] + 1
         /\ \A x \in Users : x # u => tests'[x] = tests[x]
    BY DEF IInv, Shapes, SettleTest
  <1>2. Shapes' BY <1>1 DEF IInv, Shapes, SettleTest, setting, codes
  <1>3. Reads' /\ CacheTrue' BY DEF IInv, Reads, CacheTrue, At, SettleTest, setting
  <1>4. Empty' BY DEF IInv, Empty, SettleTest
  <1>5. OneTest'
    <2>1. \A w \in Workers, x \in Users : Tests(w, x)' = Tests(w, x) BY DEF Tests, SettleTest
    <2>2. raced' = raced /\ opened' = opened \ {u} /\ u \in opened BY DEF SettleTest
    <2>. SUFFICES ASSUME NEW x \in Users, x \notin raced
                  PROVE  /\ tests'[x] <= 1
                         /\ x \in opened' => tests'[x] = 0 /\ \A w \in Workers : ~Tests(w, x)
                         /\ \A w \in Workers : Tests(w, x) =>
                              tests'[x] = 0 /\ \A v \in Workers : Tests(v, x) => v = w
      BY <2>1, <2>2 DEF OneTest
    <2>3. CASE x = u
      <3>1. tests[x] = 0 /\ \A w \in Workers : ~Tests(w, x) BY <2>2, <2>3 DEF IInv, OneTest
      <3>2. tests'[x] = 1 /\ x \notin opened' BY <1>1, <2>2, <2>3, <3>1
      <3>. QED BY <3>1, <3>2
    <2>4. CASE x # u BY <1>1, <2>2, <2>4 DEF IInv, OneTest
    <2>. QED BY <2>3, <2>4
  <1>. QED BY <1>2, <1>3, <1>4, <1>5 DEF IInv

---------------------------------------------------------------------------
\* Which steps are of which kind

LEMMA JobChange ==
  ASSUME Shapes, NEW w \in Workers, NEW at \in Stages, Goes(w, at)
  PROVE  \E r \in Jobs : /\ job' = [job EXCEPT ![w] = r]
                         /\ r.at = at /\ r.who = job[w].who /\ r.plan = job[w].plan
                         /\ r.seen = job[w].seen
  <1>. DEFINE r == [job[w] EXCEPT !.at = at]
  <1>1. job[w] \in Jobs BY DEF Shapes
  <1>2. r \in Jobs BY <1>1 DEF Jobs
  <1>3. r.at = at /\ r.who = job[w].who /\ r.plan = job[w].plan /\ r.seen = job[w].seen
    BY <1>1 DEF Jobs
  <1>4. job' = [job EXCEPT ![w] = r] BY DEF Goes
  <1>. QED BY <1>2, <1>3, <1>4

\* A handler that ends, or goes on with its purchase.
LEMMA EndsWorks ==
  ASSUME IInv, NEW w \in Workers, Ends(w), job[w].at # "caching",
         UNCHANGED <<setting, tests, opened, raced>>,
         uses' \in Nat, applied' \in [Users -> Nat]
  PROVE  Works(w)
  <1>1. Idle \in Jobs /\ Idle.at = "idle" /\ Idle.plan = "none" BY IdleJob DEF Idle
  <1>. QED BY <1>1 DEF Works, Ends

LEMMA GoesWorks ==
  ASSUME IInv, NEW w \in Workers, NEW at \in Stages, Goes(w, at), job[w].at # "caching",
         at \notin {"overtaken", "filling"}, at \in Bare => job[w].at \in Bare,
         UNCHANGED <<setting, tests, opened, raced>>,
         uses' \in Nat, applied' \in [Users -> Nat]
  PROVE  Works(w)
  <1>1. PICK r \in Jobs : /\ job' = [job EXCEPT ![w] = r]
                          /\ r.at = at /\ r.who = job[w].who /\ r.plan = job[w].plan
    BY JobChange DEF IInv
  <1>2. r.at \in Bare => r.plan = "none" BY <1>1 DEF IInv, Empty
  <1>. QED BY <1>1, <1>2 DEF Works

LEMMA PressPlanBegins ==
  ASSUME IInv, NEW w \in Workers, NEW u \in Users, NEW plan \in Plans, NEW coded \in BOOLEAN,
         PressPlan(w, u, plan, coded)
  PROVE  Begins(w, u, plan)
  <1>. DEFINE r == [at |-> "priced", who |-> u, plan |-> plan,
                    price |-> FinalPrice(u, plan, coded),
                    coded |-> CodeWins(w, u, plan, coded), seen |-> "none"]
  <1>1. CodeWins(w, u, plan, coded) \in BOOLEAN BY DEF CodeWins
  <1>2. FinalPrice(u, plan, coded) \in Nat BY PriceNat
  <1>3. r \in Jobs BY <1>1, <1>2 DEF Jobs, Stages
  <1>4. job' = [job EXCEPT ![w] = r] BY DEF PressPlan, Takes
  <1>5. r.at = "priced" /\ r.who = u /\ r.plan = plan OBVIOUS
  <1>. HIDE DEF r
  <1>6. \E x \in Jobs : x.at = "priced" /\ x.who = u /\ x.plan = plan
                          /\ job' = [job EXCEPT ![w] = x]
    BY <1>3, <1>4, <1>5
  <1>7. job[w].at \in {"idle", "admitted"} BY DEF PressPlan, At
  <1>. QED BY <1>6, <1>7 DEF Begins, PressPlan, setting, codes

LEMMA PressCustomBegins ==
  ASSUME IInv, NEW w \in Workers, NEW u \in Users, PressCustom(w, u)
  PROVE  Begins(w, u, "custom")
  <1>. DEFINE r == [at |-> "priced", who |-> u, plan |-> "custom",
                    price |-> CustomPrice(w, u), coded |-> FALSE, seen |-> "none"]
  <1>1. CustomPrice(w, u) \in Nat BY CustomPriceNat DEF IInv
  <1>2. "custom" \in Plans BY ShopAssumption DEF ShopAssumption
  <1>3. r \in Jobs BY <1>1, <1>2 DEF Jobs, Stages
  <1>4. job' = [job EXCEPT ![w] = r] BY DEF PressCustom, Takes
  <1>5. r.at = "priced" /\ r.who = u /\ r.plan = "custom" OBVIOUS
  <1>. HIDE DEF r
  <1>6. \E x \in Jobs : x.at = "priced" /\ x.who = u /\ x.plan = "custom"
                          /\ job' = [job EXCEPT ![w] = x]
    BY <1>3, <1>4, <1>5
  <1>7. job[w].at \in {"idle", "admitted"} BY DEF PressCustom, At
  <1>. QED BY <1>6, <1>7 DEF Begins, PressCustom, setting, codes

LEMMA CreateOrderWrites ==
  ASSUME IInv, NEW w \in Workers, CreateOrder(w) PROVE Writes(w)
  <1>1. job[w].at = "order" BY DEF CreateOrder, At
  <1>2. tests' = IF job[w].plan = "test" THEN [tests EXCEPT ![job[w].who] = @ + 1] ELSE tests
    BY DEF CreateOrder
  <1>3. \E r \in Jobs :
          /\ job' = [job EXCEPT ![w] = r]
          /\ r = Idle \/ (r.at = "reward" /\ job[w].plan = "custom" /\ r.plan = "custom")
    <2>1. CASE job[w].plan = "custom"
      <3>1. Goes(w, "reward") BY <2>1 DEF CreateOrder
      <3>2. "reward" \in Stages BY DEF Stages
      <3>. QED BY <2>1, <3>1, <3>2, JobChange DEF IInv
    <2>2. CASE job[w].plan # "custom"
      <3>1. Ends(w) BY <2>2 DEF CreateOrder
      <3>. QED BY <3>1, IdleJob DEF Ends
    <2>. QED BY <2>1, <2>2
  <1>4. UNCHANGED <<setting, opened, raced, codes>> BY DEF CreateOrder
  <1>. QED BY <1>1, <1>2, <1>3, <1>4 DEF Writes

LEMMA AskOrdersKeeps == ASSUME IInv, NEW w \in Workers, AskOrders(w) PROVE IInv'
  <1>1. job[w] \in Jobs /\ job[w].plan = "none" /\ job[w].at = "idle"
    BY DEF IInv, Shapes, Empty, AskOrders, Free, At, Bare
  <1>2. /\ UNCHANGED <<setting, tests, opened, raced>>
        /\ uses' \in Nat /\ applied' \in [Users -> Nat]
    BY DEF IInv, Shapes, AskOrders, codes
  <1>3. CASE cached = "on" /\ Goes(w, "admitted")
    <2>1. "admitted" \in Stages /\ job[w].at \in Bare BY <1>1 DEF Stages, Bare
    <2>. QED BY <1>1, <1>2, <1>3, <2>1, GoesWorks, WorksKeeps
  <1>4. CASE job' = [job EXCEPT ![w].at = "filling", ![w].seen = enabled]
    <2>. DEFINE r == [job[w] EXCEPT !.at = "filling", !.seen = enabled]
    <2>1. enabled \in {"on", "off"} BY DEF IInv, Shapes
    <2>2. r \in Jobs BY <1>1, <2>1 DEF Jobs, Stages
    <2>3. r.at = "filling" /\ r.seen = enabled /\ r.plan = "none" BY <1>1 DEF Jobs
    <2>4. job \in [Workers -> Jobs] BY DEF IInv, Shapes
    <2>5. job' = [job EXCEPT ![w] = r] BY <1>4, <2>4 DEF Jobs
    <2>. HIDE DEF r
    <2>6. Works(w) BY <1>1, <1>2, <2>2, <2>3, <2>5 DEF Works
    <2>. QED BY <2>6, WorksKeeps
  <1>. QED BY <1>3, <1>4 DEF AskOrders

LEMMA WorkerKeeps ==
  ASSUME IInv, NEW w \in Workers,
         GiveUp(w) \/ Deduct(w) \/ UseDiscount(w) \/ RewardReferrer(w) \/ Raise(w)
  PROVE  IInv'
  <1>. USE DEF At
  <1>1. uses \in Nat /\ applied \in [Users -> Nat] BY DEF IInv, Shapes
  <1>2. "order" \in Stages /\ "code" \in Stages /\ "reward" \in Stages BY DEF Stages
  <1>3. "order" \notin Bare /\ "code" \notin Bare /\ "reward" \notin Bare BY DEF Bare
  <1>4. CASE GiveUp(w)
    <2>1. Ends(w) /\ job[w].at # "caching" BY <1>4 DEF GiveUp
    <2>2. UNCHANGED <<setting, tests, opened, raced, codes>> BY <1>4 DEF GiveUp
    <2>. QED BY <1>1, <2>1, <2>2, EndsWorks, WorksKeeps DEF codes
  <1>5. CASE Deduct(w)
    <2>1. UNCHANGED <<setting, tests, opened, raced, codes>> BY <1>5 DEF Deduct
    <2>2. \E at \in {"order", "code", "reward"} : Goes(w, at) BY <1>5 DEF Deduct
    <2>3. job[w].at # "caching" BY <1>5 DEF Deduct
    <2>. QED BY <1>1, <1>2, <1>3, <2>1, <2>2, <2>3, GoesWorks, WorksKeeps DEF codes
  <1>6. CASE UseDiscount(w)
    <2>1. UNCHANGED <<setting, tests, opened, raced, applied>> BY <1>6 DEF UseDiscount
    <2>2. uses' \in Nat BY <1>1, <1>6, MinusNat DEF UseDiscount
    <2>3. Goes(w, "reward") /\ job[w].at # "caching" BY <1>6 DEF UseDiscount
    <2>. QED BY <1>1, <1>2, <1>3, <2>1, <2>2, <2>3, GoesWorks, WorksKeeps
  <1>7. CASE RewardReferrer(w)
    <2>1. UNCHANGED <<setting, tests, opened, raced, uses>> BY <1>7 DEF RewardReferrer
    <2>2. applied' \in [Users -> Nat]
      <3>1. applied' = applied \/ applied' = [applied EXCEPT ![job[w].who] = 0]
        BY <1>7 DEF RewardReferrer
      <3>. QED BY <1>1, <3>1
    <2>3. (Ends(w) \/ Goes(w, "order")) /\ job[w].at # "caching" BY <1>7 DEF RewardReferrer
    <2>. QED BY <1>1, <1>2, <1>3, <2>1, <2>2, <2>3, EndsWorks, GoesWorks, WorksKeeps
  <1>8. CASE Raise(w)
    <2>1. Ends(w) /\ job[w].at # "caching" BY <1>8 DEF Raise
    <2>2. UNCHANGED <<setting, tests, opened, raced, codes>> BY <1>8 DEF Raise
    <2>. QED BY <1>1, <2>1, <2>2, EndsWorks, WorksKeeps DEF codes
  <1>. QED BY <1>4, <1>5, <1>6, <1>7, <1>8

LEMMA SwitchKeeps ==
  ASSUME IInv, ToggleRequired \/ ReleaseAll \/ ToggleMinimum \/ EditRule
  PROVE  IInv'
  <1>. USE DEF At, Free
  <1>1. uses \in Nat /\ applied \in [Users -> Nat] BY DEF IInv, Shapes
  <1>2. Loop \in Workers BY DEF Workers
  <1>3. CASE ToggleRequired
    <2>1. UNCHANGED <<setting, tests, opened, raced, codes>> BY <1>3 DEF ToggleRequired
    <2>2. CASE rules.required
      <3>1. Goes(Loop, "releasing") /\ job[Loop].at = "idle" BY <1>3, <2>2 DEF ToggleRequired
      <3>2. "releasing" \in Stages /\ "idle" \in Bare BY DEF Stages, Bare
      <3>. QED BY <1>1, <1>2, <2>1, <3>1, <3>2, GoesWorks, WorksKeeps DEF codes
    <2>3. CASE ~rules.required
      <3>1. job' = job BY <1>3, <2>3 DEF ToggleRequired
      <3>. QED BY <1>1, <2>1, <3>1, AsideKeeps DEF Aside, codes
    <2>. QED BY <2>2, <2>3
  <1>4. CASE ReleaseAll
    <2>1. Ends(Loop) /\ job[Loop].at # "caching" BY <1>4 DEF ReleaseAll
    <2>2. UNCHANGED <<setting, tests, opened, raced, codes>> BY <1>4 DEF ReleaseAll
    <2>. QED BY <1>1, <1>2, <2>1, <2>2, EndsWorks, WorksKeeps DEF codes
  <1>5. CASE ToggleMinimum
    BY <1>1, <1>5, AsideKeeps DEF ToggleMinimum, Aside, codes
  <1>6. CASE EditRule
    BY <1>1, <1>6, AsideKeeps DEF EditRule, Aside, codes
  <1>. QED BY <1>3, <1>4, <1>5, <1>6

LEMMA PeopleKeeps ==
  ASSUME IInv, NEW u \in Users,
         \/ MiniAuth(u) \/ CodeForCustom(u) \/ AddToWallet(u)
         \/ \E code \in Users \cup {Nobody} : Start(u, code) \/ KeepCode(u, code)
         \/ \E plan \in Plans, w \in Workers : OtherPurchase(u, plan, w)
  PROVE  IInv'
  <1>1. uses \in Nat /\ applied \in [Users -> Nat] BY DEF IInv, Shapes
  <1>2. CASE MiniAuth(u) BY <1>1, <1>2, AsideKeeps DEF MiniAuth, Aside, codes
  <1>3. CASE CodeForCustom(u)
    <2>1. uses' \in Nat /\ applied' \in [Users -> Nat] BY <1>1, <1>3 DEF CodeForCustom
    <2>. QED BY <1>3, <2>1, AsideKeeps DEF CodeForCustom, Aside
  <1>4. CASE AddToWallet(u) BY <1>1, <1>4, AsideKeeps DEF AddToWallet, Aside, codes
  <1>5. CASE \E code \in Users \cup {Nobody} : Start(u, code) \/ KeepCode(u, code)
    BY <1>1, <1>5, AsideKeeps DEF Start, KeepCode, Aside, codes
  <1>6. CASE \E plan \in Plans, w \in Workers : OtherPurchase(u, plan, w)
    BY <1>1, <1>6, AsideKeeps DEF OtherPurchase, Aside, codes
  <1>. QED BY <1>2, <1>3, <1>4, <1>5, <1>6

---------------------------------------------------------------------------

LEMMA InitInv == Init => IInv
  <1>. SUFFICES ASSUME Init PROVE IInv
    OBVIOUS
  <1>1. job \in [Workers -> Jobs] /\ \A w \in Workers : job[w] = Idle BY IdleJob DEF Init
  <1>2. Shapes BY <1>1, ShopAssumption DEF Init, Shapes, ShopAssumption
  <1>3. Reads BY <1>1 DEF Reads, Idle
  <1>4. CacheTrue BY DEF CacheTrue, Init
  <1>5. Empty BY <1>1 DEF Empty, Idle
  <1>6. \A w \in Workers, u \in Users : ~Tests(w, u) BY <1>1 DEF Tests, Idle
  <1>7. OneTest BY <1>6 DEF OneTest, Init
  <1>. QED BY <1>2, <1>3, <1>4, <1>5, <1>7 DEF IInv

LEMMA StepInv == IInv /\ [Next]_vars => IInv'
  <1>. SUFFICES ASSUME IInv, [Next]_vars PROVE IInv'
    OBVIOUS
  <1>1. Loop \in Workers /\ Threads \subseteq Workers BY DEF Workers
  <1>2. Nobody \in Users \cup {Nobody} /\ Inviters \subseteq Users
    BY ShopAssumption DEF ShopAssumption
  <1>3. CASE Join BY <1>2, <1>3, PeopleKeeps DEF Join, CheckJoin
  <1>4. CASE Buy
    <2>1. PICK u \in Users :
            \/ \E plan \in Plans, coded \in BOOLEAN, w \in Workers : PressPlan(w, u, plan, coded)
            \/ \E w \in Workers : PressCustom(w, u)
      BY <1>1, <1>4 DEF Buy, PayWithWallet, ApiOrderWallet, CbuildPayWallet, ApiCustomBuildWallet
    <2>2. "custom" \in Plans BY ShopAssumption DEF ShopAssumption
    <2>. QED BY <2>1, <2>2, PressPlanBegins, PressCustomBegins, BeginsKeeps
  <1>5. CASE \E u \in Users : CodeForCustom(u) \/ AddToWallet(u) \/ OpenTest(u) \/ SettleTest(u)
    BY <1>5, PeopleKeeps, OpenTestKeeps, SettleTestKeeps
  <1>6. CASE \E u \in Users, plan \in Plans, w \in Workers : OtherPurchase(u, plan, w)
    BY <1>6, PeopleKeeps
  <1>7. CASE \E w \in Workers :
               \/ AskOrders(w) \/ StoreRead(w) \/ GiveUp(w) \/ Deduct(w)
               \/ UseDiscount(w) \/ RewardReferrer(w) \/ CreateOrder(w) \/ Raise(w)
    BY <1>7, AskOrdersKeeps, StoreReadKeeps, WorkerKeeps, CreateOrderWrites, WritesKeeps
  <1>8. CASE ToggleRequired \/ ReleaseAll \/ ToggleMinimum \/ EditRule
    BY <1>8, SwitchKeeps
  <1>9. CASE OrdersOff \/ OrdersOn BY <1>9, SetOrdersKeeps DEF OrdersOff, OrdersOn
  <1>10. CASE CacheSetting BY <1>10, CacheSettingKeeps
  <1>11. CASE ShowServices
    BY <1>11, RefreshKeeps DEF ShowServices
  <1>12. CASE Expire
    BY <1>12, RefreshKeeps DEF Expire
  <1>13. CASE Crash BY <1>13, CrashKeeps
  <1>14. CASE UNCHANGED vars
    BY <1>14, AsideKeeps DEF vars, Aside, codes, IInv, Shapes
  <1>. QED BY <1>3, <1>4, <1>5, <1>6, <1>7, <1>8, <1>9, <1>10, <1>11, <1>12, <1>13, <1>14 DEF Next

LEMMA Invariance == Spec => []IInv
  BY InitInv, StepInv, PTL DEF Spec

\* For any number of threads and any sequence of switches, ends of the time to live and
\* crashes, the cache contradicts the table only while set_setting is between its two
\* writes or after a read that a write has overtaken (database.py:1615, 1633).
THEOREM CacheHonest == Spec => []CacheTrue
  BY Invariance, PTL DEF IInv

\* For any number of buyers and threads, whose purchases raise and crash anywhere, a buyer
\* whose requests never overlapped has at most one free test (database.py:2544).
THEOREM TestOnce == Spec => []FreeTestOnce
  <1>1. IInv => FreeTestOnce BY DEF IInv, OneTest, FreeTestOnce
  <1>. QED BY <1>1, Invariance, PTL

---------------------------------------------------------------------------
\* Sums over finite sets

\* A sum of natural numbers counts coins: f[x] of them for every x.
Coins(f, s) == UNION {{x} \X (1..f[x]) : x \in s}

LEMMA SmallestSubset ==
  ASSUME NEW S, IsFiniteSet(S), NEW T \in SUBSET (SUBSET S), T # {}
  PROVE  \E A \in T : \A B \in T : B \subseteq A => B = A
  <1>1. T \subseteq FiniteSubsetsOf(S) BY FS_FiniteSubsetsOfFinite
  <1>2. PICK A \in T : \A B \in T : <<B, A>> \notin StrictSubsetOrdering(S)
    BY <1>1, WFMin, FS_StrictSubsetOrderingWellFounded
  <1>. QED BY <1>2 DEF StrictSubsetOrdering

\* The coins of x are no one else's.
LEMMA CoinsAdd ==
  ASSUME NEW f, NEW s, NEW x \in s, f[x] \in Nat, IsFiniteSet(Coins(f, s \ {x}))
  PROVE  /\ IsFiniteSet(Coins(f, s))
         /\ Cardinality(Coins(f, s)) = f[x] + Cardinality(Coins(f, s \ {x}))
  <1>. DEFINE A == {x} \X (1..f[x])
              B == Coins(f, s \ {x})
  <1>1. IsFiniteSet(A) /\ Cardinality(A) = f[x]
    <2>1. IsFiniteSet({x}) /\ Cardinality({x}) = 1 BY FS_Singleton
    <2>2. IsFiniteSet(1..f[x]) /\ Cardinality(1..f[x]) = f[x] BY FS_Interval
    <2>3. IsFiniteSet(A) /\ Cardinality(A) = Cardinality({x}) * Cardinality(1..f[x])
      BY <2>1, <2>2, FS_Product
    <2>. QED BY <2>1, <2>2, <2>3
  <1>2. A \cap B = {} BY DEF Coins
  <1>3. Coins(f, s) = A \cup B
    <2>1. Coins(f, s) \subseteq A \cup B BY DEF Coins
    <2>2. A \cup B \subseteq Coins(f, s) BY DEF Coins
    <2>. QED BY <2>1, <2>2
  <1>. HIDE DEF A, B
  <1>4. IsFiniteSet(B) BY DEF B
  <1>5. /\ IsFiniteSet(A \cup B)
        /\ Cardinality(A \cup B) = Cardinality(A) + Cardinality(B) - Cardinality(A \cap B)
    BY <1>1, <1>4, FS_Union
  <1>6. Cardinality(A \cap B) = 0 /\ Cardinality(B) \in Nat
    BY <1>2, <1>4, FS_EmptySet, FS_CardinalityType
  <1>7. Cardinality(A \cup B) = f[x] + Cardinality(B)
    BY <1>1, <1>5, <1>6
  <1>. QED BY <1>3, <1>5, <1>7 DEF B

LEMMA NoCoins == ASSUME NEW f PROVE Coins(f, {}) = {}
  BY DEF Coins

LEMMA CoinsFinite ==
  ASSUME NEW f, NEW S, IsFiniteSet(S), \A x \in S : f[x] \in Nat
  PROVE  \A s \in SUBSET S : IsFiniteSet(Coins(f, s))
  <1>. DEFINE T == {A \in SUBSET S : ~IsFiniteSet(Coins(f, A))}
  <1>. SUFFICES ASSUME T # {} PROVE FALSE
    OBVIOUS
  <1>1. PICK A \in T : \A B \in T : B \subseteq A => B = A
    <2>1. T \in SUBSET (SUBSET S) OBVIOUS
    <2>. HIDE DEF T
    <2>. QED BY <2>1, SmallestSubset
  <1>2. A # {} BY <1>1, NoCoins, FS_EmptySet
  <1>3. PICK x \in A : TRUE BY <1>2
  <1>4. IsFiniteSet(Coins(f, A \ {x})) BY <1>1, <1>3
  <1>5. f[x] \in Nat BY <1>1, <1>3
  <1>6. IsFiniteSet(Coins(f, A)) BY <1>3, <1>4, <1>5, CoinsAdd
  <1>. QED BY <1>1, <1>6

LEMMA SumIsCoins ==
  ASSUME NEW f, NEW S, IsFiniteSet(S), \A x \in S : f[x] \in Nat
  PROVE  SumFunctionOnSet(f, S) = Cardinality(Coins(f, S))
  <1>. DEFINE One(s) == CHOOSE x \in s : TRUE
              Body(h) == [s \in SUBSET S |-> IF s = {} THEN 0 ELSE f[One(s)] + h[s \ {One(s)}]]
              Sums == CHOOSE h : h = Body(h)
              Counts == [s \in SUBSET S |-> Cardinality(Coins(f, s))]
  <1>1. SumFunctionOnSet(f, S) = Sums[S]
    BY DEF SumFunctionOnSet, FoldFunctionOnSet, MapThenFoldSet
  <1>2. \A s \in SUBSET S : s # {} => One(s) \in s
    OBVIOUS
  <1>3. ASSUME NEW s \in SUBSET S, s # {}
        PROVE  Counts[s] = f[One(s)] + Counts[s \ {One(s)}]
    <2>1. One(s) \in s BY <1>2, <1>3
    <2>. HIDE DEF One
    <2>2. f[One(s)] \in Nat BY <2>1
    <2>3. IsFiniteSet(Coins(f, s \ {One(s)})) BY CoinsFinite
    <2>4. Cardinality(Coins(f, s)) = f[One(s)] + Cardinality(Coins(f, s \ {One(s)}))
      BY <2>1, <2>2, <2>3, CoinsAdd
    <2>. QED BY <2>4
  <1>4. Counts[{}] = 0 BY NoCoins, FS_EmptySet
  <1>5. Counts = Body(Counts)
    <2>1. ASSUME NEW s \in SUBSET S PROVE Counts[s] = Body(Counts)[s]
      <3>. HIDE DEF Counts, One
      <3>1. CASE s = {} BY <1>4, <3>1
      <3>2. CASE s # {} BY <1>3, <3>2
      <3>. QED BY <3>1, <3>2
    <2>2. Counts = [s \in SUBSET S |-> Counts[s]] /\ Body(Counts) = [s \in SUBSET S |-> Body(Counts)[s]]
      OBVIOUS
    <2>. HIDE DEF Counts, Body
    <2>. QED BY <2>1, <2>2
  <1>6. Sums = Body(Sums)
    <2>. HIDE DEF Body, Counts
    <2>. QED BY <1>5
  <1>. HIDE DEF Sums
  <1>7. ASSUME NEW s \in SUBSET S
        PROVE  Sums[s] = IF s = {} THEN 0 ELSE f[One(s)] + Sums[s \ {One(s)}]
    <2>. HIDE DEF One
    <2>1. Sums[s] = Body(Sums)[s] BY <1>6 
    <2>. QED BY <2>1
  <1>. HIDE DEF Body, One, Counts
  <1>8. \A s \in SUBSET S : Sums[s] = Counts[s]
    <2>. DEFINE T == {A \in SUBSET S : Sums[A] # Counts[A]}
    <2>. SUFFICES ASSUME T # {} PROVE FALSE
      OBVIOUS
    <2>1. PICK A \in T : \A B \in T : B \subseteq A => B = A
      <3>1. T \in SUBSET (SUBSET S) OBVIOUS
      <3>. HIDE DEF T
      <3>. QED BY <3>1, SmallestSubset
    <2>2. A # {} BY <2>1, <1>4, <1>7
    <2>3. One(A) \in A BY <1>2, <2>1, <2>2
    <2>4. A \ {One(A)} \notin T BY <2>1, <2>3
    <2>5. Sums[A \ {One(A)}] = Counts[A \ {One(A)}] BY <2>1, <2>4
    <2>6. Sums[A] = Counts[A] BY <1>3, <1>7, <2>1, <2>2, <2>5
    <2>. QED BY <2>1, <2>6
  <1>9. S \in SUBSET S OBVIOUS
  <1>. QED BY <1>1, <1>8, <1>9 DEF Counts

\* A sum of natural numbers is one.
LEMMA SumNat ==
  ASSUME NEW f, NEW S, IsFiniteSet(S), \A x \in S : f[x] \in Nat
  PROVE  SumFunctionOnSet(f, S) \in Nat
  <1>1. IsFiniteSet(Coins(f, S)) BY CoinsFinite
  <1>2. Cardinality(Coins(f, S)) \in Nat BY <1>1, FS_CardinalityType
  <1>. QED BY <1>2, SumIsCoins

\* Summands that are zero do not matter.
LEMMA SumWhere ==
  ASSUME NEW f, NEW g, NEW S, NEW T, T \subseteq S, IsFiniteSet(S),
         \A x \in T : f[x] \in Nat /\ g[x] = f[x],
         \A x \in S \ T : g[x] = 0
  PROVE  SumFunctionOnSet(f, T) = SumFunctionOnSet(g, S)
  <1>1. Coins(f, T) \subseteq Coins(g, S) BY DEF Coins
  <1>2. ASSUME NEW c \in Coins(g, S) PROVE c \in Coins(f, T)
    <2>1. PICK x \in S : c \in {x} \X (1..g[x]) BY <1>2 DEF Coins
    <2>2. x \in T
      <3>1. SUFFICES ASSUME x \notin T PROVE FALSE OBVIOUS
      <3>2. g[x] = 0 BY <3>1
      <3>3. 1..g[x] = {} BY <3>2
      <3>. QED BY <2>1, <3>3
    <2>3. c \in {x} \X (1..f[x]) BY <2>1, <2>2
    <2>. QED BY <2>2, <2>3 DEF Coins
  <1>3. Coins(f, T) = Coins(g, S) BY <1>1, <1>2
  <1>4. \A x \in S : g[x] \in Nat OBVIOUS
  <1>5. IsFiniteSet(T) BY FS_Subset
  <1>6. SumFunctionOnSet(f, T) = Cardinality(Coins(f, T)) BY <1>5, SumIsCoins
  <1>7. SumFunctionOnSet(g, S) = Cardinality(Coins(g, S)) BY <1>4, SumIsCoins
  <1>. QED BY <1>3, <1>6, <1>7

LEMMA SumSame ==
  ASSUME NEW f, NEW g, NEW S, IsFiniteSet(S), \A x \in S : f[x] \in Nat /\ g[x] = f[x]
  PROVE  SumFunctionOnSet(f, S) = SumFunctionOnSet(g, S)
  BY SumWhere

\* One summand is apart from the others.
LEMMA SumApart ==
  ASSUME NEW f, NEW S, NEW x \in S, IsFiniteSet(S), \A y \in S : f[y] \in Nat
  PROVE  SumFunctionOnSet(f, S) = f[x] + SumFunctionOnSet(f, S \ {x})
  <1>1. f[x] \in Nat /\ IsFiniteSet(S \ {x}) /\ \A y \in S \ {x} : f[y] \in Nat
    BY FS_RemoveElement
  <1>2. IsFiniteSet(Coins(f, S \ {x})) BY <1>1, CoinsFinite
  <1>3. Cardinality(Coins(f, S)) = f[x] + Cardinality(Coins(f, S \ {x}))
    BY <1>1, <1>2, CoinsAdd
  <1>4. SumFunctionOnSet(f, S) = Cardinality(Coins(f, S)) BY SumIsCoins
  <1>5. SumFunctionOnSet(f, S \ {x}) = Cardinality(Coins(f, S \ {x})) BY <1>1, SumIsCoins
  <1>. QED BY <1>3, <1>4, <1>5

\* A sum moves by what one summand moves.
LEMMA SumChange ==
  ASSUME NEW f, NEW g, NEW S, NEW x \in S, IsFiniteSet(S),
         \A y \in S : f[y] \in Nat /\ g[y] \in Nat,
         \A y \in S : y # x => g[y] = f[y]
  PROVE  SumFunctionOnSet(g, S) + f[x] = SumFunctionOnSet(f, S) + g[x]
  <1>1. IsFiniteSet(S \ {x}) BY FS_RemoveElement
  <1>2. SumFunctionOnSet(f, S \ {x}) = SumFunctionOnSet(g, S \ {x}) BY <1>1, SumSame
  <1>3. SumFunctionOnSet(f, S) = f[x] + SumFunctionOnSet(f, S \ {x}) BY SumApart
  <1>4. SumFunctionOnSet(g, S) = g[x] + SumFunctionOnSet(g, S \ {x}) BY SumApart
  <1>5. SumFunctionOnSet(f, S \ {x}) \in Nat BY <1>1, SumNat
  <1>6. f[x] \in Nat /\ g[x] \in Nat OBVIOUS
  <1>. QED BY <1>2, <1>3, <1>4, <1>5, <1>6

\* The sum over two sets that share nothing.
LEMMA SumSplit ==
  ASSUME NEW f, NEW S, NEW T, IsFiniteSet(S), IsFiniteSet(T), S \cap T = {},
         \A x \in S \cup T : f[x] \in Nat
  PROVE  SumFunctionOnSet(f, S \cup T) = SumFunctionOnSet(f, S) + SumFunctionOnSet(f, T)
  <1>1. IsFiniteSet(S \cup T) BY FS_Union
  <1>2. Coins(f, S \cup T) = Coins(f, S) \cup Coins(f, T)
    <2>1. Coins(f, S \cup T) \subseteq Coins(f, S) \cup Coins(f, T) BY DEF Coins
    <2>2. Coins(f, S) \cup Coins(f, T) \subseteq Coins(f, S \cup T) BY DEF Coins
    <2>. QED BY <2>1, <2>2
  <1>3. Coins(f, S) \cap Coins(f, T) = {} BY DEF Coins
  <1>4. IsFiniteSet(Coins(f, S)) /\ IsFiniteSet(Coins(f, T)) BY CoinsFinite
  <1>5. Cardinality(Coins(f, S \cup T)) =
          Cardinality(Coins(f, S)) + Cardinality(Coins(f, T)) - Cardinality(Coins(f, S) \cap Coins(f, T))
    BY <1>2, <1>4, FS_Union
  <1>6. Cardinality(Coins(f, S) \cap Coins(f, T)) = 0 BY <1>3, FS_EmptySet
  <1>7. Cardinality(Coins(f, S)) \in Nat /\ Cardinality(Coins(f, T)) \in Nat
    BY <1>4, FS_CardinalityType
  <1>8. SumFunctionOnSet(f, S \cup T) = Cardinality(Coins(f, S \cup T)) BY <1>1, SumIsCoins
  <1>9. SumFunctionOnSet(f, S) = Cardinality(Coins(f, S)) BY SumIsCoins
  <1>10. SumFunctionOnSet(f, T) = Cardinality(Coins(f, T)) BY SumIsCoins
  <1>. QED BY <1>5, <1>6, <1>7, <1>8, <1>9, <1>10

LEMMA SumNothing ==
  ASSUME NEW f
  PROVE  SumFunctionOnSet(f, {}) = 0
  <1>1. IsFiniteSet({}) /\ Cardinality({}) = 0 BY FS_EmptySet
  <1>2. SumFunctionOnSet(f, {}) = Cardinality(Coins(f, {})) BY <1>1, SumIsCoins
  <1>. QED BY <1>1, <1>2, NoCoins

---------------------------------------------------------------------------
\* The parts of TypeOK that do not count, and the kinds of steps

\* The other parts of TypeOK.
PeopleType == known \subseteq Users /\ kept \in [Users -> Users \cup {Nobody}]
MoneyType ==
  /\ wallet \in [Users -> Nat] /\ locked \in [Users -> Nat] /\ spent \in [Users -> Nat]
  /\ charged \in [Users -> Nat] /\ ordered \in [Users -> Nat] /\ lost \in [Users -> Nat]
RefRow == [status : {"none", "pending", "completed"}, by : Users \cup {Nobody},
           reward : Rewards \cup {0}]
RefType == ref \in [Users -> RefRow]
RuleType ==
  rules \in [required : BOOLEAN, minimum : BOOLEAN, gb : Minimums, reward : Rewards]
BoundType ==
  /\ cut \in BOOLEAN
  /\ orders \in 0..MaxOrders /\ switches \in 0..MaxSwitches /\ trouble \in 0..MaxTrouble

\* A purchase under way has a buyer and a plan, and a custom service has no code to charge.
Buying == {"priced", "code", "reward", "order"}
Named ==
  \A w \in Workers :
    /\ job[w].at \in Buying => job[w].who \in Users /\ job[w].plan \in Plans
    /\ job[w].at = "code" => job[w].plan # "custom"

\* Who has no row was not invited yet, and an invited buyer has an inviter.
Invited ==
  \A u \in Users :
    /\ u \notin known => ref[u].status = "none"
    /\ ref[u].status # "none" => ref[u].by \in Users

---------------------------------------------------------------------------
LEMMA TypePieces ==
  Shapes /\ PeopleType /\ MoneyType /\ RefType /\ RuleType /\ BoundType => TypeOK
  BY DEF Shapes, PeopleType, MoneyType, RefType, RefRow, RuleType, BoundType, TypeOK, Jobs, Stages

\* One of these happens.
Joins == \E u \in Users : MiniAuth(u) \/ \E code \in Users \cup {Nobody} : Start(u, code) \/ KeepCode(u, code)
Presses ==
  \E w \in Workers, u \in Users :
    \/ PressCustom(w, u)
    \/ \E plan \in Plans, coded \in BOOLEAN : PressPlan(w, u, plan, coded)
Elsewhere ==
  \/ \E u \in Users : CodeForCustom(u) \/ AddToWallet(u) \/ OpenTest(u) \/ SettleTest(u)
  \/ \E u \in Users, plan \in Plans, w \in Workers : OtherPurchase(u, plan, w)
Serves(w) ==
  \/ AskOrders(w) \/ StoreRead(w) \/ GiveUp(w) \/ Deduct(w)
  \/ UseDiscount(w) \/ RewardReferrer(w) \/ CreateOrder(w) \/ Raise(w)
Desk ==
  \/ ToggleRequired \/ ReleaseAll \/ ToggleMinimum \/ EditRule
  \/ \E value \in {"on", "off"} : SetOrders(value)
  \/ CacheSetting \/ ShowServices \/ Expire \/ Crash

LEMMA NextKinds ==
  ASSUME [Next]_vars
  PROVE  Joins \/ Presses \/ Elsewhere \/ (\E w \in Workers : Serves(w)) \/ Desk \/ UNCHANGED vars
  <1>1. Loop \in Workers /\ Threads \subseteq Workers BY DEF Workers
  <1>2. Nobody \in Users \cup {Nobody} /\ Inviters \subseteq Users
    BY ShopAssumption DEF ShopAssumption
  <1>3. CASE Join BY <1>2, <1>3 DEF Join, Joins, CheckJoin
  <1>4. CASE Buy
    BY <1>1, <1>4 DEF Buy, Presses, PayWithWallet, ApiOrderWallet, CbuildPayWallet, ApiCustomBuildWallet
  <1>5. CASE ~Join /\ ~Buy
    BY <1>5 DEF Next, Elsewhere, Serves, Desk, OrdersOff, OrdersOn
  <1>. QED BY <1>3, <1>4, <1>5

LEMMA PeopleStep == ASSUME PeopleType, [Next]_vars PROVE PeopleType'
  <1>1. CASE Joins
    BY <1>1 DEF Joins, MiniAuth, Start, KeepCode, CreateUser, PeopleType
  <1>2. CASE Presses \/ Elsewhere
    <2>1. UNCHANGED people
      BY <1>2 DEF Presses, Elsewhere, PressCustom, PressPlan, CodeForCustom, AddToWallet, OpenTest,
         SettleTest, OtherPurchase
    <2>. QED BY <2>1 DEF people, PeopleType
  <1>3. ASSUME NEW w \in Workers, Serves(w) PROVE PeopleType'
    <2>1. UNCHANGED people
      BY <1>3 DEF Serves, AskOrders, StoreRead, GiveUp, Deduct, UseDiscount, RewardReferrer,
         CreateOrder, Raise
    <2>. QED BY <2>1 DEF people, PeopleType
  <1>4. CASE Desk \/ UNCHANGED vars
    <2>1. UNCHANGED people
      BY <1>4 DEF Desk, ToggleRequired, ReleaseAll, ToggleMinimum, EditRule, SetOrders,
         CacheSetting, ShowServices, Expire, Crash, vars
    <2>. QED BY <2>1 DEF people, PeopleType
  <1>. QED BY <1>1, <1>2, <1>3, <1>4, NextKinds

LEMMA RuleStep == ASSUME RuleType, [Next]_vars PROVE RuleType'
  <1>1. CASE Joins \/ Presses \/ Elsewhere \/ UNCHANGED vars
    <2>1. UNCHANGED rules
      BY <1>1 DEF Joins, MiniAuth, Start, KeepCode, Presses, Elsewhere, PressCustom, PressPlan,
         CodeForCustom, AddToWallet, OpenTest, SettleTest, OtherPurchase, vars
    <2>. QED BY <2>1 DEF RuleType
  <1>2. ASSUME NEW w \in Workers, Serves(w) PROVE RuleType'
    <2>1. UNCHANGED rules
      BY <1>2 DEF Serves, AskOrders, StoreRead, GiveUp, Deduct, UseDiscount, RewardReferrer,
         CreateOrder, Raise
    <2>. QED BY <2>1 DEF RuleType
  <1>3. CASE Desk
    <2>1. CASE ToggleRequired BY <2>1 DEF ToggleRequired, RuleType
    <2>2. CASE ToggleMinimum BY <2>2 DEF ToggleMinimum, RuleType
    <2>3. CASE EditRule BY <2>3 DEF EditRule, RuleType
    <2>4. CASE ~ToggleRequired /\ ~ToggleMinimum /\ ~EditRule
      <3>1. UNCHANGED rules
        BY <1>3, <2>4 DEF Desk, ReleaseAll, SetOrders, CacheSetting, ShowServices, Expire, Crash
      <3>. QED BY <3>1 DEF RuleType
    <2>. QED BY <2>1, <2>2, <2>3, <2>4
  <1>. QED BY <1>1, <1>2, <1>3, NextKinds

LEMMA BoundStep == ASSUME BoundType, [Next]_vars PROVE BoundType'
  <1>. USE DEF BoundType, bounds
  <1>0. MaxOrders \in Nat /\ MaxSwitches \in Nat /\ MaxTrouble \in Nat
    BY ShopAssumption DEF ShopAssumption
  <1>1. CASE Joins BY <1>1 DEF Joins, MiniAuth, Start, KeepCode
  <1>2. CASE Presses
    <2>1. orders < MaxOrders /\ orders' = orders + 1 /\ UNCHANGED <<cut, switches, trouble>>
      BY <1>2 DEF Presses, PressCustom, PressPlan
    <2>. QED BY <1>0, <2>1
  <1>3. CASE Elsewhere
    BY <1>0, <1>3 DEF Elsewhere, CodeForCustom, AddToWallet, OpenTest, SettleTest, OtherPurchase
  <1>4. ASSUME NEW w \in Workers, Serves(w) PROVE BoundType'
    <2>1. CASE Raise(w)
      <3>1. cut' \in BOOLEAN BY <2>1, Zenon DEF Raise
      <3>2. trouble < MaxTrouble /\ trouble' = trouble + 1 /\ UNCHANGED <<orders, switches>>
        BY <2>1 DEF Raise
      <3>. QED BY <1>0, <3>1, <3>2
    <2>2. CASE ~Raise(w)
      BY <1>4, <2>2 DEF Serves, AskOrders, StoreRead, GiveUp, Deduct, UseDiscount, RewardReferrer, CreateOrder
    <2>. QED BY <2>1, <2>2
  <1>5. CASE Desk
    <2>1. CASE Crash
      <3>1. cut' \in BOOLEAN BY <2>1, Zenon DEF Crash
      <3>2. trouble < MaxTrouble /\ trouble' = trouble + 1 /\ UNCHANGED <<orders, switches>>
        BY <2>1 DEF Crash
      <3>. QED BY <1>0, <3>1, <3>2
    <2>2. CASE ToggleRequired \/ ToggleMinimum \/ EditRule
      <3>1. switches < MaxSwitches /\ switches' = switches + 1 /\ UNCHANGED <<cut, orders, trouble>>
        BY <2>2 DEF ToggleRequired, ToggleMinimum, EditRule
      <3>. QED BY <1>0, <3>1
    <2>3. CASE \E value \in {"on", "off"} : SetOrders(value)
      BY <1>0, <2>3 DEF SetOrders
    <2>4. CASE CacheSetting \/ ShowServices \/ Expire
      BY <2>4 DEF CacheSetting, ShowServices, Expire
    <2>5. CASE ReleaseAll
      <3>1. cut' = FALSE /\ UNCHANGED <<orders, switches, trouble>> BY <2>5 DEF ReleaseAll
      <3>. QED BY <3>1
    <2>. QED BY <1>5, <2>1, <2>2, <2>3, <2>4, <2>5 DEF Desk
  <1>6. CASE UNCHANGED vars BY <1>6 DEF vars
  <1>. HIDE DEF BoundType
  <1>. QED BY <1>1, <1>2, <1>3, <1>4, <1>5, <1>6, NextKinds

---------------------------------------------------------------------------
\* A purchase has a buyer and a plan

LEMMA NamedOther ==
  ASSUME Named, \A v \in Workers : job'[v] = job[v] \/ job'[v].at \notin Buying
  PROVE  Named'
  BY DEF Named, Buying

LEMMA NamedGoes ==
  ASSUME Shapes, Named, NEW w \in Workers, NEW at \in Stages, Goes(w, at),
         at \in Buying => job[w].at \in Buying, at = "code" => job[w].plan # "custom"
  PROVE  Named'
  <1>1. /\ job'[w].at = at /\ job'[w].who = job[w].who /\ job'[w].plan = job[w].plan
        /\ \A v \in Workers : v # w => job'[v] = job[v]
    BY DEF Shapes, Jobs, Goes
  <1>. QED BY <1>1 DEF Named

LEMMA NamedEnds ==
  ASSUME Shapes, Named, NEW w \in Workers, Ends(w) PROVE Named'
  <1>1. job'[w].at = "idle" /\ \A v \in Workers : v # w => job'[v] = job[v]
    BY DEF Shapes, Ends, Idle
  <1>. QED BY <1>1, NamedOther DEF Buying

LEMMA NamedStep == ASSUME Shapes, Named, PeopleType, [Next]_vars PROVE Named'
  <1>0. "custom" \in Plans /\ Loop \in Workers
    BY ShopAssumption DEF ShopAssumption, Workers
  <1>1. CASE Joins \/ Elsewhere \/ UNCHANGED vars
    <2>1. job' = job
      BY <1>1 DEF Joins, MiniAuth, Start, KeepCode, Elsewhere, CodeForCustom, AddToWallet,
         OpenTest, SettleTest, OtherPurchase, vars
    <2>. QED BY <2>1, NamedOther
  <1>2. CASE Presses
    <2>1. PICK w \in Workers, u \in Users :
            \/ PressCustom(w, u)
            \/ \E plan \in Plans, coded \in BOOLEAN : PressPlan(w, u, plan, coded)
      BY <1>2 DEF Presses
    <2>2. PICK plan \in Plans : \E price, coded : Takes(w, u, plan, price, coded)
      BY <1>0, <2>1 DEF PressCustom, PressPlan
    <2>3. /\ job'[w].at = "priced" /\ job'[w].who = u /\ job'[w].plan = plan
          /\ \A v \in Workers : v # w => job'[v] = job[v]
      BY <2>2 DEF Takes, Shapes
    <2>. QED BY <2>3 DEF Named
  <1>3. ASSUME NEW w \in Workers, Serves(w) PROVE Named'
    <2>0. job[w] \in Jobs BY DEF Shapes
    <2>1. CASE AskOrders(w)
      <3>1. CASE Goes(w, "admitted")
        <4>1. "admitted" \in Stages \ Buying BY DEF Stages, Buying
        <4>. QED BY <3>1, <4>1, NamedGoes
      <3>2. CASE job' = [job EXCEPT ![w].at = "filling", ![w].seen = enabled]
        <4>1. job'[w].at = "filling" /\ \A v \in Workers : v # w => job'[v] = job[v]
          BY <2>0, <3>2 DEF Shapes, Jobs
        <4>. QED BY <4>1, NamedOther DEF Buying
      <3>. QED BY <2>1, <3>1, <3>2 DEF AskOrders
    <2>2. CASE StoreRead(w)
      <3>1. job'[w].at \in {"idle", "admitted"} /\ \A v \in Workers : v # w => job'[v] = job[v]
        BY <2>2 DEF StoreRead, Ends, Idle, Shapes
      <3>. QED BY <3>1, NamedOther DEF Buying
    <2>3. CASE GiveUp(w) \/ Raise(w)
      BY <2>3, NamedEnds DEF GiveUp, Raise
    <2>4. CASE Deduct(w)
      <3>1. PICK at \in {"order", "code", "reward"} : Goes(w, at) /\ (at = "code" => job[w].plan # "custom")
        BY <2>4 DEF Deduct
      <3>2. job[w].at = "priced" BY <2>4 DEF Deduct, At
      <3>3. at \in Stages /\ job[w].at \in Buying BY <3>1, <3>2 DEF Stages, Buying
      <3>. QED BY <3>1, <3>3, NamedGoes
    <2>5. CASE UseDiscount(w)
      <3>1. Goes(w, "reward") /\ job[w].at = "code" BY <2>5 DEF UseDiscount, At
      <3>2. "reward" \in Stages /\ job[w].at \in Buying BY <3>1 DEF Stages, Buying
      <3>. QED BY <3>1, <3>2, NamedGoes
    <2>6. CASE RewardReferrer(w)
      <3>1. (Ends(w) \/ Goes(w, "order")) /\ job[w].at = "reward" BY <2>6 DEF RewardReferrer, At
      <3>2. "order" \in Stages /\ job[w].at \in Buying BY <3>1 DEF Stages, Buying
      <3>. QED BY <3>1, <3>2, NamedGoes, NamedEnds
    <2>7. CASE CreateOrder(w)
      <3>1. (Ends(w) \/ Goes(w, "reward")) /\ job[w].at = "order" BY <2>7 DEF CreateOrder, At
      <3>2. "reward" \in Stages /\ job[w].at \in Buying BY <3>1 DEF Stages, Buying
      <3>. QED BY <3>1, <3>2, NamedGoes, NamedEnds
    <2>. QED BY <1>3, <2>1, <2>2, <2>3, <2>4, <2>5, <2>6, <2>7 DEF Serves
  <1>4. CASE Desk
    <2>1. CASE ToggleRequired
      <3>1. Goes(Loop, "releasing") \/ job' = job BY <2>1 DEF ToggleRequired
      <3>2. "releasing" \in Stages \ Buying BY DEF Stages, Buying
      <3>. QED BY <1>0, <3>1, <3>2, NamedGoes, NamedOther
    <2>2. CASE ReleaseAll \/ CacheSetting
      BY <1>0, <2>2, NamedEnds DEF ReleaseAll, CacheSetting
    <2>3. CASE ToggleMinimum \/ EditRule \/ ShowServices \/ Expire
      BY <2>3, NamedOther DEF ToggleMinimum, EditRule, ShowServices, Expire
    <2>4. CASE \E value \in {"on", "off"} : SetOrders(value)
      <3>1. ASSUME NEW v \in Workers PROVE job'[v] = job[v] \/ job'[v].at \notin Buying
        <4>0. job[v] \in Jobs BY DEF Shapes
        <4>1. CASE v = Loop
          <5>1. job'[v] = [Idle EXCEPT !.at = "caching"] BY <2>4, <4>1 DEF SetOrders
          <5>. QED BY <5>1 DEF Idle, Buying
        <4>2. CASE v # Loop /\ job[v].at = "filling"
          <5>1. job'[v] = [job[v] EXCEPT !.at = "overtaken"] BY <2>4, <4>2 DEF SetOrders
          <5>. QED BY <4>0, <5>1 DEF Jobs, Buying
        <4>3. CASE v # Loop /\ job[v].at # "filling" BY <2>4, <4>3 DEF SetOrders
        <4>. QED BY <4>1, <4>2, <4>3
      <3>. QED BY <3>1, NamedOther
    <2>5. CASE Crash
      <3>1. \A v \in Workers : job'[v].at = "idle" BY <2>5 DEF Crash, Idle
      <3>. QED BY <3>1, NamedOther DEF Buying
    <2>. QED BY <1>4, <2>1, <2>2, <2>3, <2>4, <2>5 DEF Desk
  <1>. QED BY <1>1, <1>2, <1>3, <1>4, NextKinds

---------------------------------------------------------------------------
\* Wallets and rewards

\* What the row of an invited buyer adds to the rewards of u with a status.
Part(row, s, u) == IF row.status = s /\ row.by = u THEN row.reward ELSE 0
Share(rows, s, u) == [v \in Users |-> Part(rows[v], s, u)]
Total(rows, s, u) == SumFunctionOnSet(Share(rows, s, u), Users)

WalletType ==
  /\ wallet \in [Users -> Nat] /\ locked \in [Users -> Nat]
  /\ spent \in [Users -> Nat] /\ charged \in [Users -> Nat]

\* The first two lines of BooksBalance.
Owed == \A u \in Users : locked[u] = Total(ref, "pending", u)
Paid == \A u \in Users : wallet[u] + spent[u] = charged[u] + Total(ref, "completed", u)

Led == RefType /\ Invited /\ WalletType /\ Owed /\ Paid

LEMMA RewardNat == ASSUME NEW row \in RefRow PROVE row.reward \in Nat
  <1>1. row.reward \in Rewards \cup {0} BY DEF RefRow
  <1>2. \A r \in Rewards : r \in Nat BY ShopAssumption DEF ShopAssumption
  <1>3. \A r \in Rewards \cup {0} : r \in Nat BY <1>2
  <1>. QED BY <1>1, <1>3

LEMMA PartNat == ASSUME NEW row \in RefRow, NEW s, NEW u PROVE Part(row, s, u) \in Nat
  <1>1. row.reward \in Nat BY RewardNat
  <1>. QED BY <1>1 DEF Part

LEMMA TotalNat ==
  ASSUME NEW rows \in [Users -> RefRow], NEW s, NEW u PROVE Total(rows, s, u) \in Nat
  <1>1. IsFiniteSet(Users) BY ShopAssumption DEF ShopAssumption
  <1>2. \A v \in Users : Share(rows, s, u)[v] \in Nat BY PartNat DEF Share
  <1>. QED BY <1>1, <1>2, SumNat DEF Total

\* The rewards of the rows with a status are the sum over all rows.
LEMMA TotalOf ==
  ASSUME NEW rows \in [Users -> RefRow], NEW s, NEW u \in Users
  PROVE  SumFunctionOnSet([v \in Users |-> rows[v].reward],
                          {v \in {x \in Users : rows[x].status = s} : rows[v].by = u})
           = Total(rows, s, u)
  <1>. DEFINE T == {v \in {x \in Users : rows[x].status = s} : rows[v].by = u}
              f == [v \in Users |-> rows[v].reward]
              g == Share(rows, s, u)
  <1>1. IsFiniteSet(Users) /\ T \subseteq Users BY ShopAssumption DEF ShopAssumption
  <1>2. \A v \in T : f[v] \in Nat /\ g[v] = f[v]
    BY RewardNat DEF Share, Part
  <1>3. \A v \in Users \ T : g[v] = 0 BY DEF Share, Part
  <1>. HIDE DEF T, f, g
  <1>4. SumFunctionOnSet(f, T) = SumFunctionOnSet(g, Users) BY <1>1, <1>2, <1>3, SumWhere
  <1>. QED BY <1>4 DEF T, f, g, Total

\* One row changes.
LEMMA TotalMoves ==
  ASSUME NEW rows \in [Users -> RefRow], NEW new \in [Users -> RefRow], NEW v \in Users,
         \A x \in Users : x # v => new[x] = rows[x], NEW s, NEW u
  PROVE  Total(new, s, u) + Part(rows[v], s, u) = Total(rows, s, u) + Part(new[v], s, u)
  <1>. DEFINE f == Share(rows, s, u)
              g == Share(new, s, u)
  <1>1. IsFiniteSet(Users) BY ShopAssumption DEF ShopAssumption
  <1>2. \A x \in Users : f[x] \in Nat /\ g[x] \in Nat BY PartNat DEF Share
  <1>3. \A x \in Users : x # v => g[x] = f[x] BY DEF Share
  <1>4. f[v] = Part(rows[v], s, u) /\ g[v] = Part(new[v], s, u) BY DEF Share
  <1>. HIDE DEF f, g
  <1>5. SumFunctionOnSet(g, Users) + f[v] = SumFunctionOnSet(f, Users) + g[v]
    BY <1>1, <1>2, <1>3, SumChange
  <1>. QED BY <1>4, <1>5 DEF f, g, Total

LEMMA LedEven ==
  ASSUME Led, UNCHANGED <<wallet, locked, spent, charged, ref>>, known \subseteq known'
  PROVE  Led'
  <1>1. RefType' /\ WalletType' BY DEF Led, RefType, WalletType
  <1>2. Invited' BY DEF Led, Invited
  <1>3. Owed' /\ Paid' BY DEF Led, Owed, Paid
  <1>. QED BY <1>1, <1>2, <1>3 DEF Led

LEMMA LedCreates ==
  ASSUME Led, PeopleType, RuleType, NEW u \in Users, NEW code \in Users \cup {Nobody},
         CreateUser(u, code), charged' = charged
  PROVE  Led'
  <1>. DEFINE by == IF code \in known \ {u} THEN code ELSE Nobody
  <1>0. u \notin known /\ known' = known \cup {u} /\ spent' = spent BY DEF CreateUser
  <1>1. CASE by = Nobody
    <2>1. UNCHANGED <<wallet, locked, ref>> BY <1>1 DEF CreateUser
    <2>. QED BY <1>0, <2>1, LedEven
  <1>2. CASE by # Nobody
    <2>0. PICK b \in Users : b = by BY <1>2 DEF PeopleType
    <2>. DEFINE row == [status |-> IF rules.required THEN "pending" ELSE "completed",
                        by |-> b, reward |-> rules.reward]
    <2>1. /\ ref' = [ref EXCEPT ![u] = row]
          /\ wallet' = IF rules.required THEN wallet ELSE [wallet EXCEPT ![b] = @ + rules.reward]
          /\ locked' = IF rules.required THEN [locked EXCEPT ![b] = @ + rules.reward] ELSE locked
      BY <1>2, <2>0 DEF CreateUser
    <2>2. rules.reward \in Rewards /\ rules.reward \in Nat
      <3>1. Rewards \subseteq Nat BY ShopAssumption DEF ShopAssumption
      <3>. QED BY <3>1 DEF RuleType
    <2>3. row \in RefRow BY <2>2 DEF RefRow
    <2>4. ref \in [Users -> RefRow] BY DEF Led, RefType
    <2>5. ref' \in [Users -> RefRow] /\ ref'[u] = row /\ \A x \in Users : x # u => ref'[x] = ref[x]
      BY <2>1, <2>3, <2>4
    <2>6. RefType' BY <2>5 DEF RefType
    <2>7. ref[u].status = "none" BY <1>0 DEF Led, Invited
    <2>8. Invited'
      <3>1. row.by \in Users OBVIOUS
      <3>. HIDE DEF row
      <3>. QED BY <1>0, <2>5, <3>1 DEF Led, Invited
    <2>9. WalletType'
      <3>1. wallet' \in [Users -> Nat] BY <2>1, <2>2 DEF Led, WalletType
      <3>2. locked' \in [Users -> Nat] BY <2>1, <2>2 DEF Led, WalletType
      <3>. QED BY <1>0, <3>1, <3>2 DEF Led, WalletType
    <2>10. ASSUME NEW x \in Users
           PROVE  /\ Total(ref', "pending", x) = Total(ref, "pending", x) + Part(row, "pending", x)
                  /\ Total(ref', "completed", x) = Total(ref, "completed", x) + Part(row, "completed", x)
      <3>1. Part(ref[u], "pending", x) = 0 /\ Part(ref[u], "completed", x) = 0 BY <2>7 DEF Part
      <3>. HIDE DEF row
      <3>2. Total(ref', "pending", x) + Part(ref[u], "pending", x)
              = Total(ref, "pending", x) + Part(row, "pending", x)
        BY <2>4, <2>5, TotalMoves
      <3>3. Total(ref', "completed", x) + Part(ref[u], "completed", x)
              = Total(ref, "completed", x) + Part(row, "completed", x)
        BY <2>4, <2>5, TotalMoves
      <3>4. Total(ref', "pending", x) \in Nat /\ Total(ref', "completed", x) \in Nat
        BY <2>5, TotalNat
      <3>. QED BY <3>1, <3>2, <3>3, <3>4
    <2>11. ASSUME NEW x \in Users
           PROVE  /\ locked'[x] = locked[x] + Part(row, "pending", x)
                  /\ wallet'[x] = wallet[x] + Part(row, "completed", x)
      <3>1. /\ wallet \in [Users -> Nat] /\ locked \in [Users -> Nat] BY DEF Led, WalletType
      <3>2. CASE rules.required
        <4>1. Part(row, "pending", x) = (IF b = x THEN rules.reward ELSE 0) /\ Part(row, "completed", x) = 0
          BY <3>2 DEF Part
        <4>. QED BY <2>1, <3>1, <3>2, <4>1
      <3>3. CASE ~rules.required
        <4>1. Part(row, "completed", x) = (IF b = x THEN rules.reward ELSE 0) /\ Part(row, "pending", x) = 0
          BY <3>3 DEF Part
        <4>. QED BY <2>1, <3>1, <3>3, <4>1
      <3>. QED BY <3>2, <3>3
    <2>. HIDE DEF row
    <2>12. \A x \in Users : Part(row, "pending", x) \in Nat /\ Part(row, "completed", x) \in Nat
      BY <2>3, PartNat
    <2>13. Owed' BY <2>10, <2>11 DEF Led, Owed
    <2>14. Paid'
      <3>. SUFFICES ASSUME NEW x \in Users
                    PROVE  wallet'[x] + spent'[x] = charged'[x] + Total(ref', "completed", x)
        BY DEF Paid
      <3>1. wallet[x] \in Nat /\ spent[x] \in Nat /\ charged[x] \in Nat /\ Total(ref, "completed", x) \in Nat
        BY <2>4, TotalNat DEF Led, WalletType
      <3>2. wallet[x] + spent[x] = charged[x] + Total(ref, "completed", x) BY DEF Led, Paid
      <3>. QED BY <1>0, <2>10, <2>11, <2>12, <3>1, <3>2
    <2>. QED BY <2>6, <2>8, <2>9, <2>13, <2>14 DEF Led
  <1>. QED BY <1>1, <1>2

\* A pending row is completed: its reward leaves one total for the other.
LEMMA LedCompletes ==
  ASSUME Led, NEW u \in Users, CompleteReferral(u), spent' = spent, charged' = charged, known' = known
  PROVE  Led'
  <1>1. CASE ~(ref[u].status = "pending" /\ locked[ref[u].by] >= ref[u].reward)
    <2>1. UNCHANGED <<wallet, locked, ref>> BY <1>1 DEF CompleteReferral
    <2>. QED BY <2>1, LedEven
  <1>2. CASE ref[u].status = "pending" /\ locked[ref[u].by] >= ref[u].reward
    <2>0. ref \in [Users -> RefRow] BY DEF Led, RefType
    <2>1. PICK b \in Users : b = ref[u].by BY <1>2 DEF Led, Invited
    <2>2. PICK k \in Nat : k = ref[u].reward BY <2>0, RewardNat
    <2>. DEFINE row == [ref[u] EXCEPT !.status = "completed"]
    <2>3. row \in RefRow /\ row.status = "completed" /\ row.by = b /\ row.reward = k
      BY <2>0, <2>1, <2>2 DEF RefRow
    <2>4. /\ ref' = [ref EXCEPT ![u] = row]
          /\ locked' = [locked EXCEPT ![b] = @ - k]
          /\ wallet' = [wallet EXCEPT ![b] = @ + k]
          /\ locked[b] >= k
      BY <1>2, <2>1, <2>2 DEF CompleteReferral
    <2>. HIDE DEF row
    <2>5. ref' \in [Users -> RefRow] /\ ref'[u] = row /\ \A x \in Users : x # u => ref'[x] = ref[x]
      BY <2>0, <2>3, <2>4
    <2>6. RefType' BY <2>5 DEF RefType
    <2>7. Invited'
      <3>1. u \in known BY <1>2 DEF Led, Invited
      <3>. QED BY <2>3, <2>5, <3>1 DEF Led, Invited
    <2>8. wallet \in [Users -> Nat] /\ locked \in [Users -> Nat] /\ spent \in [Users -> Nat]
           /\ charged \in [Users -> Nat]
      BY DEF Led, WalletType
    <2>9. WalletType'
      <3>1. wallet' \in [Users -> Nat] BY <2>4, <2>8
      <3>2. locked[b] - k \in Nat BY <2>4, <2>8
      <3>3. locked' \in [Users -> Nat] BY <2>4, <2>8, <3>2
      <3>. QED BY <2>8, <3>1, <3>3 DEF WalletType
    <2>10. ASSUME NEW x \in Users
           PROVE  /\ Total(ref', "pending", x) = IF b = x THEN Total(ref, "pending", x) - k
                                                 ELSE Total(ref, "pending", x)
                  /\ Total(ref', "completed", x) = IF b = x THEN Total(ref, "completed", x) + k
                                                   ELSE Total(ref, "completed", x)
      <3>1. /\ Part(ref[u], "pending", x) = (IF b = x THEN k ELSE 0)
            /\ Part(ref[u], "completed", x) = 0
        BY <1>2, <2>1, <2>2 DEF Part
      <3>2. /\ Part(row, "completed", x) = (IF b = x THEN k ELSE 0)
            /\ Part(row, "pending", x) = 0
        BY <2>3 DEF Part
      <3>3. Total(ref', "pending", x) + Part(ref[u], "pending", x)
              = Total(ref, "pending", x) + Part(row, "pending", x)
        BY <2>0, <2>5, TotalMoves
      <3>4. Total(ref', "completed", x) + Part(ref[u], "completed", x)
              = Total(ref, "completed", x) + Part(row, "completed", x)
        BY <2>0, <2>5, TotalMoves
      <3>5. Total(ref', "pending", x) \in Nat /\ Total(ref', "completed", x) \in Nat
        BY <2>5, TotalNat
      <3>6. Total(ref, "pending", x) \in Nat /\ Total(ref, "completed", x) \in Nat
        BY <2>0, TotalNat
      <3>. QED BY <3>1, <3>2, <3>3, <3>4, <3>5, <3>6
    <2>11. ASSUME NEW x \in Users
           PROVE  /\ locked'[x] = IF b = x THEN locked[x] - k ELSE locked[x]
                  /\ wallet'[x] = IF b = x THEN wallet[x] + k ELSE wallet[x]
      BY <2>4, <2>8
    <2>12. Owed' BY <2>10, <2>11 DEF Led, Owed
    <2>13. Paid'
      <3>. SUFFICES ASSUME NEW x \in Users
                    PROVE  wallet'[x] + spent'[x] = charged'[x] + Total(ref', "completed", x)
        BY DEF Paid
      <3>1. wallet[x] \in Nat /\ spent[x] \in Nat /\ charged[x] \in Nat /\ Total(ref, "completed", x) \in Nat
        BY <2>0, <2>8, TotalNat
      <3>2. wallet[x] + spent[x] = charged[x] + Total(ref, "completed", x) BY DEF Led, Paid
      <3>. QED BY <2>10, <2>11, <3>1, <3>2
    <2>. QED BY <2>6, <2>7, <2>9, <2>12, <2>13 DEF Led
  <1>. QED BY <1>1, <1>2

\* Money goes from a wallet into a purchase.
LEMMA LedDeducts ==
  ASSUME Led, NEW u \in Users, NEW k \in Nat, wallet[u] >= k,
         wallet' = [wallet EXCEPT ![u] = @ - k], spent' = [spent EXCEPT ![u] = @ + k],
         UNCHANGED <<locked, ref, charged, known>>
  PROVE  Led'
  <1>1. WalletType
    BY DEF Led
  <1>2. wallet[u] - k \in Nat BY <1>1 DEF WalletType
  <1>3. spent[u] + k \in Nat BY <1>1 DEF WalletType
  <1>4. wallet' \in [Users -> Nat] /\ spent' \in [Users -> Nat] BY <1>1, <1>2, <1>3 DEF WalletType
  <1>5. WalletType' BY <1>1, <1>4 DEF WalletType
  <1>6. RefType' /\ Invited' BY DEF Led, RefType, Invited
  <1>7. Owed' BY DEF Led, Owed
  <1>8. Paid'
    <2>. SUFFICES ASSUME NEW x \in Users
                  PROVE  wallet'[x] + spent'[x] = charged[x] + Total(ref, "completed", x)
      BY DEF Paid
    <2>1. wallet[x] + spent[x] = charged[x] + Total(ref, "completed", x) BY DEF Led, Paid
    <2>2. wallet'[x] + spent'[x] = wallet[x] + spent[x]
      <3>1. wallet[x] \in Nat /\ spent[x] \in Nat BY <1>1 DEF WalletType
      <3>2. wallet'[x] = (IF x = u THEN wallet[x] - k ELSE wallet[x]) BY <1>1 DEF WalletType
      <3>3. spent'[x] = (IF x = u THEN spent[x] + k ELSE spent[x]) BY <1>1 DEF WalletType
      <3>. QED BY <3>1, <3>2, <3>3
    <2>. QED BY <2>1, <2>2
  <1>. QED BY <1>5, <1>6, <1>7, <1>8 DEF Led

\* Money is put into a wallet.
LEMMA LedAdds == ASSUME Led, NEW u \in Users, AddToWallet(u) PROVE Led'
  <1>0. /\ wallet' = [wallet EXCEPT ![u] = @ + 1] /\ charged' = [charged EXCEPT ![u] = @ + 1]
        /\ UNCHANGED <<locked, spent, ref, known>>
    BY DEF AddToWallet, people
  <1>1. WalletType BY DEF Led
  <1>2. wallet' \in [Users -> Nat] /\ charged' \in [Users -> Nat] BY <1>0, <1>1 DEF WalletType
  <1>3. WalletType' BY <1>0, <1>1, <1>2 DEF WalletType
  <1>4. RefType' /\ Invited' BY <1>0 DEF Led, RefType, Invited
  <1>5. Owed' BY <1>0 DEF Led, Owed
  <1>6. Paid'
    <2>. SUFFICES ASSUME NEW x \in Users
                  PROVE  wallet'[x] + spent[x] = charged'[x] + Total(ref, "completed", x)
      BY <1>0 DEF Paid
    <2>1. wallet[x] + spent[x] = charged[x] + Total(ref, "completed", x) BY DEF Led, Paid
    <2>2. wallet[x] \in Nat /\ spent[x] \in Nat /\ charged[x] \in Nat BY <1>1 DEF WalletType
    <2>3. Total(ref, "completed", x) \in Nat BY TotalNat DEF Led, RefType
    <2>4. wallet'[x] = IF x = u THEN wallet[x] + 1 ELSE wallet[x] BY <1>0, <1>1 DEF WalletType
    <2>5. charged'[x] = IF x = u THEN charged[x] + 1 ELSE charged[x] BY <1>0, <1>1 DEF WalletType
    <2>. QED BY <2>1, <2>2, <2>3, <2>4, <2>5
  <1>. QED BY <1>3, <1>4, <1>5, <1>6 DEF Led

---------------------------------------------------------------------------
\* The release of all pending rewards

\* The rewards of the pending rows, and of the completed ones.
LEMMA RewardsAreTotals ==
  ASSUME RefType, NEW u \in Users
  PROVE  /\ RewardsOf(Pending, u) = Total(ref, "pending", u)
         /\ RewardsOf(Completed, u) = Total(ref, "completed", u)
  <1>1. ref \in [Users -> RefRow] BY DEF RefType
  <1>. QED BY <1>1, TotalOf DEF RewardsOf, RewardOf, Pending, Completed

\* A set of rows is a part of another one, and the rest.
LEMMA RewardsSplit ==
  ASSUME RefType, NEW R \in SUBSET Users, NEW S \in SUBSET Users, R \cap S = {}, NEW u
  PROVE  /\ RewardsOf(R \cup S, u) = RewardsOf(R, u) + RewardsOf(S, u)
         /\ RewardsOf(R, u) \in Nat /\ RewardsOf(S, u) \in Nat
  <1>. DEFINE A == {v \in R : ref[v].by = u}
              B == {v \in S : ref[v].by = u}
  <1>1. IsFiniteSet(Users) BY ShopAssumption DEF ShopAssumption
  <1>2. A \subseteq Users /\ B \subseteq Users /\ A \cap B = {}
         /\ {v \in R \cup S : ref[v].by = u} = A \cup B
    OBVIOUS
  <1>. HIDE DEF A, B
  <1>3. IsFiniteSet(A) /\ IsFiniteSet(B) BY <1>1, <1>2, FS_Subset
  <1>4. \A v \in Users : RewardOf[v] \in Nat
    <2>. SUFFICES ASSUME NEW v \in Users PROVE RewardOf[v] \in Nat OBVIOUS
    <2>1. ref[v] \in RefRow BY DEF RefType
    <2>2. ref[v].reward \in Nat BY <2>1, RewardNat
    <2>. QED BY <2>2 DEF RewardOf
  <1>5. (\A v \in A : RewardOf[v] \in Nat) /\ (\A v \in B : RewardOf[v] \in Nat)
         /\ (\A v \in A \cup B : RewardOf[v] \in Nat)
    BY <1>2, <1>4
  <1>6. SumFunctionOnSet(RewardOf, A \cup B) = SumFunctionOnSet(RewardOf, A) + SumFunctionOnSet(RewardOf, B)
    BY <1>2, <1>3, <1>5, SumSplit
  <1>7. SumFunctionOnSet(RewardOf, A) \in Nat /\ SumFunctionOnSet(RewardOf, B) \in Nat
    BY <1>3, <1>5, SumNat
  <1>. QED BY <1>2, <1>6, <1>7 DEF RewardsOf, A, B

\* The reward of a row is a part of the rewards of the rows.
LEMMA RewardWithin ==
  ASSUME RefType, NEW S \in SUBSET Users, NEW v \in S
  PROVE  RewardsOf(S, ref[v].by) >= ref[v].reward
  <1>. DEFINE A == {x \in S : ref[x].by = ref[v].by}
              f == RewardOf
  <1>1. IsFiniteSet(Users) BY ShopAssumption DEF ShopAssumption
  <1>2. A \subseteq Users /\ v \in A OBVIOUS
  <1>3. \A x \in Users : f[x] \in Nat /\ f[x] = ref[x].reward
    <2>. SUFFICES ASSUME NEW x \in Users PROVE f[x] \in Nat /\ f[x] = ref[x].reward OBVIOUS
    <2>1. ref[x] \in RefRow BY DEF RefType
    <2>2. ref[x].reward \in Nat BY <2>1, RewardNat
    <2>. QED BY <2>2 DEF RewardOf
  <1>. HIDE DEF A, f
  <1>4. v \in A BY <1>2
  <1>5. IsFiniteSet(A) BY <1>1, <1>2, FS_Subset
  <1>6. \A x \in A : f[x] \in Nat BY <1>2, <1>3
  <1>7. SumFunctionOnSet(f, A) = f[v] + SumFunctionOnSet(f, A \ {v})
    BY <1>4, <1>5, <1>6, SumApart
  <1>8. SumFunctionOnSet(f, A \ {v}) \in Nat
    <2>1. IsFiniteSet(A \ {v}) /\ \A x \in A \ {v} : f[x] \in Nat BY <1>5, <1>6, FS_RemoveElement
    <2>. QED BY <2>1, SumNat
  <1>9. f[v] \in Nat /\ f[v] = ref[v].reward BY <1>3
  <1>10. SumFunctionOnSet(f, A) >= ref[v].reward BY <1>7, <1>8, <1>9
  <1>. QED BY <1>10 DEF RewardsOf, A, f

\* The release completes the pending rows, each with the locked money of its inviter, and
\* leaves none: locked is the sum of the pending rewards, so no row is passed over.
LEMMA LedReleases == ASSUME Led, ReleaseAll PROVE Led' /\ Pending' = {}
  <1>1. PICK rows \in SUBSET Pending :
       /\ \A u \in Users : RewardsOf(rows, u) <= locked[u]
       /\ \A v \in Pending \ rows :
            RewardsOf(rows, ref[v].by) + ref[v].reward > locked[ref[v].by]
       /\ ref' = [v \in Users |-> IF v \in rows THEN [ref[v] EXCEPT !.status = "completed"]
                                  ELSE ref[v]]
       /\ locked' = [u \in Users |-> locked[u] - RewardsOf(rows, u)]
       /\ wallet' = [u \in Users |-> wallet[u] + RewardsOf(rows, u)]
    BY DEF ReleaseAll
  <1>2. UNCHANGED <<known, spent, charged>> BY DEF ReleaseAll, people
  <1>. DEFINE rest == Pending \ rows
  <1>3. RefType /\ WalletType BY DEF Led
  <1>4. /\ rows \in SUBSET Users /\ rest \in SUBSET Users /\ rows \cap rest = {} /\ Pending = rows \cup rest
        /\ Completed \in SUBSET Users /\ rows \cap Completed = {}
    BY DEF Pending, Completed
  <1>. HIDE DEF rest
  <1>5. ASSUME NEW u \in Users
        PROVE  /\ RewardsOf(rows, u) \in Nat /\ RewardsOf(rest, u) \in Nat /\ RewardsOf(Completed, u) \in Nat
               /\ locked[u] = RewardsOf(rows, u) + RewardsOf(rest, u)
               /\ Total(ref, "pending", u) = RewardsOf(rows, u) + RewardsOf(rest, u)
               /\ RewardsOf(rows \cup Completed, u) = RewardsOf(rows, u) + RewardsOf(Completed, u)
               /\ Total(ref, "completed", u) = RewardsOf(Completed, u)
    <2>0. \A R, S \in SUBSET Users : R \cap S = {} =>
            /\ RewardsOf(R \cup S, u) = RewardsOf(R, u) + RewardsOf(S, u)
            /\ RewardsOf(R, u) \in Nat /\ RewardsOf(S, u) \in Nat
      BY <1>3, RewardsSplit
    <2>1. RewardsOf(rows \cup rest, u) = RewardsOf(rows, u) + RewardsOf(rest, u)
           /\ RewardsOf(rows, u) \in Nat /\ RewardsOf(rest, u) \in Nat
      BY <1>4, <2>0, Zenon
    <2>2. RewardsOf(rows \cup Completed, u) = RewardsOf(rows, u) + RewardsOf(Completed, u)
           /\ RewardsOf(Completed, u) \in Nat
      BY <1>4, <2>0, Zenon
    <2>3. RewardsOf(Pending, u) = Total(ref, "pending", u) /\ RewardsOf(Completed, u) = Total(ref, "completed", u)
      BY <1>3, RewardsAreTotals
    <2>4. locked[u] = Total(ref, "pending", u) BY DEF Led, Owed
    <2>. QED BY <1>4, <2>1, <2>2, <2>3, <2>4
  <1>6. rest = {}
    <2>. SUFFICES ASSUME NEW v \in rest PROVE FALSE OBVIOUS
    <2>1. v \in Users /\ ref[v].status = "pending" BY <1>4 DEF Pending
    <2>2. ref[v].by \in Users BY <2>1 DEF Led, Invited
    <2>3. RewardsOf(rows, ref[v].by) + ref[v].reward > locked[ref[v].by] BY <1>1 DEF rest
    <2>4. RewardsOf(rest, ref[v].by) >= ref[v].reward BY <1>3, <1>4, RewardWithin
    <2>5. locked[ref[v].by] = RewardsOf(rows, ref[v].by) + RewardsOf(rest, ref[v].by)
           /\ RewardsOf(rows, ref[v].by) \in Nat /\ RewardsOf(rest, ref[v].by) \in Nat
      BY <1>5, <2>2
    <2>6. ref[v].reward \in Nat
      <3>1. ref[v] \in RefRow BY <1>3, <2>1 DEF RefType
      <3>. QED BY <3>1, RewardNat
    <2>. QED BY <2>3, <2>4, <2>5, <2>6
  <1>7. ASSUME NEW v \in Users
        PROVE  /\ ref'[v] \in RefRow /\ ref'[v].by = ref[v].by /\ ref'[v].reward = ref[v].reward
               /\ ref'[v].status = IF v \in rows THEN "completed" ELSE ref[v].status
    <2>1. ref[v] \in RefRow BY <1>3 DEF RefType
    <2>2. ref'[v] = IF v \in rows THEN [ref[v] EXCEPT !.status = "completed"] ELSE ref[v]
      BY <1>1
    <2>. QED BY <2>1, <2>2 DEF RefRow
  <1>8. RefType'
    <2>1. ref' = [v \in Users |-> ref'[v]] BY <1>1
    <2>. QED BY <1>7, <2>1 DEF RefType
  <1>9. Invited'
    <2>1. \A v \in rows : ref[v].status = "pending" BY <1>4 DEF Pending
    <2>2. \A v \in Users : ref'[v].status # "none" => ref[v].status # "none" BY <1>7, <2>1
    <2>3. \A v \in Users : ref[v].status = "none" => ref'[v].status = "none" BY <1>7, <2>1
    <2>. QED BY <1>2, <1>7, <2>2, <2>3 DEF Led, Invited
  <1>10. Pending' = {}
    <2>1. \A v \in Users : ref[v].status = "pending" => v \in rows BY <1>4, <1>6 DEF Pending
    <2>2. \A v \in Users : ref'[v].status # "pending" BY <1>7, <2>1
    <2>. QED BY <2>2 DEF Pending
  <1>11. Completed' = rows \cup Completed
    <2>1. \A v \in Users : ref'[v].status = "completed" <=> v \in rows \/ ref[v].status = "completed"
      BY <1>7
    <2>. QED BY <1>4, <2>1 DEF Completed
  <1>12. \A u \in Users, R \in SUBSET Users : RewardsOf(R, u)' = RewardsOf(R, u)
    <2>. SUFFICES ASSUME NEW u \in Users, NEW R \in SUBSET Users PROVE RewardsOf(R, u)' = RewardsOf(R, u)
      OBVIOUS
    <2>1. RewardOf' = RewardOf BY <1>7 DEF RewardOf
    <2>2. {v \in R : ref'[v].by = u} = {v \in R : ref[v].by = u} BY <1>7
    <2>. QED BY <2>1, <2>2 DEF RewardsOf
  <1>13. ASSUME NEW u \in Users
         PROVE  /\ Total(ref', "completed", u) = RewardsOf(rows, u) + RewardsOf(Completed, u)
                /\ Total(ref', "pending", u) = 0
    <2>1. ref' \in [Users -> RefRow] BY <1>8 DEF RefType
    <2>. DEFINE f == [v \in Users |-> ref'[v].reward]
    <2>2. f = RewardOf BY <1>7 DEF RewardOf
    <2>3. {x \in Users : ref'[x].status = "completed"} = rows \cup Completed BY <1>11 DEF Completed
    <2>4. {v \in rows \cup Completed : ref'[v].by = u} = {v \in rows \cup Completed : ref[v].by = u}
      BY <1>4, <1>7
    <2>5. {x \in Users : ref'[x].status = "pending"} = {} BY <1>10 DEF Pending
    <2>6. {v \in {x \in Users : ref'[x].status = "pending"} : ref'[v].by = u} = {} BY <2>5
    <2>7. SumFunctionOnSet(f, {v \in {x \in Users : ref'[x].status = "completed"} : ref'[v].by = u})
            = Total(ref', "completed", u)
      BY <2>1, TotalOf
    <2>8. SumFunctionOnSet(f, {v \in {x \in Users : ref'[x].status = "pending"} : ref'[v].by = u})
            = Total(ref', "pending", u)
      BY <2>1, TotalOf
    <2>. HIDE DEF f
    <2>9. Total(ref', "pending", u) = 0 BY <2>6, <2>8, SumNothing
    <2>10. Total(ref', "completed", u) = RewardsOf(rows \cup Completed, u)
      BY <2>2, <2>3, <2>4, <2>7 DEF RewardsOf
    <2>. QED BY <1>5, <2>9, <2>10
  <1>14. ASSUME NEW u \in Users PROVE RewardsOf(rows, u) = locked[u]
    <2>1. RewardsOf(rest, u) = 0
      <3>1. {v \in rest : ref[v].by = u} = {} BY <1>6
      <3>. QED BY <3>1, SumNothing DEF RewardsOf
    <2>. QED BY <1>5, <2>1
  <1>15. /\ wallet \in [Users -> Nat] /\ locked \in [Users -> Nat]
         /\ spent \in [Users -> Nat] /\ charged \in [Users -> Nat]
    BY <1>3 DEF WalletType
  <1>16. ASSUME NEW u \in Users
         PROVE  locked'[u] = 0 /\ wallet'[u] = wallet[u] + RewardsOf(rows, u)
    BY <1>1, <1>14, <1>15
  <1>17. WalletType'
    <2>1. \A u \in Users : locked'[u] \in Nat /\ wallet'[u] \in Nat BY <1>5, <1>15, <1>16
    <2>2. locked' = [u \in Users |-> locked'[u]] /\ wallet' = [u \in Users |-> wallet'[u]] BY <1>1
    <2>. QED BY <1>2, <1>15, <2>1, <2>2 DEF WalletType
  <1>18. Owed' BY <1>13, <1>16 DEF Owed
  <1>19. Paid'
    <2>. SUFFICES ASSUME NEW u \in Users
                  PROVE  wallet'[u] + spent[u] = charged[u] + Total(ref', "completed", u)
      BY <1>2 DEF Paid
    <2>1. wallet[u] + spent[u] = charged[u] + Total(ref, "completed", u) BY DEF Led, Paid
    <2>2. wallet[u] \in Nat /\ spent[u] \in Nat /\ charged[u] \in Nat BY <1>15
    <2>. QED BY <1>5, <1>13, <1>16, <2>1, <2>2
  <1>. QED BY <1>8, <1>9, <1>10, <1>17, <1>18, <1>19 DEF Led

---------------------------------------------------------------------------
\* Every step keeps wallets and rewards balanced

LEMMA LedStep == ASSUME Shapes, Named, PeopleType, RuleType, Led, [Next]_vars PROVE Led'
  <1>0. Nobody \in Users \cup {Nobody} OBVIOUS
  <1>1. CASE Joins
    <2>1. PICK u \in Users :
            MiniAuth(u) \/ \E code \in Users \cup {Nobody} : Start(u, code) \/ KeepCode(u, code)
      BY <1>1 DEF Joins
    <2>2. CASE MiniAuth(u)
      <3>1. CreateUser(u, Nobody) /\ charged' = charged BY <2>2 DEF MiniAuth
      <3>. QED BY <1>0, <3>1, LedCreates
    <2>3. ASSUME NEW code \in Users \cup {Nobody}, Start(u, code) PROVE Led'
      <3>. DEFINE c == IF code # Nobody THEN code ELSE kept[u]
      <3>1. c \in Users \cup {Nobody} BY DEF PeopleType
      <3>2. CreateUser(u, c) /\ charged' = charged BY <2>3 DEF Start
      <3>. HIDE DEF c
      <3>. QED BY <3>1, <3>2, LedCreates
    <2>4. ASSUME NEW code \in Users \cup {Nobody}, KeepCode(u, code) PROVE Led'
      <3>1. UNCHANGED <<wallet, locked, spent, charged, ref, known>> BY <2>4 DEF KeepCode, money
      <3>. QED BY <3>1, LedEven
    <2>. QED BY <2>1, <2>2, <2>3, <2>4
  <1>2. CASE Presses \/ UNCHANGED vars
    <2>1. UNCHANGED <<wallet, locked, spent, charged, ref, known>>
      BY <1>2 DEF Presses, PressCustom, PressPlan, vars, money, people
    <2>. QED BY <2>1, LedEven
  <1>3. CASE Elsewhere
    <2>1. ASSUME NEW u \in Users, CodeForCustom(u) \/ OpenTest(u) \/ SettleTest(u) PROVE Led'
      <3>1. UNCHANGED <<wallet, locked, spent, charged, ref, known>>
        BY <2>1 DEF CodeForCustom, OpenTest, SettleTest, money, people
      <3>. QED BY <3>1, LedEven
    <2>2. ASSUME NEW u \in Users, NEW plan \in Plans, NEW w \in Workers, OtherPurchase(u, plan, w)
          PROVE  Led'
      <3>1. CompleteReferral(u) /\ UNCHANGED <<spent, charged, known>>
        BY <2>2 DEF OtherPurchase, people
      <3>. QED BY <3>1, LedCompletes
    <2>. QED BY <1>3, <2>1, <2>2, LedAdds DEF Elsewhere
  <1>4. ASSUME NEW w \in Workers, Serves(w) PROVE Led'
    <2>0. job[w] \in Jobs BY DEF Shapes
    <2>1. CASE AskOrders(w) \/ StoreRead(w) \/ GiveUp(w) \/ UseDiscount(w) \/ CreateOrder(w) \/ Raise(w)
      <3>1. UNCHANGED <<wallet, locked, spent, charged, ref, known>>
        BY <2>1 DEF AskOrders, StoreRead, GiveUp, UseDiscount, CreateOrder, Raise, money, people
      <3>. QED BY <3>1, LedEven
    <2>2. CASE Deduct(w)
      <3>1. job[w].who \in Users BY <2>2 DEF Named, Buying, Deduct, At
      <3>2. job[w].price \in Nat BY <2>0 DEF Jobs
      <3>3. /\ wallet[job[w].who] >= job[w].price
            /\ wallet' = [wallet EXCEPT ![job[w].who] = @ - job[w].price]
            /\ spent' = [spent EXCEPT ![job[w].who] = @ + job[w].price]
            /\ UNCHANGED <<locked, ref, charged, known>>
        BY <2>2 DEF Deduct, people
      <3>. QED BY <3>1, <3>2, <3>3, LedDeducts
    <2>3. CASE RewardReferrer(w)
      <3>1. UNCHANGED <<spent, charged, known>> BY <2>3 DEF RewardReferrer, people
      <3>2. CASE CompleteReferral(job[w].who)
        <4>1. job[w].who \in Users BY <2>3 DEF Named, Buying, RewardReferrer, At
        <4>. QED BY <3>1, <3>2, <4>1, LedCompletes
      <3>3. CASE UNCHANGED <<ref, locked, wallet>> BY <3>1, <3>3, LedEven
      <3>. QED BY <2>3, <3>2, <3>3 DEF RewardReferrer
    <2>. QED BY <1>4, <2>1, <2>2, <2>3 DEF Serves
  <1>5. CASE Desk
    <2>1. CASE ReleaseAll BY <2>1, LedReleases
    <2>2. CASE ~ReleaseAll
      <3>1. UNCHANGED <<wallet, locked, spent, charged, ref, known>>
        BY <1>5, <2>2 DEF Desk, ToggleRequired, ToggleMinimum, EditRule, SetOrders, CacheSetting,
           ShowServices, Expire, Crash, money, people
      <3>. QED BY <3>1, LedEven
    <2>. QED BY <2>1, <2>2
  <1>. QED BY <1>1, <1>2, <1>3, <1>4, <1>5, NextKinds

---------------------------------------------------------------------------
\* The money of u in the hands of a worker, by what the worker is doing.
Holds(j) ==
  IF j.at \in {"code", "order"} \/ (j.at = "reward" /\ j.plan # "custom") THEN j.price ELSE 0
Held(j, u) == IF j.who = u THEN Holds(j) ELSE 0
Shown(js, u) == [w \in Workers |-> Held(js[w], u)]
Hands(js, u) == SumFunctionOnSet(Shown(js, u), Workers)

\* The third line of BooksBalance, with the types of what it counts.
Kept ==
  /\ spent \in [Users -> Nat] /\ ordered \in [Users -> Nat] /\ lost \in [Users -> Nat]
  /\ \A u \in Users : spent[u] = ordered[u] + Hands(job, u) + lost[u]

LEMMA WorkersFinite == IsFiniteSet(Workers)
  <1>1. IsFiniteSet(Threads) BY ShopAssumption DEF ShopAssumption
  <1>2. IsFiniteSet({Loop}) BY FS_Singleton
  <1>. QED BY <1>1, <1>2, FS_Union DEF Workers

LEMMA HeldNat == ASSUME NEW j \in Jobs, NEW u PROVE Held(j, u) \in Nat /\ Holds(j) \in Nat
  <1>1. j.price \in Nat BY DEF Jobs
  <1>. QED BY <1>1 DEF Held, Holds

LEMMA HandsNat == ASSUME NEW js \in [Workers -> Jobs], NEW u PROVE Hands(js, u) \in Nat
  <1>1. \A w \in Workers : Shown(js, u)[w] \in Nat BY HeldNat DEF Shown
  <1>. QED BY <1>1, WorkersFinite, SumNat DEF Hands

LEMMA HandsSame ==
  ASSUME NEW js \in [Workers -> Jobs], NEW new \in [Workers -> Jobs], NEW u,
         \A w \in Workers : Held(new[w], u) = Held(js[w], u)
  PROVE  Hands(new, u) = Hands(js, u)
  <1>. DEFINE f == Shown(js, u)
              g == Shown(new, u)
  <1>1. \A w \in Workers : f[w] \in Nat /\ g[w] = f[w] BY HeldNat DEF Shown
  <1>. HIDE DEF f, g
  <1>2. SumFunctionOnSet(f, Workers) = SumFunctionOnSet(g, Workers) BY <1>1, WorkersFinite, SumSame
  <1>. QED BY <1>2 DEF Hands, f, g

LEMMA HandsMoves ==
  ASSUME NEW js \in [Workers -> Jobs], NEW new \in [Workers -> Jobs], NEW w \in Workers, NEW u,
         \A v \in Workers : v # w => new[v] = js[v]
  PROVE  Hands(new, u) + Held(js[w], u) = Hands(js, u) + Held(new[w], u)
  <1>. DEFINE f == Shown(js, u)
              g == Shown(new, u)
  <1>1. \A v \in Workers : f[v] \in Nat /\ g[v] \in Nat BY HeldNat DEF Shown
  <1>2. \A v \in Workers : v # w => g[v] = f[v] BY DEF Shown
  <1>3. f[w] = Held(js[w], u) /\ g[w] = Held(new[w], u) BY DEF Shown
  <1>. HIDE DEF f, g
  <1>4. SumFunctionOnSet(g, Workers) + f[w] = SumFunctionOnSet(f, Workers) + g[w]
    BY <1>1, <1>2, WorkersFinite, SumChange
  <1>. QED BY <1>3, <1>4 DEF Hands, f, g

\* All hands are empty.
LEMMA HandsEmpty ==
  ASSUME NEW js \in [Workers -> Jobs], NEW u, \A w \in Workers : Holds(js[w]) = 0
  PROVE  Hands(js, u) = 0
  <1>. DEFINE g == Shown(js, u)
  <1>1. \A w \in Workers : g[w] = 0 BY DEF Shown, Held
  <1>. HIDE DEF g
  <1>2. SumFunctionOnSet(g, {}) = SumFunctionOnSet(g, Workers)
    <2>1. {} \subseteq Workers /\ \A w \in Workers \ {} : g[w] = 0 BY <1>1
    <2>2. \A w \in {} : g[w] \in Nat /\ g[w] = g[w] OBVIOUS
    <2>. QED BY <2>1, <2>2, WorkersFinite, SumWhere
  <1>. QED BY <1>2, SumNothing DEF Hands, g

\* The sums of the model are these sums.
LEMMA HandsAreSums ==
  ASSUME Shapes, NEW u, NEW S \in SUBSET Workers
  PROVE  HandsOf(S, u) = SumFunctionOnSet([w \in Workers |-> IF w \in S THEN Held(job[w], u) ELSE 0], Workers)
  <1>. DEFINE T == {w \in S : job[w].who = u}
              g == [w \in Workers |-> IF w \in S THEN Held(job[w], u) ELSE 0]
  <1>1. \A w \in Workers : HandOf[w] = Holds(job[w]) BY DEF HandOf, InHand, Holds
  <1>2. \A w \in Workers : job[w] \in Jobs BY DEF Shapes
  <1>3. \A w \in Workers : Holds(job[w]) \in Nat BY <1>2, HeldNat
  <1>4. \A w \in T : HandOf[w] \in Nat /\ g[w] = HandOf[w] BY <1>1, <1>3 DEF Held
  <1>5. \A w \in Workers \ T : g[w] = 0 BY DEF Held
  <1>6. T \subseteq Workers OBVIOUS
  <1>. HIDE DEF T, g
  <1>7. SumFunctionOnSet(HandOf, T) = SumFunctionOnSet(g, Workers)
    BY <1>4, <1>5, <1>6, WorkersFinite, SumWhere
  <1>. QED BY <1>7 DEF HandsOf, T, g

LEMMA HandsOfAll == ASSUME Shapes, NEW u PROVE HandsOf(Workers, u) = Hands(job, u)
  <1>1. HandsOf(Workers, u)
          = SumFunctionOnSet([w \in Workers |-> IF w \in Workers THEN Held(job[w], u) ELSE 0], Workers)
    BY HandsAreSums
  <1>2. [w \in Workers |-> IF w \in Workers THEN Held(job[w], u) ELSE 0] = Shown(job, u) BY DEF Shown
  <1>. QED BY <1>1, <1>2 DEF Hands

LEMMA HandsOfOne == ASSUME Shapes, NEW u, NEW w \in Workers PROVE HandsOf({w}, u) = Held(job[w], u)
  <1>0. job[w] \in Jobs BY DEF Shapes
  <1>. DEFINE g == [v \in Workers |-> IF v \in {w} THEN Held(job[v], u) ELSE 0]
  <1>1. HandsOf({w}, u) = SumFunctionOnSet(g, Workers) BY HandsAreSums
  <1>2. Held(job[w], u) \in Nat BY <1>0, HeldNat
  <1>3. g[w] = Held(job[w], u) /\ (\A v \in Workers : g[v] \in Nat) /\ \A v \in Workers \ {w} : g[v] = 0
    BY <1>2
  <1>. HIDE DEF g
  <1>4. SumFunctionOnSet(g, Workers) = g[w] + SumFunctionOnSet(g, Workers \ {w})
    BY <1>3, WorkersFinite, SumApart
  <1>5. SumFunctionOnSet(g, {}) = SumFunctionOnSet(g, Workers \ {w})
    <2>1. IsFiniteSet(Workers \ {w}) BY WorkersFinite, FS_RemoveElement
    <2>2. {} \subseteq Workers \ {w} /\ \A v \in (Workers \ {w}) \ {} : g[v] = 0 BY <1>3
    <2>3. \A v \in {} : g[v] \in Nat /\ g[v] = g[v] OBVIOUS
    <2>. QED BY <2>1, <2>2, <2>3, SumWhere
  <1>. QED BY <1>1, <1>2, <1>3, <1>4, <1>5, SumNothing

---------------------------------------------------------------------------
\* Money in the hands of the workers

\* No money moves.
LEMMA KeptQuiet ==
  ASSUME Kept, Shapes, Shapes', UNCHANGED <<spent, ordered, lost>>,
         \A w \in Workers :
           \/ job'[w] = job[w]
           \/ Holds(job[w]) = 0 /\ Holds(job'[w]) = 0
           \/ Holds(job'[w]) = Holds(job[w]) /\ job'[w].who = job[w].who
  PROVE  Kept'
  <1>1. job \in [Workers -> Jobs] /\ job' \in [Workers -> Jobs] BY DEF Shapes
  <1>2. ASSUME NEW u \in Users PROVE Hands(job', u) = Hands(job, u)
    <2>1. ASSUME NEW w \in Workers PROVE Held(job'[w], u) = Held(job[w], u)
      <3>1. CASE job'[w] = job[w] BY <3>1
      <3>2. CASE Holds(job[w]) = 0 /\ Holds(job'[w]) = 0 BY <3>2 DEF Held
      <3>3. CASE Holds(job'[w]) = Holds(job[w]) /\ job'[w].who = job[w].who BY <3>3 DEF Held
      <3>. QED BY <3>1, <3>2, <3>3
    <2>. QED BY <1>1, <2>1, HandsSame
  <1>. QED BY <1>2 DEF Kept

\* One worker goes on.
LEMMA KeptGoes ==
  ASSUME Kept, Shapes, Shapes', UNCHANGED <<spent, ordered, lost>>, NEW w \in Workers,
         \A v \in Workers : v # w => job'[v] = job[v],
         Holds(job'[w]) = Holds(job[w]),
         job'[w].who = job[w].who \/ Holds(job[w]) = 0
  PROVE  Kept'
  <1>1. \A v \in Workers :
           \/ job'[v] = job[v]
           \/ Holds(job[v]) = 0 /\ Holds(job'[v]) = 0
           \/ Holds(job'[v]) = Holds(job[v]) /\ job'[v].who = job[v].who
    OBVIOUS
  <1>. QED BY <1>1, KeptQuiet

\* Money comes into the hands of a worker, or leaves them.
LEMMA HandsOfWorker ==
  ASSUME Shapes, Shapes', NEW w \in Workers, \A v \in Workers : v # w => job'[v] = job[v], NEW u
  PROVE  /\ Hands(job', u) + Held(job[w], u) = Hands(job, u) + Held(job'[w], u)
         /\ Hands(job', u) \in Nat /\ Hands(job, u) \in Nat
         /\ Held(job[w], u) \in Nat /\ Held(job'[w], u) \in Nat
  <1>1. job \in [Workers -> Jobs] /\ job' \in [Workers -> Jobs] BY DEF Shapes
  <1>2. Hands(job', u) + Held(job[w], u) = Hands(job, u) + Held(job'[w], u) BY <1>1, HandsMoves
  <1>3. Hands(job', u) \in Nat /\ Hands(job, u) \in Nat BY <1>1, HandsNat
  <1>4. Held(job[w], u) \in Nat /\ Held(job'[w], u) \in Nat BY <1>1, HeldNat
  <1>. QED BY <1>2, <1>3, <1>4

\* What a worker is doing after it goes on, and after it ends.
LEMMA AfterGoes ==
  ASSUME Shapes, NEW w \in Workers, NEW at, Goes(w, at)
  PROVE  /\ job'[w].at = at /\ job'[w].who = job[w].who /\ job'[w].plan = job[w].plan
         /\ job'[w].price = job[w].price
         /\ \A v \in Workers : v # w => job'[v] = job[v]
  BY DEF Shapes, Jobs, Goes

LEMMA AfterEnds ==
  ASSUME Shapes, NEW w \in Workers, Ends(w)
  PROVE  Holds(job'[w]) = 0 /\ \A v \in Workers : v # w => job'[v] = job[v]
  BY DEF Shapes, Ends, Idle, Holds

LEMMA KeptDeducts == ASSUME Kept, Shapes, Shapes', Named, NEW w \in Workers, Deduct(w) PROVE Kept'
  <1>1. PICK u \in Users : u = job[w].who BY DEF Named, Buying, Deduct, At
  <1>2. PICK k \in Nat : k = job[w].price BY DEF Shapes, Jobs
  <1>3. job[w].at = "priced" /\ spent' = [spent EXCEPT ![u] = @ + k] /\ UNCHANGED <<ordered, lost>>
    BY <1>1, <1>2 DEF Deduct, At
  <1>4. PICK at \in {"order", "code", "reward"} :
          Goes(w, at) /\ (at = "reward" => job[w].plan # "custom")
    BY DEF Deduct
  <1>5. /\ job'[w].at = at /\ job'[w].who = u /\ job'[w].plan = job[w].plan /\ job'[w].price = k
        /\ \A v \in Workers : v # w => job'[v] = job[v]
    BY <1>1, <1>2, <1>4, AfterGoes
  <1>6. Holds(job[w]) = 0 /\ Holds(job'[w]) = k BY <1>3, <1>4, <1>5 DEF Holds
  <1>7. ASSUME NEW x \in Users PROVE spent'[x] = ordered[x] + Hands(job', x) + lost[x]
    <2>1. /\ Hands(job', x) + Held(job[w], x) = Hands(job, x) + Held(job'[w], x)
          /\ Hands(job', x) \in Nat /\ Hands(job, x) \in Nat
      BY <1>5, HandsOfWorker
    <2>2. Held(job[w], x) = 0 /\ Held(job'[w], x) = IF x = u THEN k ELSE 0 BY <1>5, <1>6 DEF Held
    <2>3. spent'[x] = IF x = u THEN spent[x] + k ELSE spent[x] BY <1>3 DEF Kept
    <2>4. spent[x] = ordered[x] + Hands(job, x) + lost[x] /\ ordered[x] \in Nat /\ lost[x] \in Nat
      BY DEF Kept
    <2>. QED BY <2>1, <2>2, <2>3, <2>4
  <1>8. spent' \in [Users -> Nat] BY <1>3 DEF Kept
  <1>. QED BY <1>3, <1>7, <1>8 DEF Kept

LEMMA KeptOrders ==
  ASSUME Kept, Shapes, Shapes', Named, NEW w \in Workers, CreateOrder(w) PROVE Kept'
  <1>1. PICK u \in Users : u = job[w].who BY DEF Named, Buying, CreateOrder, At
  <1>2. PICK k \in Nat : k = job[w].price BY DEF Shapes, Jobs
  <1>3. job[w].at = "order" /\ ordered' = [ordered EXCEPT ![u] = @ + k] /\ UNCHANGED <<spent, lost>>
    BY <1>1, <1>2 DEF CreateOrder, At, money
  <1>4. Holds(job'[w]) = 0 /\ \A v \in Workers : v # w => job'[v] = job[v]
    <2>1. CASE job[w].plan = "custom"
      <3>1. Goes(w, "reward") BY <2>1 DEF CreateOrder
      <3>. QED BY <2>1, <3>1, AfterGoes DEF Holds
    <2>2. CASE job[w].plan # "custom"
      <3>1. Ends(w) BY <2>2 DEF CreateOrder
      <3>. QED BY <3>1, AfterEnds
    <2>. QED BY <2>1, <2>2
  <1>5. Holds(job[w]) = k BY <1>2, <1>3 DEF Holds
  <1>6. ASSUME NEW x \in Users PROVE spent[x] = ordered'[x] + Hands(job', x) + lost[x]
    <2>1. /\ Hands(job', x) + Held(job[w], x) = Hands(job, x) + Held(job'[w], x)
          /\ Hands(job', x) \in Nat /\ Hands(job, x) \in Nat
      BY <1>4, HandsOfWorker
    <2>2. Held(job'[w], x) = 0 /\ Held(job[w], x) = IF x = u THEN k ELSE 0 BY <1>1, <1>4, <1>5 DEF Held
    <2>3. ordered'[x] = IF x = u THEN ordered[x] + k ELSE ordered[x] BY <1>3 DEF Kept
    <2>4. spent[x] = ordered[x] + Hands(job, x) + lost[x] /\ ordered[x] \in Nat /\ lost[x] \in Nat
      BY DEF Kept
    <2>. QED BY <2>1, <2>2, <2>3, <2>4
  <1>7. ordered' \in [Users -> Nat] BY <1>3 DEF Kept
  <1>. QED BY <1>3, <1>6, <1>7 DEF Kept

LEMMA KeptRaises == ASSUME Kept, Shapes, Shapes', NEW w \in Workers, Raise(w) PROVE Kept'
  <1>1. lost' = [u \in Users |-> lost[u] + HandsOf({w}, u)] /\ Ends(w) /\ UNCHANGED <<spent, ordered>>
    BY DEF Raise, money
  <1>2. Holds(job'[w]) = 0 /\ \A v \in Workers : v # w => job'[v] = job[v] BY <1>1, AfterEnds
  <1>3. ASSUME NEW x \in Users
        PROVE  spent[x] = ordered[x] + Hands(job', x) + lost'[x] /\ lost'[x] \in Nat
    <2>1. /\ Hands(job', x) + Held(job[w], x) = Hands(job, x) + Held(job'[w], x)
          /\ Hands(job', x) \in Nat /\ Hands(job, x) \in Nat /\ Held(job[w], x) \in Nat
      BY <1>2, HandsOfWorker
    <2>2. Held(job'[w], x) = 0 BY <1>2 DEF Held
    <2>3. lost'[x] = lost[x] + Held(job[w], x) BY <1>1, HandsOfOne
    <2>4. spent[x] = ordered[x] + Hands(job, x) + lost[x] /\ ordered[x] \in Nat /\ lost[x] \in Nat
      BY DEF Kept
    <2>. QED BY <2>1, <2>2, <2>3, <2>4
  <1>4. lost' \in [Users -> Nat]
    <2>1. lost' = [x \in Users |-> lost'[x]] BY <1>1
    <2>. QED BY <1>3, <2>1
  <1>. QED BY <1>1, <1>3, <1>4 DEF Kept

LEMMA KeptCrashes == ASSUME Kept, Shapes, Shapes', Crash PROVE Kept'
  <1>1. /\ lost' = [u \in Users |-> lost[u] + HandsOf(Workers, u)]
        /\ job' = [w \in Workers |-> Idle] /\ UNCHANGED <<spent, ordered>>
    BY DEF Crash, money
  <1>2. job \in [Workers -> Jobs] /\ job' \in [Workers -> Jobs] BY DEF Shapes
  <1>3. \A w \in Workers : Holds(job'[w]) = 0 BY <1>1 DEF Idle, Holds
  <1>4. ASSUME NEW x \in Users
        PROVE  spent[x] = ordered[x] + Hands(job', x) + lost'[x] /\ lost'[x] \in Nat
    <2>1. Hands(job', x) = 0 BY <1>2, <1>3, HandsEmpty
    <2>2. Hands(job, x) \in Nat BY <1>2, HandsNat
    <2>3. lost'[x] = lost[x] + Hands(job, x) BY <1>1, HandsOfAll
    <2>4. spent[x] = ordered[x] + Hands(job, x) + lost[x] /\ ordered[x] \in Nat /\ lost[x] \in Nat
      BY DEF Kept
    <2>. QED BY <2>1, <2>2, <2>3, <2>4
  <1>5. lost' \in [Users -> Nat]
    <2>1. lost' = [x \in Users |-> lost'[x]] BY <1>1
    <2>. QED BY <1>4, <2>1
  <1>. QED BY <1>1, <1>4, <1>5 DEF Kept

LEMMA KeptStep == ASSUME Shapes, Shapes', Named, Kept, [Next]_vars PROVE Kept'
  <1>0. Loop \in Workers BY DEF Workers
  <1>1. CASE Joins \/ Elsewhere \/ UNCHANGED vars
    <2>1. job' = job
      BY <1>1 DEF Joins, MiniAuth, Start, KeepCode, Elsewhere, CodeForCustom, AddToWallet,
         OpenTest, SettleTest, OtherPurchase, vars
    <2>2. UNCHANGED <<spent, ordered, lost>>
      BY <1>1 DEF Joins, MiniAuth, Start, KeepCode, CreateUser, Elsewhere, CodeForCustom, AddToWallet,
         OpenTest, SettleTest, OtherPurchase, money, vars
    <2>. QED BY <2>1, <2>2, KeptQuiet
  <1>2. CASE Presses
    <2>1. PICK w \in Workers, u \in Users :
            \/ PressCustom(w, u)
            \/ \E plan \in Plans, coded \in BOOLEAN : PressPlan(w, u, plan, coded)
      BY <1>2 DEF Presses
    <2>2. /\ UNCHANGED <<spent, ordered, lost>> /\ job[w].at \in {"idle", "admitted"}
          /\ \E plan, price, coded : Takes(w, u, plan, price, coded)
      BY <2>1 DEF PressCustom, PressPlan, money, At
    <2>3. job'[w].at = "priced" /\ \A v \in Workers : v # w => job'[v] = job[v]
      BY <2>2 DEF Takes, Shapes
    <2>4. Holds(job[w]) = 0 /\ Holds(job'[w]) = 0 BY <2>2, <2>3 DEF Holds
    <2>. QED BY <2>2, <2>3, <2>4, KeptGoes
  <1>3. ASSUME NEW w \in Workers, Serves(w) PROVE Kept'
    <2>1. CASE AskOrders(w)
      <3>1. UNCHANGED <<spent, ordered, lost>> /\ job[w].at = "idle"
        BY <2>1 DEF AskOrders, money, Free, At
      <3>2. job'[w].at \in {"admitted", "filling"} /\ \A v \in Workers : v # w => job'[v] = job[v]
        <4>1. CASE Goes(w, "admitted") BY <4>1, AfterGoes
        <4>2. CASE job' = [job EXCEPT ![w].at = "filling", ![w].seen = enabled]
          BY <4>2 DEF Shapes, Jobs
        <4>. QED BY <2>1, <4>1, <4>2 DEF AskOrders
      <3>3. Holds(job[w]) = 0 /\ Holds(job'[w]) = 0 BY <3>1, <3>2 DEF Holds
      <3>. QED BY <3>1, <3>2, <3>3, KeptGoes
    <2>2. CASE StoreRead(w)
      <3>1. UNCHANGED <<spent, ordered, lost>> /\ job[w].at \in {"filling", "overtaken"}
        BY <2>2 DEF StoreRead, money
      <3>2. job'[w].at \in {"idle", "admitted"} /\ \A v \in Workers : v # w => job'[v] = job[v]
        BY <2>2 DEF StoreRead, Ends, Idle, Shapes
      <3>3. Holds(job[w]) = 0 /\ Holds(job'[w]) = 0 BY <3>1, <3>2 DEF Holds
      <3>. QED BY <3>1, <3>2, <3>3, KeptGoes
    <2>3. CASE GiveUp(w)
      <3>1. UNCHANGED <<spent, ordered, lost>> /\ job[w].at \in {"admitted", "priced"} /\ Ends(w)
        BY <2>3 DEF GiveUp, money
      <3>2. Holds(job'[w]) = 0 /\ \A v \in Workers : v # w => job'[v] = job[v] BY <3>1, AfterEnds
      <3>3. Holds(job[w]) = 0 BY <3>1 DEF Holds
      <3>. QED BY <3>1, <3>2, <3>3, KeptGoes
    <2>4. CASE UseDiscount(w)
      <3>1. UNCHANGED <<spent, ordered, lost>> /\ job[w].at = "code" /\ Goes(w, "reward")
        BY <2>4 DEF UseDiscount, money, At
      <3>2. /\ job'[w].at = "reward" /\ job'[w].who = job[w].who /\ job'[w].plan = job[w].plan
            /\ job'[w].price = job[w].price /\ \A v \in Workers : v # w => job'[v] = job[v]
        BY <3>1, AfterGoes
      <3>3. job[w].plan # "custom" BY <3>1 DEF Named
      <3>4. Holds(job'[w]) = Holds(job[w]) BY <3>1, <3>2, <3>3 DEF Holds
      <3>. QED BY <3>1, <3>2, <3>4, KeptGoes
    <2>5. CASE RewardReferrer(w)
      <3>1. UNCHANGED <<spent, ordered, lost>> /\ job[w].at = "reward" BY <2>5 DEF RewardReferrer, At
      <3>2. CASE job[w].plan = "custom"
        <4>1. Ends(w) BY <2>5, <3>1, <3>2 DEF RewardReferrer, At
        <4>2. Holds(job'[w]) = 0 /\ \A v \in Workers : v # w => job'[v] = job[v] BY <4>1, AfterEnds
        <4>3. Holds(job[w]) = 0 BY <3>1, <3>2 DEF Holds
        <4>. QED BY <3>1, <4>2, <4>3, KeptGoes
      <3>3. CASE job[w].plan # "custom"
        <4>1. Goes(w, "order") BY <2>5, <3>1, <3>3 DEF RewardReferrer, At
        <4>2. /\ job'[w].at = "order" /\ job'[w].who = job[w].who /\ job'[w].price = job[w].price
              /\ \A v \in Workers : v # w => job'[v] = job[v]
          BY <4>1, AfterGoes
        <4>3. Holds(job'[w]) = Holds(job[w]) BY <3>1, <3>3, <4>2 DEF Holds
        <4>. QED BY <3>1, <4>2, <4>3, KeptGoes
      <3>. QED BY <3>2, <3>3
    <2>. QED BY <1>3, <2>1, <2>2, <2>3, <2>4, <2>5, KeptDeducts, KeptOrders, KeptRaises DEF Serves
  <1>4. CASE Desk
    <2>1. CASE ToggleRequired
      <3>1. UNCHANGED <<spent, ordered, lost>> /\ job[Loop].at = "idle"
        BY <2>1 DEF ToggleRequired, money, Free, At
      <3>2. CASE job' = job BY <3>1, <3>2, KeptQuiet
      <3>3. CASE Goes(Loop, "releasing")
        <4>1. job'[Loop].at = "releasing" /\ \A v \in Workers : v # Loop => job'[v] = job[v]
          BY <1>0, <3>3, AfterGoes
        <4>2. Holds(job[Loop]) = 0 /\ Holds(job'[Loop]) = 0 BY <3>1, <4>1 DEF Holds
        <4>. QED BY <1>0, <3>1, <4>1, <4>2, KeptGoes
      <3>. QED BY <2>1, <3>2, <3>3 DEF ToggleRequired
    <2>2. CASE ReleaseAll \/ CacheSetting
      <3>1. UNCHANGED <<spent, ordered, lost>> /\ job[Loop].at \in {"releasing", "caching"} /\ Ends(Loop)
        BY <2>2 DEF ReleaseAll, CacheSetting, money, At
      <3>2. Holds(job'[Loop]) = 0 /\ \A v \in Workers : v # Loop => job'[v] = job[v]
        BY <1>0, <3>1, AfterEnds
      <3>3. Holds(job[Loop]) = 0 BY <3>1 DEF Holds
      <3>. QED BY <1>0, <3>1, <3>2, <3>3, KeptGoes
    <2>3. CASE ToggleMinimum \/ EditRule \/ ShowServices \/ Expire
      <3>1. UNCHANGED <<spent, ordered, lost, job>>
        BY <2>3 DEF ToggleMinimum, EditRule, ShowServices, Expire, money
      <3>. QED BY <3>1, KeptQuiet
    <2>4. ASSUME NEW value \in {"on", "off"}, SetOrders(value) PROVE Kept'
      <3>1. UNCHANGED <<spent, ordered, lost>> /\ job[Loop].at = "idle"
        BY <2>4 DEF SetOrders, money, Free, At
      <3>2. ASSUME NEW w \in Workers
            PROVE  job'[w] = job[w] \/ (Holds(job[w]) = 0 /\ Holds(job'[w]) = 0)
        <4>0. job[w] \in Jobs BY DEF Shapes
        <4>1. CASE w = Loop
          <5>1. job'[w] = [Idle EXCEPT !.at = "caching"] BY <2>4, <4>1 DEF SetOrders
          <5>2. job'[w].at = "caching" BY <5>1 DEF Idle
          <5>. QED BY <3>1, <4>1, <5>2 DEF Holds
        <4>2. CASE w # Loop /\ job[w].at = "filling"
          <5>1. job'[w] = [job[w] EXCEPT !.at = "overtaken"] BY <2>4, <4>2 DEF SetOrders
          <5>2. job'[w].at = "overtaken" BY <4>0, <5>1 DEF Jobs
          <5>. QED BY <4>2, <5>2 DEF Holds
        <4>3. CASE w # Loop /\ job[w].at # "filling" BY <2>4, <4>3 DEF SetOrders
        <4>. QED BY <4>1, <4>2, <4>3
      <3>. QED BY <3>1, <3>2, KeptQuiet
    <2>. QED BY <1>4, <2>1, <2>2, <2>3, <2>4, KeptCrashes DEF Desk
  <1>. QED BY <1>1, <1>2, <1>3, <1>4, NextKinds

---------------------------------------------------------------------------
\* Nothing pending while rewards need no purchase

\* A completion adds no pending row.
LEMMA CompletesFewer ==
  ASSUME RefType, NEW u, CompleteReferral(u) \/ UNCHANGED <<ref, locked, wallet>>
  PROVE  Pending' \subseteq Pending
  <1>1. CASE ref' = ref BY <1>1 DEF Pending
  <1>2. CASE ref' = [ref EXCEPT ![u].status = "completed"]
    <2>1. ASSUME NEW v \in Users, ref'[v].status = "pending" PROVE ref[v].status = "pending"
      <3>1. ref[v] \in RefRow BY DEF RefType
      <3>2. v # u
        <4>. SUFFICES ASSUME v = u PROVE FALSE OBVIOUS
        <4>1. ref'[v] = [ref[v] EXCEPT !.status = "completed"] BY <1>2 DEF RefType
        <4>. QED BY <2>1, <3>1, <4>1 DEF RefRow
      <3>3. ref'[v] = ref[v] BY <1>2, <3>2 DEF RefType
      <3>. QED BY <2>1, <3>3
    <2>. QED BY <2>1 DEF Pending
  <1>. QED BY <1>1, <1>2 DEF CompleteReferral

\* The rules, the release and its failure stay, and no row becomes pending.
LEMMA ClearQuiet ==
  ASSUME NonePendingWhenOff, UNCHANGED <<rules, cut>>, job'[Loop].at = job[Loop].at,
         Pending' \subseteq Pending
  PROVE  NonePendingWhenOff'
  BY DEF NonePendingWhenOff, At

\* The loop goes on, and was not in a release.
LEMMA ClearGoes ==
  ASSUME NonePendingWhenOff, UNCHANGED <<rules, cut>>, job[Loop].at # "releasing",
         Pending' \subseteq Pending
  PROVE  NonePendingWhenOff'
  BY DEF NonePendingWhenOff, At

\* The worker is not the loop in a release.
LEMMA ClearWorks ==
  ASSUME Shapes, NonePendingWhenOff, UNCHANGED <<rules, cut>>, NEW w \in Workers,
         job[w].at # "releasing", \A v \in Workers : v # w => job'[v] = job[v],
         Pending' \subseteq Pending
  PROVE  NonePendingWhenOff'
  <1>0. Loop \in Workers BY DEF Workers
  <1>1. CASE w = Loop BY <1>1, ClearGoes
  <1>2. CASE w # Loop BY <1>0, <1>2, ClearQuiet
  <1>. QED BY <1>1, <1>2

LEMMA ClearCreates ==
  ASSUME RuleType, RefType, NonePendingWhenOff, NEW u \in Users, NEW code, CreateUser(u, code),
         UNCHANGED <<rules, cut, job>>
  PROVE  NonePendingWhenOff'
  <1>1. CASE rules.required BY <1>1 DEF NonePendingWhenOff
  <1>2. CASE ~rules.required
    <2>1. ref' = ref \/ \E by, reward : ref' = [ref EXCEPT ![u] =
                          [status |-> "completed", by |-> by, reward |-> reward]]
      BY <1>2 DEF CreateUser
    <2>2. ASSUME NEW v \in Users, ref'[v].status = "pending" PROVE ref[v].status = "pending"
      BY <2>1, <2>2 DEF RefType
    <2>3. Pending' \subseteq Pending BY <2>2 DEF Pending
    <2>. QED BY <2>3, ClearQuiet
  <1>. QED BY <1>1, <1>2

LEMMA ClearStep ==
  ASSUME Shapes, RuleType, Led, NonePendingWhenOff, [Next]_vars PROVE NonePendingWhenOff'
  <1>0. Loop \in Workers /\ RefType BY DEF Workers, Led
  <1>1. CASE Joins
    <2>1. PICK u \in Users :
            MiniAuth(u) \/ \E code \in Users \cup {Nobody} : Start(u, code) \/ KeepCode(u, code)
      BY <1>1 DEF Joins
    <2>2. CASE MiniAuth(u)
      <3>1. CreateUser(u, Nobody) /\ UNCHANGED <<rules, cut, job>> BY <2>2 DEF MiniAuth
      <3>. QED BY <1>0, <3>1, ClearCreates
    <2>3. ASSUME NEW code \in Users \cup {Nobody}, Start(u, code) PROVE NonePendingWhenOff'
      <3>1. (\E c : CreateUser(u, c)) /\ UNCHANGED <<rules, cut, job>> BY <2>3 DEF Start
      <3>. QED BY <1>0, <3>1, ClearCreates
    <2>4. ASSUME NEW code \in Users \cup {Nobody}, KeepCode(u, code) PROVE NonePendingWhenOff'
      <3>1. UNCHANGED <<rules, cut, job, ref>> BY <2>4 DEF KeepCode, money
      <3>. QED BY <3>1, ClearQuiet DEF Pending
    <2>. QED BY <2>1, <2>2, <2>3, <2>4
  <1>2. CASE Presses
    <2>1. PICK w \in Workers, u \in Users :
            \/ PressCustom(w, u)
            \/ \E plan \in Plans, coded \in BOOLEAN : PressPlan(w, u, plan, coded)
      BY <1>2 DEF Presses
    <2>2. /\ UNCHANGED <<rules, cut, ref>> /\ job[w].at \in {"idle", "admitted"}
          /\ \E plan, price, coded : Takes(w, u, plan, price, coded)
      BY <2>1 DEF PressCustom, PressPlan, money, At
    <2>3. \A v \in Workers : v # w => job'[v] = job[v] BY <2>2 DEF Takes, Shapes
    <2>4. Pending' \subseteq Pending BY <2>2 DEF Pending
    <2>. QED BY <2>2, <2>3, <2>4, ClearWorks
  <1>3. CASE Elsewhere
    <2>1. UNCHANGED <<rules, cut, job>>
      BY <1>3 DEF Elsewhere, CodeForCustom, AddToWallet, OpenTest, SettleTest, OtherPurchase
    <2>2. ref' = ref \/ \E u \in Users : CompleteReferral(u)
      BY <1>3 DEF Elsewhere, CodeForCustom, AddToWallet, OpenTest, SettleTest, OtherPurchase, money
    <2>3. Pending' \subseteq Pending
      <3>1. CASE ref' = ref BY <3>1 DEF Pending
      <3>2. CASE \E u \in Users : CompleteReferral(u) BY <1>0, <3>2, CompletesFewer
      <3>. QED BY <2>2, <3>1, <3>2
    <2>. QED BY <2>1, <2>3, ClearQuiet
  <1>4. ASSUME NEW w \in Workers, Serves(w) PROVE NonePendingWhenOff'
    <2>1. CASE Raise(w)
      <3>1. (job[w].at = "releasing" => cut') /\ (cut => cut')
        BY <2>1 DEF Raise, At
      <3>2. UNCHANGED <<rules, ref>> /\ Ends(w) BY <2>1 DEF Raise, money
      <3>3. \A v \in Workers : v # w => job'[v] = job[v] BY <3>2, AfterEnds
      <3>4. Pending' = Pending BY <3>2 DEF Pending
      <3>5. CASE w = Loop BY <3>1, <3>2, <3>4, <3>5 DEF NonePendingWhenOff, At
      <3>6. CASE w # Loop
        <4>1. job'[Loop] = job[Loop] BY <1>0, <3>3, <3>6
        <4>. QED BY <3>1, <3>2, <3>4, <4>1 DEF NonePendingWhenOff, At
      <3>. QED BY <3>5, <3>6
    <2>2. CASE ~Raise(w)
      <3>1. UNCHANGED <<rules, cut>> /\ job[w].at # "releasing"
        BY <1>4, <2>2 DEF Serves, AskOrders, StoreRead, GiveUp, Deduct, UseDiscount, RewardReferrer,
           CreateOrder, At, Free
      <3>2. \A v \in Workers : v # w => job'[v] = job[v]
        BY <1>4, <2>2 DEF Serves, AskOrders, StoreRead, GiveUp, Deduct, UseDiscount, RewardReferrer,
           CreateOrder, Goes, Ends, Shapes
      <3>3. UNCHANGED <<ref, locked, wallet>> \/ ref' = ref \/ CompleteReferral(job[w].who)
        BY <1>4, <2>2 DEF Serves, AskOrders, StoreRead, GiveUp, Deduct, UseDiscount, RewardReferrer,
           CreateOrder, money
      <3>4. Pending' \subseteq Pending
        <4>1. CASE ref' = ref BY <4>1 DEF Pending
        <4>2. CASE CompleteReferral(job[w].who) BY <1>0, <4>2, CompletesFewer
        <4>. QED BY <3>3, <4>1, <4>2
      <3>. QED BY <3>1, <3>2, <3>4, ClearWorks
    <2>. QED BY <2>1, <2>2
  <1>5. CASE Desk
    <2>1. CASE ToggleRequired
      <3>1. rules' = [rules EXCEPT !.required = ~@] BY <2>1 DEF ToggleRequired
      <3>2. CASE rules.required
        <4>1. Goes(Loop, "releasing") BY <2>1, <3>2 DEF ToggleRequired
        <4>2. job'[Loop].at = "releasing" BY <1>0, <4>1, AfterGoes
        <4>. QED BY <4>2 DEF NonePendingWhenOff, At
      <3>3. CASE ~rules.required
        <4>1. rules'.required BY <3>1, <3>3 DEF RuleType
        <4>. QED BY <4>1 DEF NonePendingWhenOff
      <3>. QED BY <3>2, <3>3
    <2>2. CASE ReleaseAll BY <2>2, LedReleases DEF NonePendingWhenOff
    <2>3. CASE ToggleMinimum \/ EditRule
      <3>1. rules'.required = rules.required
        BY <2>3 DEF ToggleMinimum, EditRule, RuleType
      <3>2. UNCHANGED <<ref, job, cut>> BY <2>3 DEF ToggleMinimum, EditRule, money
      <3>. QED BY <3>1, <3>2 DEF NonePendingWhenOff, At, Pending
    <2>4. CASE CacheSetting \/ ShowServices \/ Expire \/ \E value \in {"on", "off"} : SetOrders(value)
      <3>1. UNCHANGED <<rules, cut, ref>>
        BY <2>4 DEF CacheSetting, ShowServices, Expire, SetOrders, money
      <3>2. job' = job \/ job[Loop].at \in {"idle", "caching"}
        BY <2>4 DEF CacheSetting, ShowServices, Expire, SetOrders, Free, At
      <3>3. Pending' \subseteq Pending BY <3>1 DEF Pending
      <3>. QED BY <3>1, <3>2, <3>3, ClearQuiet, ClearGoes
    <2>5. CASE Crash
      <3>1. /\ At(Loop, "releasing") \/ cut => cut'
            /\ UNCHANGED <<rules, ref>>
        BY <2>5 DEF Crash, money
      <3>2. Pending' = Pending BY <3>1 DEF Pending
      <3>. QED BY <3>1, <3>2 DEF NonePendingWhenOff
    <2>. QED BY <1>5, <2>1, <2>2, <2>3, <2>4, <2>5 DEF Desk
  <1>6. CASE UNCHANGED vars
    <2>1. UNCHANGED <<rules, cut, ref, job>> BY <1>6 DEF vars, money
    <2>. QED BY <2>1, ClearQuiet DEF Pending
  <1>. QED BY <1>1, <1>2, <1>3, <1>4, <1>5, <1>6, NextKinds

---------------------------------------------------------------------------
\* The books: what the balances rest on.
Books ==
  PeopleType /\ RuleType /\ BoundType /\ Named /\ Led /\ Kept /\ NonePendingWhenOff

LEMMA InitBooks == Init => Books
  <1>. SUFFICES ASSUME Init PROVE Books
    OBVIOUS
  <1>1. Shapes BY InitInv DEF IInv
  <1>2. PeopleType BY DEF Init, PeopleType
  <1>3. RuleType
    <2>1. LockAmount \in Rewards /\ MiniMinimum \in Minimums BY ShopAssumption DEF ShopAssumption
    <2>. QED BY <2>1 DEF Init, RuleType
  <1>4. BoundType
    <2>1. MaxOrders \in Nat /\ MaxSwitches \in Nat /\ MaxTrouble \in Nat
      BY ShopAssumption DEF ShopAssumption
    <2>2. cut = FALSE /\ orders = 0 /\ switches = 0 /\ trouble = 0 BY DEF Init
    <2>3. 0 \in 0..MaxOrders /\ 0 \in 0..MaxSwitches /\ 0 \in 0..MaxTrouble BY <2>1
    <2>4. cut \in BOOLEAN BY <2>2
    <2>. QED BY <2>2, <2>3, <2>4, Zenon DEF BoundType
  <1>5. \A w \in Workers : job[w] = Idle BY DEF Init
  <1>6. Named BY <1>5 DEF Named, Buying, Idle
  <1>7. ref = [u \in Users |-> NoRef] /\ NoRef \in RefRow
    <2>1. NoRef \in RefRow BY DEF NoRef, RefRow
    <2>. QED BY <2>1 DEF Init
  <1>8. RefType /\ ref \in [Users -> RefRow] /\ \A u \in Users : ref[u].status = "none"
    <2>1. RefType BY <1>7 DEF RefType
    <2>2. \A u \in Users : ref[u].status = "none" BY <1>7 DEF NoRef
    <2>. QED BY <2>1, <2>2 DEF RefType
  <1>9. Pending = {} /\ Completed = {} BY <1>8 DEF Pending, Completed
  <1>10. ASSUME NEW u \in Users PROVE Total(ref, "pending", u) = 0 /\ Total(ref, "completed", u) = 0
    <2>1. RewardsOf({}, u) = 0
      <3>1. {v \in {} : ref[v].by = u} = {} OBVIOUS
      <3>. QED BY <3>1, SumNothing DEF RewardsOf
    <2>. QED BY <1>8, <1>9, <2>1, RewardsAreTotals
  <1>11. Led
    <2>1. WalletType BY DEF Init, WalletType
    <2>2. Invited BY <1>8 DEF Invited
    <2>3. Owed BY <1>10 DEF Owed, Init
    <2>4. Paid BY <1>10 DEF Paid, Init
    <2>. QED BY <1>8, <2>1, <2>2, <2>3, <2>4 DEF Led
  <1>12. Kept
    <2>1. job \in [Workers -> Jobs] BY <1>1 DEF Shapes
    <2>2. \A w \in Workers : Holds(job[w]) = 0 BY <1>5 DEF Idle, Holds
    <2>3. \A u \in Users : Hands(job, u) = 0 BY <2>1, <2>2, HandsEmpty
    <2>. QED BY <2>3 DEF Init, Kept
  <1>13. NonePendingWhenOff BY <1>9 DEF NonePendingWhenOff
  <1>. QED BY <1>2, <1>3, <1>4, <1>6, <1>11, <1>12, <1>13 DEF Books

LEMMA StepBooks == IInv /\ IInv' /\ Books /\ [Next]_vars => Books'
  <1>. SUFFICES ASSUME IInv, IInv', Books, [Next]_vars PROVE Books'
    OBVIOUS
  <1>1. Shapes /\ Shapes' BY DEF IInv
  <1>2. PeopleType /\ RuleType /\ BoundType /\ Named /\ Led /\ Kept /\ NonePendingWhenOff BY DEF Books
  <1>3. PeopleType' BY <1>2, PeopleStep
  <1>4. RuleType' BY <1>2, RuleStep
  <1>5. BoundType' BY <1>2, BoundStep
  <1>6. Named' BY <1>1, <1>2, NamedStep
  <1>7. Led' BY <1>1, <1>2, LedStep
  <1>8. Kept' BY <1>1, <1>2, KeptStep
  <1>9. NonePendingWhenOff' BY <1>1, <1>2, ClearStep
  <1>. QED BY <1>3, <1>4, <1>5, <1>6, <1>7, <1>8, <1>9 DEF Books

LEMMA BooksInvariance == Spec => []Books
  BY InitBooks, StepBooks, Invariance, PTL DEF Spec

\* Every table and every handler holds what the code can put there.
THEOREM TypeCorrect == Spec => []TypeOK
  <1>1. IInv /\ Books => TypeOK
    <2>. SUFFICES ASSUME IInv, Books PROVE TypeOK
      OBVIOUS
    <2>1. Shapes BY DEF IInv
    <2>2. PeopleType /\ RuleType /\ BoundType /\ RefType BY DEF Books, Led
    <2>3. MoneyType BY DEF Books, Led, WalletType, Kept, MoneyType
    <2>. QED BY <2>1, <2>2, <2>3, TypePieces
  <1>. QED BY <1>1, Invariance, BooksInvariance, PTL

\* For any buyers and threads, and any order of joins, purchases, switches, exceptions
\* and crashes: a wallet holds what was paid in and what rewards were completed, less what
\* was spent; the locked wallet is the pending rewards; and every toman deduct_from_wallet
\* took is in an order, in the hands of one worker, or was lost to a failure after it.
THEOREM BooksAlwaysBalance == Spec => []BooksBalance
  <1>1. IInv /\ Books => BooksBalance
    <2>. SUFFICES ASSUME IInv, Books, NEW u \in Users
                  PROVE  /\ wallet[u] + spent[u] = charged[u] + RewardsOf(Completed, u)
                         /\ locked[u] = RewardsOf(Pending, u)
                         /\ spent[u] = ordered[u] + HandsOf(Workers, u) + lost[u]
      BY DEF BooksBalance
    <2>1. Shapes /\ RefType BY DEF IInv, Books, Led
    <2>2. wallet[u] + spent[u] = charged[u] + RewardsOf(Completed, u)
      BY <2>1, RewardsAreTotals DEF Books, Led, Paid
    <2>3. locked[u] = RewardsOf(Pending, u) BY <2>1, RewardsAreTotals DEF Books, Led, Owed
    <2>4. spent[u] = ordered[u] + HandsOf(Workers, u) + lost[u]
      BY <2>1, HandsOfAll DEF Books, Kept
    <2>. QED BY <2>2, <2>3, <2>4
  <1>. QED BY <1>1, Invariance, BooksInvariance, PTL

\* While the setting asks for no purchase, no reward is left locked, except during the
\* switch and after a release that failed: release_all_pending_referrals passes over no
\* row, because the locked wallet of an inviter covers all his pending rewards.
THEOREM NoneLeftPending == Spec => []NonePendingWhenOff
  <1>1. Books => NonePendingWhenOff BY DEF Books
  <1>. QED BY <1>1, BooksInvariance, PTL

=============================================================================
