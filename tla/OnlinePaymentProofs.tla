------------------------ MODULE OnlinePaymentProofs ------------------------
(***************************************************************************)
(* What the finalize functions guarantee whatever the number of payments,  *)
(* callers, faults and crashes, alone or mixed with the atomic functions   *)
(* on the same tables.  The counting argument: a claim is won only on a    *)
(* pending row, so every claim beyond the first is paid for by a time the  *)
(* row was put back too early, every such time by an exception or a start  *)
(* of the process, and every order is made under a claim of its own.       *)
(***************************************************************************)
EXTENDS OnlinePayment, FiniteSetTheorems, TLAPS

EitherNext == Next \/ AtomicNext

(* Who may still make the order of p under the claim it has won: whoever   *)
(* is about to, and, as long as there is no order, whoever has failed to   *)
(* and will put the row back.                                              *)
Claimants(p) ==
  {w \in Workers : /\ cur[w] = p
                   /\ \/ pc[w] = "make"
                      \/ pc[w] = "release" /\ orders[p] = 0}

(* Who will put the row of p back, and who has made the order and not yet  *)
(* charged the code.                                                       *)
Releasers(p) == {w \in Workers : pc[w] = "release" /\ cur[w] = p}
Uncharged(p) == {w \in Workers : pc[w] \in {"audit", "mark", "discount"} /\ cur[w] = p}

(* A caller that is not idle works on a payment whose row was created.     *)
Busy ==
  /\ \A w \in Workers : pc[w] # "idle" => cur[w] \in Payments /\ row[cur[w]] # "absent"
  /\ \A p \in batch : row[p] # "absent"

Confirmed ==
  /\ \A w \in Workers : pc[w] \in Finalizing \cup {"answered"} => gateway[cur[w]]
  /\ \A p \in Payments : row[p] \in {"processing", "paid"} => gateway[p]

Made ==
  \A w \in Workers :
    pc[w] \in {"audit", "mark", "discount", "referral"} => orders[cur[w]] > 0

ServiceOnly ==
  \A w \in Workers :
    pc[w] \in {"audit", "discount", "referral"} => KindOf[cur[w]] # "wallet_charge"

(* A row that says paid stands for something the buyer got, so the screens *)
(* that answer "already confirmed" are right.                              *)
PaidRowHonoured == \A p \in Payments : row[p] = "paid" => orders[p] > 0

(* A buyer's referrer is rewarded only for a paid purchase of a service; a *)
(* charge of the wallet is not one.                                        *)
RewardNeedsPurchase ==
  \A u \in Users : referral[u] = "completed" =>
    \E p \in Payments : /\ OwnerOf[p] = u /\ KindOf[p] # "wallet_charge"
                        /\ orders[p] > 0 /\ gateway[p]

(* Until its row is put back, a payment being finalized is not pending.    *)
Held ==
  \A w \in Workers :
    pc[w] \in Finalizing /\ lapsed[cur[w]] = 0 => row[cur[w]] \in {"processing", "paid"}

(* What the lapses and the claim in force allow a payment.                 *)
Room(p) == lapsed[p] + (IF row[p] \in {"processing", "paid"} THEN 1 ELSE 0)

OrdersCounted ==
  \A p \in Payments : orders[p] + Cardinality(Claimants(p)) <= Room(p)

LapsesCounted ==
  \A p \in Payments :
    lapsed[p] + Cardinality(Releasers(p)) + (IF phase = "up" THEN 0 ELSE 1)
      <= faults + crashes + 1

ChargesCounted ==
  \A p \in Payments : redeemed[p] + Cardinality(Uncharged(p)) <= orders[p]

(* The uses the code has lost are the rows of discount_usages, of which    *)
(* there are finitely many.                                                *)
Recorded == IsFiniteSet(UsagesOf(Payments)) /\ CodeConserved

(* What is said of the callers and rows one by one.                        *)
Safe ==
  /\ Confirmed /\ HonouredOnlyIfPaid
  /\ Made /\ PaidRowHonoured
  /\ ServiceOnly
  /\ Held /\ OneWinner

IInv ==
  /\ TypeOK /\ Busy
  /\ Safe /\ RewardNeedsPurchase
  /\ OrdersCounted /\ LapsesCounted
  /\ ChargesCounted /\ Recorded

-----------------------------------------------------------------------------
USE DEF Workers

(* Every variable keeps its type, and a caller that is not idle works on a *)
(* payment.                                                                *)
LEMMA TypingInit == Init => TypeOK /\ Busy
BY BoundsAssumption DEF Init, TypeOK, Busy, NoPayment

LEMMA TypingStep == TypeOK /\ Busy /\ [EitherNext]_vars => TypeOK' /\ Busy'
<1> SUFFICES ASSUME TypeOK, Busy, [EitherNext]_vars
             PROVE  TypeOK' /\ Busy'
  OBVIOUS
<1> USE DEF TypeOK, Busy, rowVars, shopVars, taskVars, Kinds, Finalizing, NoPayment
<1>1. ASSUME NEW p \in Payments, Create(p) \/ Pay(p) \/ Age(p) \/ Expire(p)
      PROVE  TypeOK' /\ Busy'
  <2>1. TypeOK'
    BY <1>1 DEF Create, Pay, Age, Expire
  <2>2. Busy'
    BY <1>1 DEF Create, Pay, Age, Expire
  <2> QED
    BY <2>1, <2>2
<1>2. ASSUME PollFetch
      PROVE  TypeOK' /\ Busy'
  BY <1>2 DEF PollFetch, Oldest, Pending
<1>3. ASSUME PollNext
      PROVE  TypeOK' /\ Busy'
  BY <1>3 DEF PollNext
<1>4. ASSUME NEW w \in Workers, NEW p \in Payments, Look(w, p)
      PROVE  TypeOK' /\ Busy'
  BY <1>4 DEF Look
<1>5. ASSUME NEW w \in Workers, AnswerPaid(w) \/ AnswerUnpaid(w)
      PROVE  TypeOK' /\ Busy'
  BY <1>5 DEF AnswerPaid, AnswerUnpaid, GoTo, Done
<1>6. ASSUME Crash \/ Boot
      PROVE  TypeOK' /\ Busy'
  BY <1>6 DEF Crash, Boot
<1>7. ASSUME Recover
      PROVE  TypeOK' /\ Busy'
  BY <1>7 DEF Recover, Lapsed
<1>8. ASSUME NEW w \in Workers, Claim(w) \/ ClaimLost(w) \/ AtomicLost(w)
      PROVE  TypeOK' /\ Busy'
  BY <1>8 DEF Claim, ClaimLost, AtomicLost, GoTo, Done
<1>9. ASSUME NEW w \in Workers, Make(w) \/ Audit(w)
      PROVE  TypeOK' /\ Busy'
  BY <1>9 DEF Make, Audit, GoTo, Done
<1>10. ASSUME NEW w \in Workers, Mark(w)
      PROVE  TypeOK' /\ Busy'
  <2>1. TypeOK'
    BY <1>10 DEF Mark, GoTo, Done
  <2>2. Busy'
    BY <1>10 DEF Mark, GoTo, Done
  <2> QED
    BY <2>1, <2>2
<1>11. ASSUME NEW w \in Workers, Redeem(w) \/ SkipDiscount(w)
      PROVE  TypeOK' /\ Busy'
  BY <1>11 DEF Redeem, SkipDiscount, UseLeft, GoTo
<1>12. ASSUME NEW w \in Workers, Referral(w)
      PROVE  TypeOK' /\ Busy'
  <2>1. TypeOK'
    BY <1>12 DEF Referral, Done
  <2>2. Busy'
    BY <1>12 DEF Referral, Done
  <2> QED
    BY <2>1, <2>2
<1>13. ASSUME NEW w \in Workers, Raise(w) \/ ReleaseRaises(w)
      PROVE  TypeOK' /\ Busy'
  BY <1>13, BoundsAssumption DEF Raise, ReleaseRaises, GoTo, Done
<1>14. ASSUME NEW w \in Workers, Release(w)
      PROVE  TypeOK' /\ Busy'
  BY <1>14 DEF Release, Lapsed, Done
<1>15. ASSUME NEW w \in Workers, FinalizeAtomic(w)
      PROVE  TypeOK' /\ Busy'
  <2>1. TypeOK'
    BY <1>15 DEF FinalizeAtomic, UseLeft, GoTo, Done
  <2>2. Busy'
    BY <1>15 DEF FinalizeAtomic, UseLeft, GoTo, Done
  <2> QED
    BY <2>1, <2>2
<1>16. ASSUME UNCHANGED vars
      PROVE  TypeOK' /\ Busy'
  BY <1>16 DEF vars
<1> HIDE DEF TypeOK, Busy
<1> QED
  BY <1>1, <1>2, <1>3, <1>4, <1>5, <1>6, <1>7, <1>8, <1>9, <1>10, <1>11, <1>12, <1>13, <1>14, <1>15, <1>16
     DEF EitherNext, Next, AtomicNext, Environment, PayWithOnline, CbuildPayOnline,
         ChargePayOnline, ApiOrderOnlineCreate, ApiWalletOnlineCreate, Finalize

(* The invariants about one caller, one row, or two callers at a time.     *)
LEMMA SafeStep == TypeOK /\ Busy /\ Safe /\ [EitherNext]_vars => Safe'
<1> SUFFICES ASSUME TypeOK, Busy, Safe, [EitherNext]_vars
             PROVE  Safe'
  OBVIOUS
<1> USE DEF TypeOK, Busy, Safe, Confirmed, HonouredOnlyIfPaid, Made, PaidRowHonoured, ServiceOnly,
           Held, OneWinner, rowVars, shopVars, taskVars, Finalizing, NoPayment
<1>1. ASSUME NEW p \in Payments, Create(p) \/ Pay(p) \/ Age(p) \/ Expire(p)
      PROVE  Safe'
  BY <1>1 DEF Create, Pay, Age, Expire
<1>2. ASSUME PollFetch
      PROVE  Safe'
  BY <1>2 DEF PollFetch, Oldest, Pending
<1>3. ASSUME PollNext
      PROVE  Safe'
  BY <1>3 DEF PollNext
<1>4. ASSUME NEW w \in Workers, NEW p \in Payments, Look(w, p)
      PROVE  Safe'
  BY <1>4 DEF Look
<1>5. ASSUME NEW w \in Workers, AnswerPaid(w) \/ AnswerUnpaid(w)
      PROVE  Safe'
  BY <1>5 DEF AnswerPaid, AnswerUnpaid, GoTo, Done
<1>6. ASSUME Crash \/ Boot
      PROVE  Safe'
  BY <1>6 DEF Crash, Boot
<1>7. ASSUME Recover
      PROVE  Safe'
  BY <1>7 DEF Recover, Lapsed, TooEarly
<1>8. ASSUME NEW w \in Workers, Claim(w) \/ ClaimLost(w) \/ AtomicLost(w)
      PROVE  Safe'
  BY <1>8 DEF Claim, ClaimLost, AtomicLost, GoTo, Done
<1>9. ASSUME NEW w \in Workers, Make(w) \/ Audit(w)
      PROVE  Safe'
  BY <1>9 DEF Make, Audit, GoTo, Done
<1>10. ASSUME NEW w \in Workers, Mark(w)
      PROVE  Safe'
  BY <1>10, PaymentsAssumption DEF Mark, GoTo, Done
<1>11. ASSUME NEW w \in Workers, Redeem(w) \/ SkipDiscount(w)
      PROVE  Safe'
  BY <1>11 DEF Redeem, SkipDiscount, GoTo
<1>12. ASSUME NEW w \in Workers, Referral(w)
      PROVE  Safe'
  BY <1>12, PaymentsAssumption DEF Referral, Done
<1>13. ASSUME NEW w \in Workers, Raise(w) \/ ReleaseRaises(w)
      PROVE  Safe'
  BY <1>13, BoundsAssumption DEF Raise, ReleaseRaises, GoTo, Done
<1>14. ASSUME NEW w \in Workers, Release(w)
      PROVE  Safe'
  BY <1>14 DEF Release, Lapsed, TooEarly, Done
<1>15. ASSUME NEW w \in Workers, FinalizeAtomic(w)
      PROVE  Safe'
  <2>1. Confirmed'
    BY <1>15 DEF FinalizeAtomic, GoTo, Done
  <2>2. HonouredOnlyIfPaid'
    BY <1>15 DEF FinalizeAtomic, GoTo, Done
  <2>3. Made'
    BY <1>15 DEF FinalizeAtomic, GoTo, Done
  <2>4. PaidRowHonoured'
    BY <1>15 DEF FinalizeAtomic, GoTo, Done
  <2>5. ServiceOnly'
    BY <1>15 DEF FinalizeAtomic, GoTo, Done
  <2>6. Held'
    BY <1>15 DEF FinalizeAtomic, GoTo, Done
  <2>7. OneWinner'
    BY <1>15 DEF FinalizeAtomic, GoTo, Done
  <2> QED
    BY <2>1, <2>2, <2>3, <2>4, <2>5, <2>6, <2>7
<1>16. ASSUME UNCHANGED vars
      PROVE  Safe'
  BY <1>16 DEF vars
<1> HIDE DEF TypeOK, Busy, Safe
<1> QED
  BY <1>1, <1>2, <1>3, <1>4, <1>5, <1>6, <1>7, <1>8, <1>9, <1>10, <1>11, <1>12, <1>13, <1>14, <1>15, <1>16
     DEF EitherNext, Next, AtomicNext, Environment, PayWithOnline, CbuildPayOnline,
         ChargePayOnline, ApiOrderOnlineCreate, ApiWalletOnlineCreate, Finalize

(* A reward is released only by a caller that serves a paid purchase, and  *)
(* neither orders nor the gateway's answer are ever taken back.            *)
LEMMA RewardStep ==
  TypeOK /\ Busy /\ Safe /\ RewardNeedsPurchase /\ [EitherNext]_vars => RewardNeedsPurchase'
<1> SUFFICES ASSUME TypeOK, Busy, Safe, RewardNeedsPurchase, [EitherNext]_vars,
                    NEW u \in Users, referral'[u] = "completed"
             PROVE  \E p \in Payments : /\ OwnerOf[p] = u /\ KindOf[p] # "wallet_charge"
                                        /\ orders'[p] > 0 /\ gateway'[p]
  BY DEF RewardNeedsPurchase
<1> DEFINE Kept == \A p \in Payments : /\ orders[p] > 0 => orders'[p] > 0
                                       /\ gateway[p] => gateway'[p]
<1> USE DEF TypeOK, Busy, rowVars, shopVars, taskVars
<1>1. SUFFICES Kept /\ \/ referral[u] = "completed"
                       \/ \E w \in Workers : Referral(w) /\ OwnerOf[cur[w]] = u
  <2>1. CASE referral[u] = "completed"
    BY <1>1, <2>1 DEF RewardNeedsPurchase
  <2>2. ASSUME NEW w \in Workers, Referral(w), OwnerOf[cur[w]] = u
        PROVE  /\ cur[w] \in Payments /\ KindOf[cur[w]] # "wallet_charge"
               /\ orders[cur[w]] > 0 /\ gateway[cur[w]]
    BY <2>2 DEF Referral, Safe, Made, Confirmed, ServiceOnly, Finalizing
  <2> QED
    BY <1>1, <2>1, <2>2
<1>2. ASSUME NEW p \in Payments, Create(p) \/ Pay(p) \/ Age(p) \/ Expire(p)
      PROVE  Kept /\ referral' = referral
  BY <1>2 DEF Create, Pay, Age, Expire
<1>3. CASE PollFetch \/ PollNext \/ Crash \/ Boot \/ Recover
  BY <1>3 DEF PollFetch, PollNext, Crash, Boot, Recover
<1>4. ASSUME NEW w \in Workers,
             \/ \E p \in Payments : Look(w, p)
             \/ AnswerPaid(w) \/ AnswerUnpaid(w) \/ Claim(w) \/ ClaimLost(w)
             \/ Audit(w) \/ Mark(w) \/ Redeem(w) \/ SkipDiscount(w)
             \/ Raise(w) \/ Release(w) \/ ReleaseRaises(w) \/ AtomicLost(w)
      PROVE  Kept /\ referral' = referral
  BY <1>4 DEF Look, AnswerPaid, AnswerUnpaid, Claim, ClaimLost, Audit, Mark, Redeem,
              SkipDiscount, Raise, Release, ReleaseRaises, AtomicLost
<1>5. ASSUME NEW w \in Workers, Make(w) \/ FinalizeAtomic(w)
      PROVE  Kept /\ referral' = referral
  BY <1>5 DEF Make, FinalizeAtomic
<1>6. ASSUME NEW w \in Workers, Referral(w)
      PROVE  Kept /\ (referral'[u] = referral[u] \/ OwnerOf[cur[w]] = u)
  BY <1>6 DEF Referral
<1>7. CASE UNCHANGED vars
  BY <1>7 DEF vars
<1> HIDE DEF TypeOK, Busy, Kept
<1> QED
  BY <1>2, <1>3, <1>4, <1>5, <1>6, <1>7
     DEF EitherNext, Next, AtomicNext, Environment, PayWithOnline, CbuildPayOnline,
         ChargePayOnline, ApiOrderOnlineCreate, ApiWalletOnlineCreate, Finalize

(* The callers of one kind are finitely many.                              *)
LEMMA CallersFinite ==
  ASSUME NEW S \in SUBSET Workers
  PROVE  IsFiniteSet(S) /\ Cardinality(S) \in Nat
BY WorkersAssumption, FS_Union, FS_Subset, FS_CardinalityType

(* Every order is made under a claim of its own, and a claim that is lost  *)
(* with its order made is a lapse.                                         *)
LEMMA OrdersStep ==
  TypeOK /\ Busy /\ Safe /\ OrdersCounted /\ [EitherNext]_vars => OrdersCounted'
<1> SUFFICES ASSUME TypeOK, Busy, Safe, OrdersCounted, [EitherNext]_vars, NEW q \in Payments
             PROVE  orders'[q] + Cardinality(Claimants(q)') <= Room(q)'
  BY DEF OrdersCounted
<1> DEFINE Goal == orders'[q] + Cardinality(Claimants(q)') <= Room(q)'
           Less == Claimants(q)' \subseteq Claimants(q)
<1>1. /\ IsFiniteSet(Claimants(q)) /\ Cardinality(Claimants(q)) \in Nat
      /\ IsFiniteSet(Claimants(q)') /\ Cardinality(Claimants(q)') \in Nat
  BY CallersFinite DEF Claimants
<1>2. orders[q] + Cardinality(Claimants(q)) <= Room(q) /\ orders[q] \in Nat
  BY DEF OrdersCounted, TypeOK
<1>3. Room(q) \in Nat
  BY DEF Room, TypeOK
<1>4. ASSUME Less, orders'[q] = orders[q], Room(q)' >= Room(q), Room(q)' \in Nat
      PROVE  Goal
  <2>1. Cardinality(Claimants(q)') <= Cardinality(Claimants(q))
    BY <1>1, <1>4, FS_Subset
  <2> QED
    BY <2>1, <1>1, <1>2, <1>3, <1>4
<1>5. ASSUME Less, orders'[q] = orders[q] + 1, Room(q)' = Room(q) + 1
      PROVE  Goal
  <2>1. Cardinality(Claimants(q)') <= Cardinality(Claimants(q))
    BY <1>1, <1>5, FS_Subset
  <2> QED
    BY <2>1, <1>1, <1>2, <1>3, <1>5
<1>6. ASSUME NEW w \in Workers, Claim(w), cur[w] = q
      PROVE  Goal
  <2>1. orders'[q] = orders[q] /\ Room(q)' = Room(q) + 1
    BY <1>6 DEF Claim, Room, TypeOK, shopVars
  <2>2. w \notin Claimants(q) /\ Claimants(q)' = Claimants(q) \cup {w}
    BY <1>6, <2>1 DEF Claim, GoTo, Claimants, TypeOK
  <2>3. Cardinality(Claimants(q)') = Cardinality(Claimants(q)) + 1
    BY <2>2, <1>1, FS_AddElement
  <2> QED
    BY <2>1, <2>3, <1>1, <1>2, <1>3
<1>7. ASSUME NEW w \in Workers, Make(w), cur[w] = q
      PROVE  Goal
  <2>1. orders'[q] = orders[q] + 1 /\ Room(q)' = Room(q)
    BY <1>7 DEF Make, Room, TypeOK, rowVars
  <2>2. w \in Claimants(q) /\ Claimants(q)' \subseteq Claimants(q) \ {w}
    BY <1>7, <2>1, <1>2 DEF Make, GoTo, Claimants, TypeOK
  <2>3. /\ IsFiniteSet(Claimants(q) \ {w})
        /\ Cardinality(Claimants(q) \ {w}) = Cardinality(Claimants(q)) - 1
    BY <2>2, <1>1, FS_RemoveElement
  <2>4. Cardinality(Claimants(q)') <= Cardinality(Claimants(q) \ {w})
    BY <2>2, <2>3, FS_Subset
  <2> QED
    BY <2>1, <2>3, <2>4, <1>1, <1>2, <1>3
<1>8. ASSUME orders'[q] = 0, Claimants(q)' = {}, Room(q)' \in Nat
      PROVE  Goal
  <2>1. Cardinality(Claimants(q)') = 0
    BY <1>8, FS_EmptySet
  <2> QED
    BY <2>1, <1>8
<1> DEFINE Frame == Less /\ orders'[q] = orders[q] /\ Room(q)' >= Room(q) /\ Room(q)' \in Nat
<1> USE DEF TypeOK, Claimants, Room, rowVars, shopVars, taskVars
<1>9. ASSUME NEW p \in Payments, Create(p) \/ Pay(p) \/ Age(p) \/ Expire(p)
      PROVE  Frame
  BY <1>9 DEF Create, Pay, Age, Expire
<1>10. ASSUME PollFetch \/ PollNext \/ Crash \/ Boot
       PROVE  Frame
  <2>1. CASE PollFetch \/ Boot
    BY <2>1 DEF PollFetch, Boot
  <2>2. CASE PollNext
    BY <2>2 DEF PollNext
  <2>3. CASE Crash
    BY <2>3 DEF Crash
  <2> QED
    BY <1>10, <2>1, <2>2, <2>3
<1>11. ASSUME Recover
       PROVE  Goal
  <2>1. CASE row[q] # "processing" \/ TooEarly(q, {})
    <3>1. Frame
      BY <1>11, <2>1 DEF Recover, Lapsed
    <3> QED
      BY <3>1, <1>4
  <2>2. CASE row[q] = "processing" /\ ~TooEarly(q, {})
    <3>1. orders'[q] = 0 /\ Claimants(q)' = {} /\ Room(q)' \in Nat
      BY <1>11, <2>2 DEF Recover, Lapsed, TooEarly, Finalizing
    <3> QED
      BY <3>1, <1>8
  <2> QED
    BY <2>1, <2>2
<1>12. ASSUME NEW w \in Workers,
              \/ \E p \in Payments : Look(w, p)
              \/ AnswerPaid(w) \/ AnswerUnpaid(w) \/ ClaimLost(w) \/ AtomicLost(w)
              \/ ReleaseRaises(w)
       PROVE  Frame
  BY <1>12 DEF Look, AnswerPaid, AnswerUnpaid, ClaimLost, AtomicLost, ReleaseRaises, GoTo, Done
<1>13. ASSUME NEW w \in Workers, Audit(w) \/ Mark(w) \/ Redeem(w) \/ SkipDiscount(w) \/ Referral(w)
       PROVE  Frame
  BY <1>13 DEF Audit, Mark, Redeem, SkipDiscount, Referral, GoTo, Done
<1>14. ASSUME NEW w \in Workers, Claim(w) \/ Make(w), cur[w] # q
       PROVE  Frame
  BY <1>14 DEF Claim, Make, GoTo
<1>15. ASSUME NEW w \in Workers, Raise(w)
       PROVE  Frame
  <2>1. pc[w] \in {"audit", "mark", "discount", "referral"} => orders[cur[w]] > 0
    BY DEF Safe, Made
  <2>2. pc[w] \in {"make", "audit", "mark", "discount", "referral"} /\ cur[w] \in Payments
    BY <1>15, BoundsAssumption DEF Raise, Finalizing, Busy
  <2> QED
    BY <1>15, <2>1, <2>2 DEF Raise, GoTo
<1>16. ASSUME NEW w \in Workers, Release(w)
       PROVE  Goal
  <2>1. cur[w] \in Payments
    BY <1>16 DEF Release, Busy
  <2>2. CASE cur[w] # q \/ TooEarly(q, {w})
    <3>1. Frame
      BY <1>16, <2>1, <2>2 DEF Release, Lapsed, Done
    <3> QED
      BY <3>1, <1>4
  <2>3. CASE cur[w] = q /\ ~TooEarly(q, {w})
    <3>1. orders'[q] = 0 /\ Claimants(q)' = {} /\ Room(q)' \in Nat
      BY <1>16, <2>3 DEF Release, Lapsed, TooEarly, Done, Finalizing, NoPayment
    <3> QED
      BY <3>1, <1>8
  <2> QED
    BY <2>2, <2>3
<1>17. ASSUME NEW w \in Workers, FinalizeAtomic(w)
       PROVE  Goal
  <2>1. CASE cur[w] # q
    <3>1. Frame
      BY <1>17, <2>1 DEF FinalizeAtomic, GoTo, Done
    <3> QED
      BY <3>1, <1>4
  <2>2. CASE cur[w] = q
    <3>1. Less /\ orders'[q] = orders[q] + 1 /\ Room(q)' = Room(q) + 1
      BY <1>17, <2>2 DEF FinalizeAtomic, GoTo, Done
    <3> QED
      BY <3>1, <1>5
  <2> QED
    BY <2>1, <2>2
<1>18. ASSUME UNCHANGED vars
       PROVE  Frame
  BY <1>18 DEF vars
<1> HIDE DEF TypeOK, Claimants, Room, Less, Goal
<1>19. Goal
  BY <1>4, <1>6, <1>7, <1>9, <1>10, <1>11, <1>12, <1>13, <1>14, <1>15, <1>16, <1>17, <1>18
     DEF EitherNext, Next, AtomicNext, Environment, PayWithOnline, CbuildPayOnline,
         ChargePayOnline, ApiOrderOnlineCreate, ApiWalletOnlineCreate, Finalize
<1> QED
  BY <1>19 DEF Goal

(* A row is put back by a caller that has met an exception, or once by     *)
(* each start of the process.                                              *)
LEMMA LapsesStep ==
  TypeOK /\ Busy /\ LapsesCounted /\ [EitherNext]_vars => LapsesCounted'
<1> SUFFICES ASSUME TypeOK, Busy, LapsesCounted, [EitherNext]_vars, NEW q \in Payments
             PROVE  lapsed'[q] + Cardinality(Releasers(q)') + (IF phase' = "up" THEN 0 ELSE 1)
                      <= faults' + crashes' + 1
  BY DEF LapsesCounted
<1> DEFINE Start == IF phase = "up" THEN 0 ELSE 1
           Goal  == lapsed'[q] + Cardinality(Releasers(q)') + Start' <= faults' + crashes' + 1
           Less  == Releasers(q)' \subseteq Releasers(q)
           Paid  == /\ lapsed'[q] \in Nat /\ faults' \in Nat /\ crashes' \in Nat
                    /\ lapsed'[q] + Start' + faults + crashes
                         <= lapsed[q] + Start + faults' + crashes'
<1>1. /\ IsFiniteSet(Releasers(q)) /\ Cardinality(Releasers(q)) \in Nat
      /\ IsFiniteSet(Releasers(q)') /\ Cardinality(Releasers(q)') \in Nat
  BY CallersFinite DEF Releasers
<1>2. /\ lapsed[q] + Cardinality(Releasers(q)) + Start <= faults + crashes + 1
      /\ lapsed[q] \in Nat /\ faults \in Nat /\ crashes \in Nat
  BY DEF LapsesCounted, TypeOK
<1>3. Start \in Nat /\ Start' \in Nat
  OBVIOUS
<1> HIDE DEF Start
<1>4. ASSUME Less, Paid
      PROVE  Goal
  <2>1. Cardinality(Releasers(q)') <= Cardinality(Releasers(q))
    BY <1>1, <1>4, FS_Subset
  <2> QED
    BY <2>1, <1>1, <1>2, <1>3, <1>4
<1>5. ASSUME NEW w \in Workers, Raise(w)
      PROVE  Goal
  <2>1. Start' = Start /\ lapsed'[q] = lapsed[q] /\ faults' = faults + 1 /\ crashes' = crashes
    BY <1>5 DEF Raise, Start
  <2>2. Releasers(q)' \subseteq Releasers(q) \cup {w}
    BY <1>5 DEF Raise, GoTo, Releasers, TypeOK
  <2>3. /\ IsFiniteSet(Releasers(q) \cup {w})
        /\ \/ Cardinality(Releasers(q) \cup {w}) = Cardinality(Releasers(q))
           \/ Cardinality(Releasers(q) \cup {w}) = Cardinality(Releasers(q)) + 1
    <3>1. CASE w \in Releasers(q)
      <4>1. Releasers(q) \cup {w} = Releasers(q)
        BY <3>1
      <4> QED
        BY <4>1, <1>1
    <3>2. CASE w \notin Releasers(q)
      BY <3>2, <1>1, FS_AddElement
    <3> QED
      BY <3>1, <3>2
  <2>4. Cardinality(Releasers(q)') <= Cardinality(Releasers(q) \cup {w})
    BY <2>2, <2>3, FS_Subset
  <2> QED
    BY <2>1, <2>3, <2>4, <1>1, <1>2, <1>3
<1>6. ASSUME NEW w \in Workers, Release(w), cur[w] = q
      PROVE  Goal
  <2>1. /\ Start' = Start /\ faults' = faults /\ crashes' = crashes
        /\ lapsed'[q] \in Nat /\ lapsed'[q] <= lapsed[q] + 1
    BY <1>6 DEF Release, Lapsed, Start, TypeOK
  <2>2. w \in Releasers(q) /\ Releasers(q)' \subseteq Releasers(q) \ {w}
    BY <1>6 DEF Release, Done, Releasers, TypeOK
  <2>3. /\ IsFiniteSet(Releasers(q) \ {w})
        /\ Cardinality(Releasers(q) \ {w}) = Cardinality(Releasers(q)) - 1
    BY <2>2, <1>1, FS_RemoveElement
  <2>4. Cardinality(Releasers(q)') <= Cardinality(Releasers(q) \ {w})
    BY <2>2, <2>3, FS_Subset
  <2> QED
    BY <2>1, <2>3, <2>4, <1>1, <1>2, <1>3
<1> USE DEF TypeOK, Releasers, Start, rowVars, shopVars, taskVars
<1>7. ASSUME NEW p \in Payments, Create(p) \/ Pay(p) \/ Age(p) \/ Expire(p)
      PROVE  Less /\ Paid
  BY <1>7 DEF Create, Pay, Age, Expire
<1>8. ASSUME PollFetch \/ PollNext \/ Crash \/ Boot
      PROVE  Less /\ Paid
  <2>1. CASE PollFetch \/ Boot
    BY <2>1 DEF PollFetch, Boot
  <2>2. CASE PollNext
    BY <2>2 DEF PollNext
  <2>3. CASE Crash
    BY <2>3 DEF Crash
  <2> QED
    BY <1>8, <2>1, <2>2, <2>3
<1>9. ASSUME Recover
      PROVE  Less /\ Paid
  BY <1>9 DEF Recover, Lapsed
<1>10. ASSUME NEW w \in Workers,
              \/ \E p \in Payments : Look(w, p)
              \/ AnswerPaid(w) \/ AnswerUnpaid(w) \/ ClaimLost(w) \/ AtomicLost(w)
              \/ ReleaseRaises(w)
       PROVE  Less /\ Paid
  BY <1>10 DEF Look, AnswerPaid, AnswerUnpaid, ClaimLost, AtomicLost, ReleaseRaises, GoTo, Done
<1>11. ASSUME NEW w \in Workers,
              \/ Claim(w) \/ Make(w) \/ Audit(w) \/ Mark(w)
              \/ Redeem(w) \/ SkipDiscount(w) \/ Referral(w)
       PROVE  Less /\ Paid
  BY <1>11 DEF Claim, Make, Audit, Mark, Redeem, SkipDiscount, Referral, GoTo, Done
<1>12. ASSUME NEW w \in Workers, FinalizeAtomic(w)
       PROVE  Less /\ Paid
  BY <1>12 DEF FinalizeAtomic, GoTo, Done
<1>13. ASSUME NEW w \in Workers, Release(w), cur[w] # q
       PROVE  Less /\ Paid
  BY <1>13 DEF Release, Lapsed, Done
<1>14. ASSUME UNCHANGED vars
       PROVE  Less /\ Paid
  BY <1>14 DEF vars
<1> HIDE DEF TypeOK, Releasers, Less, Paid, Goal
<1>15. Goal
  BY <1>4, <1>5, <1>6, <1>7, <1>8, <1>9, <1>10, <1>11, <1>12, <1>13, <1>14
     DEF EitherNext, Next, AtomicNext, Environment, PayWithOnline, CbuildPayOnline,
         ChargePayOnline, ApiOrderOnlineCreate, ApiWalletOnlineCreate, Finalize
<1> QED
  BY <1>15 DEF Goal, Start

(* The code is charged at most once for every order.                       *)
LEMMA ChargesStep ==
  TypeOK /\ Busy /\ ChargesCounted /\ [EitherNext]_vars => ChargesCounted'
<1> SUFFICES ASSUME TypeOK, Busy, ChargesCounted, [EitherNext]_vars, NEW q \in Payments
             PROVE  redeemed'[q] + Cardinality(Uncharged(q)') <= orders'[q]
  BY DEF ChargesCounted
<1>1. /\ IsFiniteSet(Uncharged(q)) /\ Cardinality(Uncharged(q)) \in Nat
      /\ IsFiniteSet(Uncharged(q)') /\ Cardinality(Uncharged(q)') \in Nat
  BY CallersFinite DEF Uncharged
<1>2. /\ redeemed[q] + Cardinality(Uncharged(q)) <= orders[q]
      /\ redeemed[q] \in Nat /\ orders[q] \in Nat
  BY DEF ChargesCounted, TypeOK
<1>3. ASSUME Uncharged(q)' \subseteq Uncharged(q),
             redeemed'[q] = redeemed[q], orders'[q] = orders[q]
      PROVE  redeemed'[q] + Cardinality(Uncharged(q)') <= orders'[q]
  <2>1. Cardinality(Uncharged(q)') <= Cardinality(Uncharged(q))
    BY <1>1, <1>3, FS_Subset
  <2> QED
    BY <2>1, <1>1, <1>2, <1>3
<1>4. ASSUME NEW w \in Workers, Make(w), cur[w] = q
      PROVE  redeemed'[q] + Cardinality(Uncharged(q)') <= orders'[q]
  <2>1. redeemed'[q] = redeemed[q] /\ orders'[q] = orders[q] + 1
    BY <1>4 DEF Make, TypeOK
  <2>2. w \notin Uncharged(q) /\ Uncharged(q)' = Uncharged(q) \cup {w}
    BY <1>4 DEF Make, GoTo, Uncharged, TypeOK
  <2>3. Cardinality(Uncharged(q)') = Cardinality(Uncharged(q)) + 1
    BY <2>2, <1>1, FS_AddElement
  <2> QED
    BY <2>1, <2>3, <1>1, <1>2
<1>5. ASSUME NEW w \in Workers, Redeem(w), cur[w] = q
      PROVE  redeemed'[q] + Cardinality(Uncharged(q)') <= orders'[q]
  <2>1. redeemed'[q] = redeemed[q] + 1 /\ orders'[q] = orders[q]
    BY <1>5 DEF Redeem, TypeOK
  <2>2. w \in Uncharged(q) /\ Uncharged(q)' = Uncharged(q) \ {w}
    BY <1>5 DEF Redeem, GoTo, Uncharged, TypeOK
  <2>3. Cardinality(Uncharged(q)') = Cardinality(Uncharged(q)) - 1
    BY <2>2, <1>1, FS_RemoveElement
  <2> QED
    BY <2>1, <2>3, <1>1, <1>2
<1> DEFINE Less == Uncharged(q)' \subseteq Uncharged(q) /\ redeemed'[q] = redeemed[q] /\ orders'[q] = orders[q]
<1> USE DEF TypeOK, Uncharged, rowVars, shopVars, taskVars
<1>6. ASSUME NEW p \in Payments, Create(p) \/ Pay(p) \/ Age(p) \/ Expire(p)
      PROVE  Less
  BY <1>6 DEF Create, Pay, Age, Expire
<1>7. ASSUME PollFetch \/ PollNext \/ Crash \/ Boot \/ Recover
      PROVE  Less
  <2>1. CASE PollFetch \/ Boot \/ Recover
    BY <2>1 DEF PollFetch, Boot, Recover
  <2>2. CASE PollNext
    BY <2>2 DEF PollNext
  <2>3. CASE Crash
    BY <2>3 DEF Crash
  <2> QED
    BY <1>7, <2>1, <2>2, <2>3
<1>8. ASSUME NEW w \in Workers,
             \/ \E p \in Payments : Look(w, p)
             \/ AnswerPaid(w) \/ AnswerUnpaid(w) \/ ClaimLost(w) \/ AtomicLost(w)
             \/ Raise(w) \/ Release(w) \/ ReleaseRaises(w)
      PROVE  Less
  BY <1>8 DEF Look, AnswerPaid, AnswerUnpaid, ClaimLost, AtomicLost, Raise, Release, ReleaseRaises, GoTo, Done
<1>9. ASSUME NEW w \in Workers, Claim(w) \/ Audit(w) \/ Mark(w) \/ SkipDiscount(w) \/ Referral(w)
      PROVE  Less
  BY <1>9 DEF Claim, Audit, Mark, SkipDiscount, Referral, GoTo, Done
<1>10. ASSUME NEW w \in Workers, Make(w) \/ Redeem(w), cur[w] # q
       PROVE  Less
  BY <1>10 DEF Make, Redeem, GoTo
<1>11. ASSUME UNCHANGED vars
       PROVE  Less
  BY <1>11 DEF vars
<1>12. ASSUME NEW w \in Workers, FinalizeAtomic(w)
       PROVE  redeemed'[q] + Cardinality(Uncharged(q)') <= orders'[q]
  <2>1. CASE cur[w] # q
    <3>1. Less
      BY <1>12, <2>1 DEF FinalizeAtomic, GoTo, Done
    <3> QED
      BY <3>1, <1>3
  <2>2. CASE cur[w] = q
    <3>1. /\ Uncharged(q)' \subseteq Uncharged(q) /\ orders'[q] = orders[q] + 1
          /\ redeemed'[q] = redeemed[q] \/ redeemed'[q] = redeemed[q] + 1
      BY <1>12, <2>2 DEF FinalizeAtomic, GoTo, Done
    <3>2. Cardinality(Uncharged(q)') <= Cardinality(Uncharged(q))
      BY <3>1, <1>1, FS_Subset
    <3> QED
      BY <3>1, <3>2, <1>1, <1>2
  <2> QED
    BY <2>1, <2>2
<1> HIDE DEF TypeOK, Uncharged
<1> QED
  BY <1>3, <1>4, <1>5, <1>6, <1>7, <1>8, <1>9, <1>10, <1>11, <1>12
     DEF EitherNext, Next, AtomicNext, Environment, PayWithOnline, CbuildPayOnline,
         ChargePayOnline, ApiOrderOnlineCreate, ApiWalletOnlineCreate, Finalize

(* A use charged to a payment of ps is one more row, to another it is none *)
(* of theirs.                                                              *)
LEMMA UsagesRest ==
  ASSUME redeemed \in [Payments -> Nat], NEW q \in Payments, NEW ps \in SUBSET Payments,
         redeemed' = [redeemed EXCEPT ![q] = @ + 1]
  PROVE  /\ q \in ps => /\ UsagesOf(ps)' = UsagesOf(ps) \cup {<<q, redeemed[q] + 1>>}
                        /\ <<q, redeemed[q] + 1>> \notin UsagesOf(ps)
         /\ q \notin ps => UsagesOf(ps)' = UsagesOf(ps)
<1>1. redeemed[q] \in Nat /\ redeemed'[q] = redeemed[q] + 1
  OBVIOUS
<1>2. \A p \in ps : p # q => redeemed'[p] = redeemed[p]
  OBVIOUS
<1>3. 1..redeemed'[q] = (1..redeemed[q]) \cup {redeemed[q] + 1} /\ redeemed[q] + 1 \notin 1..redeemed[q]
  BY <1>1
<1>4. ASSUME NEW u \in UsagesOf(ps)'
      PROVE  u \in UsagesOf(ps) \/ (q \in ps /\ u = <<q, redeemed[q] + 1>>)
  <2>1. PICK p \in ps : u \in {p} \X (1..redeemed'[p])
    BY <1>4 DEF UsagesOf
  <2>2. CASE p = q
    BY <2>1, <2>2, <1>3 DEF UsagesOf
  <2>3. CASE p # q
    BY <2>1, <2>3, <1>2 DEF UsagesOf
  <2> QED
    BY <2>2, <2>3
<1>5. ASSUME NEW u \in UsagesOf(ps)
      PROVE  u \in UsagesOf(ps)'
  <2>1. PICK p \in ps : u \in {p} \X (1..redeemed[p])
    BY <1>5 DEF UsagesOf
  <2>2. u \in {p} \X (1..redeemed'[p])
    BY <2>1, <1>2, <1>3
  <2> QED
    BY <2>2 DEF UsagesOf
<1>6. q \in ps => <<q, redeemed[q] + 1>> \in UsagesOf(ps)'
  BY <1>3 DEF UsagesOf
<1>7. <<q, redeemed[q] + 1>> \notin UsagesOf(ps)
  BY <1>3 DEF UsagesOf
<1>8. CASE q \in ps
  BY <1>4, <1>5, <1>6, <1>7, <1>8
<1>9. CASE q \notin ps
  BY <1>4, <1>5, <1>9
<1> QED
  BY <1>8, <1>9

(* The rows a buyer has in discount_usages are some of all of them.        *)
LEMMA UsagesOfBuyer ==
  ASSUME NEW u \in Users, IsFiniteSet(UsagesOf(Payments))
  PROVE  /\ IsFiniteSet(UsagesOf({p \in Payments : OwnerOf[p] = u}))
         /\ UsedBy(u) \in Nat
<1>1. UsagesOf({p \in Payments : OwnerOf[p] = u}) \subseteq UsagesOf(Payments)
  BY DEF UsagesOf
<1> QED
  BY <1>1, FS_Subset, FS_CardinalityType DEF UsedBy

(* A step that charges the code takes one use, which the buyer still had,  *)
(* and writes one row.                                                     *)
LEMMA ChargeRecorded ==
  ASSUME TypeOK, Recorded, NEW q \in Payments,
         UseLeft(OwnerOf[q]), uses' = uses - 1,
         redeemed' = [redeemed EXCEPT ![q] = @ + 1]
  PROVE  Recorded'
<1>1. uses > 0 /\ uses \in Nat /\ redeemed \in [Payments -> Nat]
  BY DEF UseLeft, TypeOK
<1> DEFINE U == UsagesOf(Payments)
           r == <<q, redeemed[q] + 1>>
<1>2. UsagesOf(Payments)' = U \cup {r} /\ r \notin U
  BY <1>1, UsagesRest
<1>3. IsFiniteSet(U) /\ uses + Cardinality(U) = CodeUses
  BY DEF Recorded, CodeConserved
<1>4. IsFiniteSet(U \cup {r}) /\ uses' + Cardinality(U \cup {r}) = CodeUses
  <2> HIDE DEF U, r
  <2>1. IsFiniteSet(U \cup {r}) /\ Cardinality(U \cup {r}) = Cardinality(U) + 1 /\ Cardinality(U) \in Nat
    BY <1>2, <1>3, FS_AddElement, FS_CardinalityType
  <2> QED
    BY <2>1, <1>1, <1>3
<1>5. ASSUME CapPerUser > 0, NEW u \in Users
      PROVE  UsedBy(u)' <= CapPerUser
  <2> DEFINE ps == {p \in Payments : OwnerOf[p] = u}
             V == UsagesOf(ps)
  <2>1. UsedBy(u) = Cardinality(V) /\ UsedBy(u)' = Cardinality(V')
    BY DEF UsedBy
  <2>2. IsFiniteSet(V) /\ UsedBy(u) \in Nat /\ UsedBy(u) <= CapPerUser
    BY <1>5, <1>3, UsagesOfBuyer DEF Recorded, CodeConserved
  <2>3. CASE OwnerOf[q] = u
    <3>1. V' = V \cup {r} /\ r \notin V
      BY <2>3, <1>1, UsagesRest
    <3>2. UsedBy(u) < CapPerUser
      BY <2>3, <1>5 DEF UseLeft
    <3>3. Cardinality(V') = Cardinality(V) + 1
      <4> HIDE DEF V, r
      <4> QED
        BY <3>1, <2>2, FS_AddElement
    <3> QED
      BY <3>2, <3>3, <2>1, <2>2, BoundsAssumption
  <2>4. CASE OwnerOf[q] # u
    <3>1. V' = V
      BY <2>4, <1>1, UsagesRest
    <3> QED
      BY <3>1, <2>1, <2>2
  <2> QED
    BY <2>3, <2>4
<1>6. IsFiniteSet(UsagesOf(Payments)') /\ uses' + Cardinality(UsagesOf(Payments)') = CodeUses
  BY <1>2, <1>4
<1> QED
  BY <1>5, <1>6 DEF Recorded, CodeConserved

(* No other step touches the code.                                         *)
LEMMA RecordedStep ==
  TypeOK /\ Busy /\ Recorded /\ [EitherNext]_vars => Recorded'
<1> SUFFICES ASSUME TypeOK, Busy, Recorded, [EitherNext]_vars
             PROVE  Recorded'
  OBVIOUS
<1> DEFINE Same == UNCHANGED <<uses, redeemed>>
<1>1. ASSUME Same
      PROVE  Recorded'
  BY <1>1 DEF Recorded, CodeConserved, UsedBy, UsagesOf
<1>2. ASSUME NEW w \in Workers, Redeem(w)
      PROVE  Recorded'
  BY <1>2, ChargeRecorded DEF Redeem, Busy
<1>3. ASSUME NEW w \in Workers, FinalizeAtomic(w), ~Same
      PROVE  Recorded'
  <2>1. /\ cur[w] \in Payments /\ UseLeft(OwnerOf[cur[w]])
        /\ uses' = uses - 1 /\ redeemed' = [redeemed EXCEPT ![cur[w]] = @ + 1]
    BY <1>3 DEF FinalizeAtomic, Busy
  <2> QED
    BY <2>1, ChargeRecorded
<1> USE DEF rowVars, shopVars, taskVars
<1>4. ASSUME NEW p \in Payments, Create(p) \/ Pay(p) \/ Age(p) \/ Expire(p)
      PROVE  Same
  BY <1>4 DEF Create, Pay, Age, Expire
<1>5. ASSUME PollFetch \/ PollNext \/ Crash \/ Boot \/ Recover
      PROVE  Same
  BY <1>5 DEF PollFetch, Boot, Recover, PollNext, Crash
<1>6. ASSUME NEW w \in Workers,
             \/ \E p \in Payments : Look(w, p)
             \/ AnswerPaid(w) \/ AnswerUnpaid(w) \/ ClaimLost(w) \/ AtomicLost(w)
             \/ Raise(w) \/ Release(w) \/ ReleaseRaises(w)
      PROVE  Same
  BY <1>6 DEF Look, AnswerPaid, AnswerUnpaid, ClaimLost, AtomicLost, Raise, Release, ReleaseRaises
<1>7. ASSUME NEW w \in Workers,
             Claim(w) \/ Make(w) \/ Audit(w) \/ Mark(w) \/ SkipDiscount(w) \/ Referral(w)
      PROVE  Same
  BY <1>7 DEF Claim, Make, Audit, Mark, SkipDiscount, Referral
<1>8. ASSUME UNCHANGED vars
      PROVE  Same
  BY <1>8 DEF vars
<1> HIDE DEF Same
<1> QED
  BY <1>1, <1>2, <1>3, <1>4, <1>5, <1>6, <1>7, <1>8
     DEF EitherNext, Next, AtomicNext, Environment, PayWithOnline, CbuildPayOnline,
         ChargePayOnline, ApiOrderOnlineCreate, ApiWalletOnlineCreate, Finalize

-----------------------------------------------------------------------------
(* At first nothing is on its way and nothing has been counted.            *)
LEMMA InvInit == Init => IInv
<1> SUFFICES ASSUME Init PROVE IInv
  OBVIOUS
<1>1. TypeOK /\ Busy
  BY TypingInit
<1>2. Safe /\ RewardNeedsPurchase
  BY DEF Init, Safe, Confirmed, HonouredOnlyIfPaid, Made, PaidRowHonoured, ServiceOnly,
         Held, OneWinner, RewardNeedsPurchase, Finalizing
<1>3. ASSUME NEW p \in Payments
      PROVE  /\ Cardinality(Claimants(p)) = 0 /\ Cardinality(Releasers(p)) = 0
             /\ Cardinality(Uncharged(p)) = 0
  <2>1. Claimants(p) = {} /\ Releasers(p) = {} /\ Uncharged(p) = {}
    BY DEF Init, Claimants, Releasers, Uncharged
  <2> QED
    BY <2>1, FS_EmptySet
<1>4. OrdersCounted /\ LapsesCounted /\ ChargesCounted
  BY <1>3 DEF Init, OrdersCounted, LapsesCounted, ChargesCounted, Room
<1>5. Recorded
  <2>1. UsagesOf(Payments) = {} /\ \A u \in Users : UsagesOf({p \in Payments : OwnerOf[p] = u}) = {}
    BY DEF Init, UsagesOf
  <2>2. uses = CodeUses /\ CodeUses \in Nat /\ CapPerUser \in Nat
    BY BoundsAssumption DEF Init
  <2>3. Cardinality(UsagesOf(Payments)) = 0 /\ \A u \in Users : UsedBy(u) = 0
    BY <2>1, FS_EmptySet DEF UsedBy
  <2> QED
    BY <2>1, <2>2, <2>3, FS_EmptySet DEF Recorded, CodeConserved
<1> QED
  BY <1>1, <1>2, <1>4, <1>5 DEF IInv

LEMMA InvStep == IInv /\ [EitherNext]_vars => IInv'
BY TypingStep, SafeStep, RewardStep, OrdersStep, LapsesStep, ChargesStep, RecordedStep DEF IInv

(* The inductive invariant holds in every reachable state, of the          *)
(* functions in use and of both families together.                         *)
THEOREM Invariance == EitherSpec => []IInv
<1> QED
  BY InvInit, InvStep, PTL DEF EitherSpec, EitherNext

LEMMA InUse == Spec => EitherSpec
<1>1. [Next]_vars => [Next \/ AtomicNext]_vars
  OBVIOUS
<1> QED
  BY <1>1, PTL DEF Spec, EitherSpec

(* Every variable keeps its type.                                          *)
THEOREM TypeCorrect == Spec => []TypeOK
<1>1. IInv => TypeOK
  BY DEF IInv
<1> QED
  BY <1>1, InUse, Invariance, PTL

(* However many callers, faults and crashes there are, a payment gives the *)
(* buyer at most one order more than its row was put back too early, and   *)
(* that happens at most once for every exception and start of the process. *)
THEOREM OrdersAccounted == Spec => []Accounted
<1>1. IInv => Accounted
  <2> SUFFICES ASSUME IInv, NEW p \in Payments
               PROVE  orders[p] <= 1 + lapsed[p] /\ lapsed[p] <= faults + crashes + 1
    BY DEF Accounted
  <2>1. /\ orders[p] + Cardinality(Claimants(p)) <= Room(p)
        /\ lapsed[p] + Cardinality(Releasers(p)) + (IF phase = "up" THEN 0 ELSE 1)
             <= faults + crashes + 1
        /\ orders[p] \in Nat /\ lapsed[p] \in Nat /\ faults \in Nat /\ crashes \in Nat
    BY DEF IInv, OrdersCounted, LapsesCounted, TypeOK
  <2>2. Cardinality(Claimants(p)) \in Nat /\ Cardinality(Releasers(p)) \in Nat
    BY CallersFinite DEF Claimants, Releasers
  <2>3. Room(p) \in Nat /\ Room(p) <= 1 + lapsed[p]
    BY <2>1 DEF Room
  <2> QED
    BY <2>1, <2>2, <2>3
<1> QED
  BY <1>1, InUse, Invariance, PTL

(* Two callers finalize one payment at a time only after a lapse.          *)
THEOREM WinnerAlone == Spec => []OneWinner
<1>1. IInv => OneWinner
  BY DEF IInv, Safe
<1> QED
  BY <1>1, InUse, Invariance, PTL

(* Nobody is served unpaid, and a row marked paid has been honoured.       *)
THEOREM PaidAndHonoured == Spec => [](HonouredOnlyIfPaid /\ PaidRowHonoured)
<1>1. IInv => HonouredOnlyIfPaid /\ PaidRowHonoured
  BY DEF IInv, Safe
<1> QED
  BY <1>1, InUse, Invariance, PTL

(* A discount code is charged at most once per order.                      *)
THEOREM ChargedForOrders == EitherSpec => []RedeemedForOrder
<1>1. IInv => RedeemedForOrder
  <2> SUFFICES ASSUME IInv, NEW p \in Payments
               PROVE  redeemed[p] <= orders[p]
    BY DEF RedeemedForOrder
  <2>1. /\ redeemed[p] + Cardinality(Uncharged(p)) <= orders[p]
        /\ redeemed[p] \in Nat /\ orders[p] \in Nat
    BY DEF IInv, ChargesCounted, TypeOK
  <2>2. Cardinality(Uncharged(p)) \in Nat
    BY CallersFinite DEF Uncharged
  <2> QED
    BY <2>1, <2>2
<1> QED
  BY <1>1, Invariance, PTL

(* What the code lost in uses is what was written to discount_usages, and  *)
(* no buyer has more of them than the code allows, however many links were *)
(* priced with it and however the callers interleave, raise or die: the    *)
(* limit is asked again where the use is taken, in one transaction.        *)
THEOREM UsesRecorded == EitherSpec => []CodeConserved
<1>1. IInv => CodeConserved
  BY DEF IInv, Recorded
<1> QED
  BY <1>1, Invariance, PTL

(* A referrer is rewarded only for a paid purchase of a service.           *)
THEOREM RewardsEarned == EitherSpec => []RewardNeedsPurchase
<1>1. IInv => RewardNeedsPurchase
  BY DEF IInv
<1> QED
  BY <1>1, Invariance, PTL

-----------------------------------------------------------------------------
(* The promise of PaymentPromise.  The moment of service is the order; the *)
(* shop forgets that a link is in hand where a row goes back too early.    *)

(* The name a row has in the promise.                                      *)
LinkOf(s) == CASE s = "absent"  -> "none"
               [] s = "deleted" -> "withdrawn"
               [] OTHER         -> "open"

Links == [p \in Payments |-> LinkOf(row[p])]

(* A step that leaves links, money, orders and lapses alone is a stutter.  *)
LEMMA Stutter ==
  ASSUME Links' = Links, gateway' = gateway, orders' = orders, lapsed' = lapsed
  PROVE  UNCHANGED Promise!vars
BY DEF Promise!vars, Links, LinkOf

(* A row that stays among those that are neither absent nor deleted keeps  *)
(* its link.                                                               *)
LEMMA OpenStaysOpen ==
  ASSUME row \in [Payments -> {"absent", "pending", "processing", "paid", "deleted"}],
         row' \in [Payments -> {"absent", "pending", "processing", "paid", "deleted"}],
         \A p \in Payments :
           \/ row'[p] = row[p]
           \/ {row[p], row'[p]} \subseteq {"pending", "processing", "paid"}
  PROVE  Links' = Links
BY DEF Links, LinkOf

(* An order is made for a link that is owed one.                           *)
LEMMA MakeServes ==
  ASSUME IInv, NEW w \in Workers, Make(w) \/ FinalizeAtomic(w), IInv'
  PROVE  cur[w] \in Payments /\ Promise!Serve(cur[w])
<1>0. PICK p \in Payments : p = cur[w]
  BY DEF Make, FinalizeAtomic, IInv, Busy
<1>1. p \in Payments /\ gateway[p] /\ gateway' = gateway /\ lapsed' = lapsed
  BY <1>0 DEF Make, FinalizeAtomic, rowVars, IInv, Busy, Safe, Confirmed, Finalizing
<1>2. orders' = [orders EXCEPT ![p] = @ + 1]
  BY <1>0 DEF Make, FinalizeAtomic
<1>3. /\ orders[p] \in Nat /\ orders'[p] = orders[p] + 1 /\ lapsed[p] \in Nat
      /\ row \in [Payments -> {"absent", "pending", "processing", "paid", "deleted"}]
      /\ row' \in [Payments -> {"absent", "pending", "processing", "paid", "deleted"}]
  BY <1>1, <1>2 DEF IInv, TypeOK
<1>4. Links' = Links
  <2>1. CASE Make(w)
    BY <2>1 DEF Make, rowVars, Links
  <2>2. CASE FinalizeAtomic(w)
    <3>1. row' = [row EXCEPT ![p] = "paid"] /\ row[p] = "pending"
      BY <2>2, <1>0 DEF FinalizeAtomic
    <3> QED
      BY <1>3, <3>1, OpenStaysOpen
  <2> QED
    BY <2>1, <2>2
<1>5. Cardinality(Claimants(p)') \in Nat
  BY CallersFinite DEF Claimants
<1>6. orders'[p] <= lapsed[p] + (IF row'[p] \in {"processing", "paid"} THEN 1 ELSE 0)
  BY <1>1, <1>3, <1>5 DEF IInv, OrdersCounted, Room
<1>7. orders[p] < lapsed[p] + (IF Links[p] = "open" THEN 1 ELSE 0)
  <2>1. row'[p] \in {"processing", "paid"} => Links'[p] = "open"
    BY <1>1, <1>3 DEF Links, LinkOf
  <2> QED
    BY <1>3, <1>4, <1>6, <2>1
<1> QED
  BY <1>0, <1>1, <1>2, <1>4, <1>7 DEF Promise!Serve, Promise!Owed, Links, LinkOf

(* Every step of the finalize functions, of the environment and of the     *)
(* start-up is one of the promise, or a stutter.                           *)
LEMMA PromiseStep ==
  ASSUME IInv, [EitherNext]_vars, IInv'
  PROVE  [Promise!Next]_(Promise!vars)
<1> USE DEF rowVars, shopVars, taskVars
<1>0. /\ row \in [Payments -> {"absent", "pending", "processing", "paid", "deleted"}]
      /\ row' \in [Payments -> {"absent", "pending", "processing", "paid", "deleted"}]
      /\ lapsed \in [Payments -> Nat]
  BY DEF IInv, TypeOK
<1>1. ASSUME NEW p \in Payments, Create(p)
      PROVE  Promise!Offer(p)
  BY <1>0, <1>1 DEF Create, Promise!Offer
<1>2. ASSUME NEW p \in Payments, Pay(p)
      PROVE  Promise!Collect(p)
  BY <1>0, <1>2 DEF Pay, Promise!Collect
<1>3. ASSUME NEW p \in Payments, Expire(p)
      PROVE  Promise!Withdraw(p)
  <2>1. row[p] = "pending" /\ orders[p] <= lapsed[p]
    <3>1. /\ row[p] = "pending" /\ orders[p] + Cardinality(Claimants(p)) <= Room(p)
          /\ orders[p] \in Nat /\ lapsed[p] \in Nat
      BY <1>3 DEF Expire, IInv, OrdersCounted, TypeOK
    <3>2. Cardinality(Claimants(p)) \in Nat
      BY CallersFinite DEF Claimants
    <3> QED
      BY <3>1, <3>2 DEF Room
  <2> QED
    BY <1>0, <1>3, <2>1 DEF Expire, Promise!Withdraw
<1>4. ASSUME NEW w \in Workers, Make(w) \/ FinalizeAtomic(w)
      PROVE  cur[w] \in Payments /\ Promise!Serve(cur[w])
  BY <1>4, MakeServes
<1>5. ASSUME NEW ps \in SUBSET Payments, NEW ws, Lapsed(ps, ws), Links' = Links,
             \A p \in ps : gateway[p], gateway' = gateway, orders' = orders
      PROVE  \E qs \in SUBSET Payments : Promise!Lapse(qs)
  <2> DEFINE qs == {p \in ps : TooEarly(p, ws)}
  <2>1. lapsed' = [p \in Payments |-> IF p \in qs THEN lapsed[p] + 1 ELSE lapsed[p]]
    BY <1>5 DEF Lapsed
  <2>2. Promise!Lapse(qs)
    <3> HIDE DEF qs
    <3>1. qs \subseteq ps
      BY DEF qs
    <3> QED
      BY <1>5, <2>1, <3>1 DEF Promise!Lapse, Links, LinkOf
  <2> QED
    BY <2>2
<1>6. ASSUME NEW w \in Workers, Release(w)
      PROVE  \E qs \in SUBSET Payments : Promise!Lapse(qs)
  <2>1. cur[w] \in Payments /\ row[cur[w]] # "absent" /\ gateway[cur[w]]
    BY <1>6 DEF Release, IInv, Busy, Safe, Confirmed, Finalizing
  <2>2. row' = [row EXCEPT ![cur[w]] = IF @ = "deleted" THEN @ ELSE "pending"]
    BY <1>6 DEF Release
  <2>3. Links' = Links
    BY <1>0, <2>1, <2>2, OpenStaysOpen
  <2>4. Lapsed({cur[w]}, {w}) /\ gateway' = gateway /\ orders' = orders
    BY <1>6 DEF Release
  <2> QED
    BY <2>1, <2>3, <2>4, <1>5
<1>7. ASSUME Recover
      PROVE  \E qs \in SUBSET Payments : Promise!Lapse(qs)
  <2> DEFINE stuck == {p \in Payments : row[p] = "processing"}
  <2>1. row' = [p \in Payments |-> IF p \in stuck THEN "pending" ELSE row[p]]
    BY <1>7 DEF Recover
  <2>2. Links' = Links
    BY <1>0, <2>1, OpenStaysOpen
  <2>3. Lapsed(stuck, {}) /\ gateway' = gateway /\ orders' = orders
    BY <1>7 DEF Recover
  <2>4. \A p \in stuck : gateway[p]
    BY DEF IInv, Safe, Confirmed
  <2> QED
    BY <2>2, <2>3, <2>4, <1>5
<1>8. ASSUME NEW w \in Workers, Claim(w) \/ Mark(w)
      PROVE  UNCHANGED Promise!vars
  <2>1. cur[w] \in Payments /\ row[cur[w]] # "absent"
    BY <1>8 DEF Claim, Mark, IInv, Busy
  <2>2. /\ gateway' = gateway /\ orders' = orders /\ lapsed' = lapsed
        /\ \/ row[cur[w]] = "pending" /\ row' = [row EXCEPT ![cur[w]] = "processing"]
           \/ row' = [row EXCEPT ![cur[w]] = IF @ = "deleted" THEN @ ELSE "paid"]
    BY <1>8 DEF Claim, Mark
  <2>3. Links' = Links
    BY <1>0, <2>1, <2>2, OpenStaysOpen
  <2> QED
    BY <2>2, <2>3, Stutter
<1> DEFINE Same == row' = row /\ gateway' = gateway /\ orders' = orders /\ lapsed' = lapsed
<1>9. Same => UNCHANGED Promise!vars
  BY Stutter DEF Links
<1>10. ASSUME \/ \E p \in Payments : Age(p)
              \/ PollFetch \/ PollNext \/ Crash \/ Boot
       PROVE  Same
  BY <1>10 DEF Age, PollFetch, PollNext, Crash, Boot
<1>11. ASSUME NEW w \in Workers,
              \/ \E p \in Payments : Look(w, p)
              \/ AnswerPaid(w) \/ AnswerUnpaid(w) \/ ClaimLost(w) \/ AtomicLost(w)
              \/ Audit(w) \/ Redeem(w) \/ SkipDiscount(w) \/ Referral(w)
              \/ Raise(w) \/ ReleaseRaises(w)
       PROVE  Same
  BY <1>11 DEF Look, AnswerPaid, AnswerUnpaid, ClaimLost, AtomicLost, Audit, Redeem,
               SkipDiscount, Referral, Raise, ReleaseRaises
<1>12. ASSUME UNCHANGED vars
       PROVE  Same
  BY <1>12 DEF vars
<1> HIDE DEF Same
<1> QED
  BY <1>1, <1>2, <1>3, <1>4, <1>6, <1>7, <1>8, <1>9, <1>10, <1>11, <1>12
     DEF EitherNext, Next, AtomicNext, Environment, PayWithOnline, CbuildPayOnline,
         ChargePayOnline, ApiOrderOnlineCreate, ApiWalletOnlineCreate, Finalize, Promise!Next

(* The finalize functions in use, alone or beside the atomic ones, keep    *)
(* the promise through every crash, restart, exception and interleaving:   *)
(* nobody is served unpaid, no link more often than its row lapsed and     *)
(* once more, and a withdrawn one only on the account of a lapse.          *)
THEOREM EitherKeepsPromise == EitherSpec => PromiseSpec
<1>1. Init => Promise!Init
  BY DEF Init, Promise!Init
<1>2. IInv /\ IInv' /\ [EitherNext]_vars => [Promise!Next]_(Promise!vars)
  BY PromiseStep
<1> QED
  BY <1>1, <1>2, Invariance, PTL DEF EitherSpec, EitherNext, PromiseSpec, Promise!Spec

(* What the promise means for a payment, in a state of it: it is served no *)
(* more often than it is owed, and only when it is paid.                   *)
LEMMA InvKept == IInv => Promise!Kept
<1> SUFFICES ASSUME IInv, NEW p \in Payments
             PROVE  /\ orders[p] <= lapsed[p] + (IF Links[p] = "open" THEN 1 ELSE 0)
                    /\ orders[p] > 0 => gateway[p]
  BY DEF Promise!Kept, Promise!Owed, Links, LinkOf
<1>1. /\ orders[p] + Cardinality(Claimants(p)) <= Room(p)
      /\ orders[p] \in Nat /\ lapsed[p] \in Nat /\ (orders[p] > 0 => gateway[p])
  BY DEF IInv, OrdersCounted, Safe, HonouredOnlyIfPaid, TypeOK
<1>2. Cardinality(Claimants(p)) \in Nat
  BY CallersFinite DEF Claimants
<1>3. row[p] \in {"processing", "paid"} => Links[p] = "open"
  BY DEF Links, LinkOf
<1> QED
  BY <1>1, <1>2, <1>3 DEF Room

(* So, with the functions in use, a buyer is served at most once for a     *)
(* link whose row never lapsed, and not at all once such a row is deleted. *)
THEOREM ServedAsOwed == Spec => []Promise!Kept
  BY InvKept, InUse, Invariance, PTL

-----------------------------------------------------------------------------
(* Where nothing but the finalize_online_*_atomic functions works on the   *)
(* table, no row is ever in processing, so there is nothing to put back.   *)
Once ==
  \A p \in Payments : /\ row[p] # "processing" /\ lapsed[p] = 0
                      /\ orders[p] = IF row[p] = "paid" THEN 1 ELSE 0

(* The only place a caller can be besides the gateway's answer.            *)
Alone == \A w \in Workers : pc[w] \in {"idle", "asked", "answered", "referral"}

LEMMA AtomicStep ==
  ASSUME TypeOK, Busy, Once, Alone, [AtomicNext]_vars
  PROVE  Once' /\ Alone'
<1> USE DEF TypeOK, Busy, Once, Alone, rowVars, shopVars, taskVars
<1>1. ASSUME NEW p \in Payments, Create(p) \/ Pay(p) \/ Age(p) \/ Expire(p)
      PROVE  Once' /\ Alone'
  BY <1>1 DEF Create, Pay, Age, Expire
<1>2. ASSUME PollFetch \/ PollNext \/ Crash \/ Boot
      PROVE  Once' /\ Alone'
  BY <1>2 DEF PollFetch, PollNext, Crash, Boot
<1>3. ASSUME Recover
      PROVE  Once' /\ Alone'
  BY <1>3 DEF Recover, Lapsed
<1>4. ASSUME NEW w \in Workers,
             \/ \E p \in Payments : Look(w, p)
             \/ AnswerPaid(w) \/ AnswerUnpaid(w) \/ AtomicLost(w) \/ Referral(w)
      PROVE  Once' /\ Alone'
  BY <1>4 DEF Look, AnswerPaid, AnswerUnpaid, AtomicLost, Referral, GoTo, Done
<1>5. ASSUME NEW w \in Workers, FinalizeAtomic(w)
      PROVE  Once' /\ Alone'
  BY <1>5 DEF FinalizeAtomic, GoTo, Done
<1>6. ASSUME UNCHANGED vars
      PROVE  Once' /\ Alone'
  BY <1>6 DEF vars
<1> HIDE DEF TypeOK, Busy, Once, Alone
<1> QED
  BY <1>1, <1>2, <1>3, <1>4, <1>5, <1>6
     DEF AtomicNext, Environment, PayWithOnline, CbuildPayOnline,
         ChargePayOnline, ApiOrderOnlineCreate, ApiWalletOnlineCreate

(* The atomic functions serve a payment once at most, whatever crashes and *)
(* however Flask's threads overlap the start-up: the row never lapses.     *)
THEOREM AtomicServesOnce == AtomicSpec => [](\A p \in Payments : orders[p] <= 1 /\ lapsed[p] = 0)
<1> DEFINE AInv == TypeOK /\ Busy /\ Once /\ Alone
<1>1. Init => AInv
  <2>1. Init => TypeOK /\ Busy
    BY TypingInit
  <2>2. Init => Once /\ Alone
    BY DEF Init, Once, Alone
  <2> QED
    BY <2>1, <2>2
<1>2. AInv /\ [AtomicNext]_vars => AInv'
  <2>1. [AtomicNext]_vars => [EitherNext]_vars
    BY DEF EitherNext
  <2> QED
    BY <2>1, TypingStep, AtomicStep
<1>3. AInv => \A p \in Payments : orders[p] <= 1 /\ lapsed[p] = 0
  BY DEF Once
<1> QED
  BY <1>1, <1>2, <1>3, PTL DEF AtomicSpec
=============================================================================
