---------------------- MODULE OrderFulfilmentProofs ----------------------
(***************************************************************************)
(* What the three ways of serving an order guarantee together, whatever    *)
(* the number of orders and workers, and however many presses, exceptions, *)
(* lost answers and crashes there are.  The argument: every reference to   *)
(* an order (a worker, a button, a line of the queue, the conversation of  *)
(* the admin) is created only after its purchase was recorded, and an open *)
(* order that is in no list has a reference left unless something took it. *)
(***************************************************************************)
EXTENDS OrderFulfilment, FiniteSetTheorems, TLAPS

(* A worker that is not idle, and a mode that waits for the admin, are     *)
(* about an order.                                                         *)
Busy ==
  /\ \A w \in Workers :
       /\ task[w].at # "idle" => task[w].order \in Orders /\ task[w].link \in Orders
       /\ task[w].at = "settle" => KindOf[task[w].order] # "plan"
  /\ chat.mode = "link" => chat.slot \in Orders
  /\ chat.mode \in {"photo", "sublink"} => chat.send \in Orders
  /\ chat.mode = "manual" => chat.link \in Orders

Typing == TypeOK /\ Busy

(* Before the purchase the admin has no receipt of the order.              *)
Fresh == \A o \in Orders : Unbought(o) => o \notin card

(* A receipt that was not accepted has charged nobody.                     *)
Undecided ==
  /\ \A o \in Orders : status[o] = "rejected" => KindOf[o] # "plan"
  /\ \A o \in card \ cut :
       /\ recorded[o] <= 1
       /\ KindOf[o] # "plan" /\ status[o] \in {"pending", "rejected"} => recorded[o] = 0

(* Past the receipt, an order has been charged.                            *)
Charged ==
  \A o \in Orders :
    status[o] \notin {"none", "rejected"} /\ ~InReceipts(o) => recorded[o] > 0

(* Whoever can act on an order acts on a charged one.                      *)
Trail ==
  \A o \in Orders :
    \/ buttons[o] # {} \/ o \in listed \/ chat.slot = o \/ chat.send = o
    \/ \E w \in Workers : task[w].order = o
    => recorded[o] > 0

(* A worker about to close an order has stored something for its buyer.    *)
Stored == \A w \in Workers : task[w].at = "close" => configs[task[w].order] # {}

(* Every open order that no list shows is with the automatic path, waits   *)
(* for its link, or has a button.                                          *)
Hidden(o) == status[o] \in Open /\ ~InQueue(o) /\ ~InReceipts(o)
Carried(o) ==
  \E w \in Workers :
    /\ task[w].order = o /\ task[w].via \in Vias
    /\ task[w].at \in {"create", "made", "deliver", "close", "notify"}
Found(o) == Carried(o) \/ Holds(o) \/ buttons[o] # {} \/ o \in disturbed
Reachable ==
  /\ \A w \in Workers : task[w].at \in {"settle", "claim"} => task[w].via \in Vias
  /\ \A o \in Orders : Hidden(o) => Found(o)

(* The workers that will ask the panel for o, or may.                      *)
Making == {"settle", "claim", "create"}
Makers(o) == {w \in Workers : task[w].order = o /\ task[w].at \in Making}

(* What was made for an order, and what is about to be made, was paid for  *)
(* by a press of the panel button, or is the one attempt after a purchase  *)
(* without a receipt.                                                      *)
Counted ==
  \A o \in Orders :
    /\ IsFiniteSet(Makers(o))
    /\ services[o] + Cardinality(Makers(o)) <= spent["presses"] + (IF o \in card THEN 0 ELSE 1)

Ledger == Fresh /\ Undecided /\ Charged /\ Trail /\ NoServiceUnpaid

IInv ==
  /\ Typing /\ Ledger
  /\ Stored /\ FulfilledDelivered
  /\ Reachable /\ Counted

-----------------------------------------------------------------------------
LEMMA InitHolds == Init => IInv
<1> SUFFICES ASSUME Init PROVE IInv
  OBVIOUS
<1>1. Typing /\ Ledger /\ Stored /\ FulfilledDelivered /\ Reachable
  BY FulfilmentAssumption
  DEF Init, Typing, Ledger, TypeOK, Busy, Fresh, Undecided, Charged, Trail, NoServiceUnpaid,
      Stored, FulfilledDelivered, Unbought, Reachable, Found, Hidden, InQueue, InReceipts, Idle, NoChat,
      Task, Chat, Steps, Paths, Modes, Open, States
<1>2. Counted
  <2>1. \A o \in Orders : Makers(o) = {} /\ services[o] = 0 /\ spent["presses"] = 0 /\ o \notin card
    BY DEF Init, Makers, Making, Idle
  <2>2. IsFiniteSet({}) /\ Cardinality({}) = 0
    BY FS_EmptySet
  <2>3. QED
    BY <2>1, <2>2 DEF Counted
<1>3. QED
  BY <1>1, <1>2 DEF IInv

(* What the three changes of a worker's record do to it, field by field.   *)
Others(w) == \A u \in Workers \ {w} : task'[u] = task[u]

LEMMA Moves ==
  ASSUME task \in [Workers -> Task], NEW w \in Workers, NEW s \in Steps, GoesTo(w, s)
  PROVE  /\ task' \in [Workers -> Task] /\ Others(w)
         /\ task'[w].at = s /\ task'[w].order = task[w].order
         /\ task'[w].link = task[w].link /\ task'[w].via = task[w].via
BY DEF GoesTo, Task, Others

LEMMA Stops ==
  ASSUME task \in [Workers -> Task], NEW w \in Workers, Ends(w)
  PROVE  /\ task' \in [Workers -> Task] /\ Others(w)
         /\ task'[w].at = "idle" /\ task'[w].order = NoOrder
BY DEF Ends, Task, Others, Idle, Steps, Paths

LEMMA Begins ==
  ASSUME task \in [Workers -> Task], NEW w \in Workers, NEW s \in Steps, NEW v \in Paths,
         NEW o \in Orders \cup {NoOrder}, NEW p \in Orders \cup {NoOrder},
         Starts(w, s, o, p, v)
  PROVE  /\ task' \in [Workers -> Task] /\ Others(w)
         /\ task'[w].at = s /\ task'[w].order = o
         /\ task'[w].link = p /\ task'[w].via = v
BY DEF Starts, Task, Others

(* The same for the conversation of the admin.                             *)
LEMMA ChatCleared ==
  ASSUME chat \in Chat, chat' = NoChat
  PROVE  /\ chat' \in Chat
         /\ chat'.mode = "free" /\ chat'.slot = NoOrder /\ chat'.send = NoOrder
BY DEF Chat, Modes, NoChat

LEMMA ChatAsksLink ==
  ASSUME chat \in Chat, NEW o \in Orders, chat' = [chat EXCEPT !.slot = o, !.mode = "link"]
  PROVE  /\ chat' \in Chat
         /\ chat'.mode = "link" /\ chat'.slot = o /\ chat'.send = chat.send
BY DEF Chat, Modes, NoChat

LEMMA ChatStartsSend ==
  ASSUME chat \in Chat, NEW o \in Orders, chat' = [chat EXCEPT !.mode = "photo", !.send = o, !.qr = FALSE]
  PROVE  /\ chat' \in Chat
         /\ chat'.mode = "photo" /\ chat'.slot = chat.slot /\ chat'.send = o
BY DEF Chat, Modes, NoChat

LEMMA ChatHasPhoto ==
  ASSUME chat \in Chat, chat' = [chat EXCEPT !.mode = "sublink", !.qr = TRUE]
  PROVE  /\ chat' \in Chat
         /\ chat'.mode = "sublink" /\ chat'.slot = chat.slot /\ chat'.send = chat.send
BY DEF Chat, Modes, NoChat

LEMMA ChatHasLink ==
  ASSUME chat \in Chat, NEW o \in Orders, chat' = [chat EXCEPT !.link = o]
  PROVE  /\ chat' \in Chat
         /\ chat'.mode = chat.mode /\ chat'.slot = chat.slot /\ chat'.send = chat.send /\ chat'.link = o
BY DEF Chat, Modes, NoChat

LEMMA ChatAsksManual ==
  ASSUME chat \in Chat, NEW o \in Orders, chat' = [chat EXCEPT !.mode = "manual", !.link = o]
  PROVE  /\ chat' \in Chat
         /\ chat'.mode = "manual" /\ chat'.slot = chat.slot /\ chat'.send = chat.send /\ chat'.link = o
BY DEF Chat, Modes, NoChat

LEMMA Displacing == \A o \in Orders \cup {NoOrder} : Displaced(o) \subseteq Orders
BY DEF Displaced

(* Both ways of ending a manual delivery keep the types.                   *)
LEMMA FinalizeTyping ==
  ASSUME Typing, NEW w \in Workers, NEW p \in Orders, FinalizeSend(w, p),
         UNCHANGED <<recorded, cut, card, services, buttons, listed, asked, spent>>
  PROVE  Typing'
<1>1. /\ chat \in Chat /\ task \in [Workers -> Task] /\ disturbed \subseteq Orders
      /\ chat.send \in Orders \cup {NoOrder}
  BY DEF Typing, TypeOK, Chat
<1>2. CASE chat.send = NoOrder \/ ~chat.qr
  <2>1. chat' \in Chat /\ chat'.mode = "free"
    BY <1>1, <1>2, ChatCleared DEF FinalizeSend
  <2>2. /\ task' \in [Workers -> Task] /\ Others(w) /\ task'[w].at = "idle"
    BY <1>1, <1>2, Stops DEF FinalizeSend
  <2>3. disturbed' \subseteq Orders /\ UNCHANGED <<status, configs>>
    BY <1>1, <1>2, Displacing DEF FinalizeSend
  <2>4. QED
    BY <2>1, <2>2, <2>3 DEF Typing, TypeOK, Busy, Others
<1>3. CASE ~(chat.send = NoOrder \/ ~chat.qr)
  <2> DEFINE o == chat.send
  <2>1. chat' = [chat EXCEPT !.link = p] /\ UNCHANGED disturbed /\ o \in Orders
    BY <1>1, <1>3 DEF FinalizeSend
  <2>2. /\ chat' \in Chat /\ chat'.mode = chat.mode /\ chat'.slot = chat.slot
        /\ chat'.send = chat.send /\ chat'.link = p
    BY <1>1, <2>1, ChatHasLink
  <2>3. /\ task' \in [Workers -> Task] /\ Others(w)
        /\ task'[w].at = "idle" \/ (task'[w].at = "log" /\ task'[w].order = o /\ task'[w].link = p)
    BY <1>1, <1>3, <2>1, Begins, Stops DEF FinalizeSend, Steps, Paths
  <2>4. /\ configs' = [configs EXCEPT ![o] = @ \cup {p}]
        /\ status' = [status EXCEPT ![o] = "fulfilled"] \/ UNCHANGED status
    BY <1>3 DEF FinalizeSend, SetStatus
  <2>5. QED
    BY <2>1, <2>2, <2>3, <2>4 DEF Typing, TypeOK, Busy, Others, States
<1>4. QED
  BY <1>2, <1>3

(* Every variable keeps its type.                                          *)
LEMMA TypingStep == Typing /\ [Next]_vars => Typing'
<1> SUFFICES ASSUME Typing, [Next]_vars PROVE Typing'
  OBVIOUS
<1> USE FulfilmentAssumption
    DEF Typing, TypeOK, Busy, Others, Steps, Paths, Modes, States, Free, SetStatus, Spend
<1>1. ASSUME NEW w \in Workers, NEW o \in Orders, NEW v \in Vias, BuyPlan(w, o, v) PROVE Typing'
  <2>1. /\ task' \in [Workers -> Task] /\ Others(w) /\ task'[w].at = "claim"
        /\ task'[w].order = o /\ task'[w].link = o
    BY <1>1, Begins DEF BuyPlan
  <2>2. QED
    BY <1>1, <2>1 DEF BuyPlan
<1>2. ASSUME NEW w \in Workers, NEW o \in Orders, NEW v \in Vias, BuyCustom(w, o, v) PROVE Typing'
  <2>1. /\ task' \in [Workers -> Task] /\ Others(w) /\ task'[w].at = "settle"
        /\ task'[w].order = o /\ task'[w].link = o
    BY <1>2, Begins DEF BuyCustom
  <2>2. QED
    BY <1>2, <2>1 DEF BuyCustom
<1>3. ASSUME NEW o \in Orders, CardPlan(o) \/ CardCustom(o) PROVE Typing'
  BY <1>3 DEF CardPlan, CardCustom
<1>4. ASSUME NEW o \in Orders, ApproveCustom(o) \/ RejectCustom(o) PROVE Typing'
  BY <1>4 DEF ApproveCustom, RejectCustom
<1>5. ASSUME NEW w \in Workers, Settle(w) PROVE Typing'
  BY <1>5, Moves DEF Settle
<1>6. ASSUME NEW w \in Workers, Claim(w) PROVE Typing'
  BY <1>6, Moves, Stops DEF Claim
<1>7. ASSUME NEW w \in Workers, NoPanel(w) PROVE Typing'
  BY <1>7, Moves DEF NoPanel
<1>8. ASSUME NEW w \in Workers, CreateFails(w) PROVE Typing'
  BY <1>8, Moves, Stops DEF CreateFails, Released
<1>9. ASSUME NEW w \in Workers, Created(w) PROVE Typing'
  BY <1>9, Moves DEF Created
<1>10. ASSUME NEW w \in Workers, HasLink(w) PROVE Typing'
  BY <1>10, Moves DEF HasLink
<1>11. ASSUME NEW w \in Workers, NoLink(w) PROVE Typing'
  <2> DEFINE o == task[w].order
  <2>1. o \in Orders
    BY <1>11 DEF NoLink
  <2>2. chat' \in Chat /\ chat'.mode = "link" /\ chat'.slot = o /\ chat'.send = chat.send
    BY <1>11, <2>1, ChatAsksLink DEF NoLink
  <2>3. /\ task' \in [Workers -> Task] /\ Others(w) /\ task'[w].at = "idle"
    BY <1>11, Stops DEF NoLink
  <2>4. asked' \subseteq Orders /\ disturbed' \subseteq Orders
    BY <1>11, <2>1, Displacing DEF NoLink
  <2>5. QED
    BY <1>11, <2>1, <2>2, <2>3, <2>4 DEF NoLink
<1>12. ASSUME NEW w \in Workers, Store(w) PROVE Typing'
  BY <1>12, Moves DEF Store
<1>13. ASSUME NEW w \in Workers, Close(w) PROVE Typing'
  BY <1>13, Moves, Stops DEF Close
<1>14. ASSUME NEW w \in Workers, Log(w) PROVE Typing'
  BY <1>14, Stops, ChatCleared DEF Log, Displaced
<1>15. ASSUME NEW w \in Workers, Notify(w) PROVE Typing'
  BY <1>15, Stops DEF Notify
<1>16. ASSUME NEW w \in Workers, Raise(w) PROVE Typing'
  BY <1>16, Moves, Stops DEF Raise
<1>17. ASSUME OpenQueue \/ ClearOrders PROVE Typing'
  BY <1>17 DEF OpenQueue, ClearOrders
<1>18. ASSUME SendPhoto PROVE Typing'
  BY <1>18, ChatHasPhoto DEF SendPhoto
<1>19. ASSUME NEW o \in Orders, Dismiss(o) PROVE Typing'
  BY <1>19 DEF Dismiss
<1>20. ASSUME NEW o \in Orders, StartSend(o) PROVE Typing'
  <2>1. chat' \in Chat /\ chat'.mode = "photo" /\ chat'.slot = chat.slot /\ chat'.send = o
    BY <1>20, ChatStartsSend DEF StartSend
  <2>2. disturbed' \subseteq Orders
    BY <1>20, Displacing DEF StartSend
  <2>3. QED
    BY <1>20, <2>1, <2>2 DEF StartSend
<1>21. ASSUME NEW w \in Workers, NEW o \in Orders, PanelSend(w, o) PROVE Typing'
  <2>1. /\ task' \in [Workers -> Task] /\ Others(w) /\ task'[w].at = "create"
        /\ task'[w].order = o /\ task'[w].link = o
    BY <1>21, Begins DEF PanelSend
  <2>2. QED
    BY <1>21, <2>1 DEF PanelSend
<1>22. ASSUME NEW w \in Workers, NEW o \in Orders, Reply(w, o) PROVE Typing'
  <2>1. /\ task' \in [Workers -> Task] /\ Others(w) /\ task'[w].at = "deliver"
        /\ task'[w].order = chat.slot /\ task'[w].link = o
    BY <1>22, Begins DEF Reply
  <2>2. QED
    BY <1>22, <2>1 DEF Reply
<1>23. ASSUME NEW w \in Workers, NEW o \in Orders, SendLink(w, o) PROVE Typing'
  <2>1. /\ task' \in [Workers -> Task] /\ Others(w) /\ task'[w].at = "extract"
        /\ task'[w].order = chat.send /\ task'[w].link = o
    BY <1>23, Begins DEF SendLink
  <2>2. QED
    BY <1>23, <2>1 DEF SendLink
<1>24. ASSUME NEW w \in Workers, Extracted(w) PROVE Typing'
  BY <1>24, FinalizeTyping DEF Extracted
<1>25. ASSUME NEW w \in Workers, AskManual(w) PROVE Typing'
  <2> DEFINE p == task[w].link
  <2>1. p \in Orders
    BY <1>25 DEF AskManual
  <2>2. /\ chat' \in Chat /\ chat'.mode = "manual" /\ chat'.slot = chat.slot
        /\ chat'.send = chat.send /\ chat'.link = p
    BY <1>25, <2>1, ChatAsksManual DEF AskManual
  <2>3. /\ task' \in [Workers -> Task] /\ Others(w) /\ task'[w].at = "idle"
    BY <1>25, Stops DEF AskManual
  <2>4. disturbed' \subseteq Orders
    BY <1>25, Displacing DEF AskManual
  <2>5. QED
    BY <1>25, <2>1, <2>2, <2>3, <2>4 DEF AskManual
<1>26. ASSUME NEW w \in Workers, SendManual(w) PROVE Typing'
  BY <1>26, FinalizeTyping DEF SendManual
<1>27. ASSUME Crash PROVE Typing'
  <2>1. Idle \in Task /\ Idle.at = "idle"
    BY DEF Idle, Task
  <2>2. /\ task' \in [Workers -> Task] /\ \A w \in Workers : task'[w].at = "idle"
    BY <1>27, <2>1 DEF Crash
  <2>3. \A w \in Workers : task[w].order \in Orders \cup {NoOrder}
    BY DEF Task
  <2>4. QED
    BY <1>27, <2>2, <2>3 DEF Crash
<1>28. ASSUME UNCHANGED vars PROVE Typing'
  BY <1>28 DEF vars
<1>29. ASSUME NEW o \in Orders, Interrupted(o) PROVE Typing'
  BY <1>29 DEF Interrupted
<1> HIDE DEF Typing
<1>30. QED
  BY <1>1, <1>2, <1>3, <1>4, <1>5, <1>6, <1>7, <1>8, <1>9, <1>10, <1>11, <1>12, <1>13, <1>14,
     <1>15, <1>16, <1>17, <1>18, <1>19, <1>20, <1>21, <1>22, <1>23, <1>24, <1>25, <1>26, <1>27, <1>28, <1>29
  DEF Next, Work, Purchase, Admin

-----------------------------------------------------------------------------
(* What the actions do to the records of the workers and to the            *)
(* conversation, where more than one helper is involved.                   *)
LEMMA BuyEffect ==
  ASSUME task \in [Workers -> Task], NEW w \in Workers, NEW o \in Orders, NEW v \in Vias,
         BuyPlan(w, o, v) \/ BuyCustom(w, o, v)
  PROVE  Others(w) /\ task'[w].at \in {"claim", "settle"} /\ task'[w].order = o
BY Begins DEF BuyPlan, BuyCustom, Steps, Paths

LEMMA PressEffect ==
  ASSUME task \in [Workers -> Task], NEW w \in Workers, NEW o \in Orders, PanelSend(w, o)
  PROVE  Others(w) /\ task'[w].at = "create" /\ task'[w].order = o
BY Begins DEF PanelSend, Steps, Paths

LEMMA ReplyEffect ==
  ASSUME task \in [Workers -> Task], NEW w \in Workers, NEW p \in Orders, Reply(w, p),
         chat.slot \in Orders
  PROVE  Others(w) /\ task'[w].at = "deliver" /\ task'[w].order = chat.slot
BY Begins DEF Reply, Steps, Paths

LEMMA SendLinkEffect ==
  ASSUME task \in [Workers -> Task], NEW w \in Workers, NEW p \in Orders, SendLink(w, p),
         chat.send \in Orders
  PROVE  Others(w) /\ task'[w].at = "extract" /\ task'[w].order = chat.send
BY Begins DEF SendLink, Steps, Paths

LEMMA NoLinkEffect ==
  ASSUME chat \in Chat, NEW w \in Workers, task[w].order \in Orders, NoLink(w)
  PROVE  /\ chat'.mode = "link" /\ chat'.slot = task[w].order /\ chat'.send = chat.send
BY ChatAsksLink DEF NoLink

LEMMA AskManualEffect ==
  ASSUME chat \in Chat, NEW w \in Workers, task[w].link \in Orders, AskManual(w)
  PROVE  chat'.mode = "manual" /\ chat'.slot = chat.slot /\ chat'.send = chat.send
BY ChatAsksManual DEF AskManual

LEMMA CrashEffect ==
  ASSUME Crash
  PROVE  \A w \in Workers : task'[w].at = "idle" /\ task'[w].order = NoOrder
BY DEF Crash, Idle

(* What _finalize_send by worker w with the link p may change.             *)
Finalized(w, p) ==
  /\ Others(w) /\ task'[w].at \in {"idle", "log"}
  /\ task'[w].order \in {NoOrder, chat.send}
  /\ chat'.slot \in {NoOrder, chat.slot} /\ chat'.send \in {NoOrder, chat.send}
  /\ \A o \in Orders :
       /\ configs[o] # {} => configs'[o] # {}
       /\ configs'[o] # configs[o] => o = chat.send
       /\ status'[o] # status[o] =>
            /\ o = chat.send /\ status'[o] = "fulfilled"
            /\ Legal(o, "fulfilled") /\ configs'[o] # {}

LEMMA FinalizeEffect ==
  ASSUME TypeOK, NEW w \in Workers, NEW p \in Orders, FinalizeSend(w, p)
  PROVE  Finalized(w, p)
<1> USE DEF Finalized
<1>a. task \in [Workers -> Task] /\ chat \in Chat
  BY DEF TypeOK
<1>1. chat.send \in Orders \cup {NoOrder}
  BY <1>a DEF Chat
<1>2. CASE chat.send = NoOrder \/ ~chat.qr
  <2>1. chat'.slot = NoOrder /\ chat'.send = NoOrder
    BY <1>a, <1>2, ChatCleared DEF FinalizeSend
  <2>2. Others(w) /\ task'[w].at = "idle" /\ task'[w].order = NoOrder
    BY <1>a, <1>2, Stops DEF FinalizeSend
  <2>3. UNCHANGED <<status, configs>>
    BY <1>2 DEF FinalizeSend
  <2>4. QED
    BY <2>1, <2>2, <2>3
<1>3. CASE ~(chat.send = NoOrder \/ ~chat.qr)
  <2>1. chat' = [chat EXCEPT !.link = p] /\ chat.send \in Orders
    BY <1>a, <1>1, <1>3 DEF FinalizeSend
  <2>2. chat'.slot = chat.slot /\ chat'.send = chat.send
    BY <1>a, <2>1, ChatHasLink
  <2>3. /\ Others(w)
        /\ \/ task'[w].at = "idle" /\ task'[w].order = NoOrder
           \/ task'[w].at = "log" /\ task'[w].order = chat.send
    <3>1. Starts(w, "log", chat.send, p, "hand") \/ Ends(w)
      BY <1>3 DEF FinalizeSend
    <3>2. QED
      BY <1>a, <2>1, <3>1, Begins, Stops DEF Steps, Paths
  <2>4. /\ configs' = [configs EXCEPT ![chat.send] = @ \cup {p}]
        /\ \/ UNCHANGED status
           \/ /\ Legal(chat.send, "fulfilled")
              /\ status' = [status EXCEPT ![chat.send] = "fulfilled"]
    BY <1>3 DEF FinalizeSend, SetStatus
  <2>5. \A o \in Orders :
          /\ configs'[o] = IF o = chat.send THEN configs[o] \cup {p} ELSE configs[o]
          /\ status'[o] # status[o] =>
               o = chat.send /\ status'[o] = "fulfilled" /\ Legal(o, "fulfilled")
    BY <2>1, <2>4 DEF TypeOK
  <2>6. QED
    BY <2>1, <2>2, <2>3, <2>5
<1>4. QED
  BY <1>2, <1>3

(* An order is closed after something was stored for its buyer.            *)
LEMMA DeliveryStep == Typing /\ Stored /\ FulfilledDelivered /\ [Next]_vars => Stored' /\ FulfilledDelivered'
<1> SUFFICES ASSUME Typing /\ Stored /\ FulfilledDelivered, [Next]_vars PROVE Stored' /\ FulfilledDelivered'
  OBVIOUS
<1> USE FulfilmentAssumption
    DEF Typing, TypeOK, Busy, Stored, FulfilledDelivered, Others, Steps, Paths, Free, SetStatus
<1>1. ASSUME NEW w \in Workers, NEW o \in Orders, NEW v \in Vias, BuyPlan(w, o, v) PROVE Stored' /\ FulfilledDelivered'
  <2>1. Others(w) /\ task'[w].at \in {"claim", "settle"} /\ task'[w].order = o
    BY <1>1, BuyEffect
  <2>2. QED
    BY <1>1, <2>1 DEF BuyPlan
<1>2. ASSUME NEW w \in Workers, NEW o \in Orders, NEW v \in Vias, BuyCustom(w, o, v) PROVE Stored' /\ FulfilledDelivered'
  <2>1. Others(w) /\ task'[w].at \in {"claim", "settle"} /\ task'[w].order = o
    BY <1>2, BuyEffect
  <2>2. QED
    BY <1>2, <2>1 DEF BuyCustom
<1>3. ASSUME NEW o \in Orders, CardPlan(o) \/ CardCustom(o) PROVE Stored' /\ FulfilledDelivered'
  BY <1>3 DEF CardPlan, CardCustom
<1>4. ASSUME NEW o \in Orders, ApproveCustom(o) \/ RejectCustom(o) PROVE Stored' /\ FulfilledDelivered'
  BY <1>4 DEF ApproveCustom, RejectCustom
<1>5. ASSUME NEW w \in Workers, Settle(w) PROVE Stored' /\ FulfilledDelivered'
  BY <1>5, Moves DEF Settle
<1>6. ASSUME NEW w \in Workers, Claim(w) PROVE Stored' /\ FulfilledDelivered'
  BY <1>6, Moves, Stops DEF Claim, Claimable
<1>7. ASSUME NEW w \in Workers, NoPanel(w) PROVE Stored' /\ FulfilledDelivered'
  BY <1>7, Moves DEF NoPanel
<1>8. ASSUME NEW w \in Workers, CreateFails(w) PROVE Stored' /\ FulfilledDelivered'
  BY <1>8, Moves, Stops DEF CreateFails, Released, Legal
<1>9. ASSUME NEW w \in Workers, Created(w) \/ HasLink(w) PROVE Stored' /\ FulfilledDelivered'
  BY <1>9, Moves DEF Created, HasLink
<1>10. ASSUME NEW w \in Workers, NoLink(w) PROVE Stored' /\ FulfilledDelivered'
  <2>1. task[w].order \in Orders
    BY <1>10 DEF NoLink
  <2>2. chat'.mode = "link" /\ chat'.slot = task[w].order /\ chat'.send = chat.send
    BY <1>10, <2>1, NoLinkEffect
  <2>3. task' \in [Workers -> Task] /\ Others(w) /\ task'[w].at = "idle" /\ task'[w].order = NoOrder
    BY <1>10, Stops DEF NoLink
  <2>4. QED
    BY <1>10, <2>1, <2>2, <2>3 DEF NoLink
<1>11. ASSUME NEW w \in Workers, Store(w) PROVE Stored' /\ FulfilledDelivered'
  <2>1. task' \in [Workers -> Task] /\ Others(w) /\ task'[w].at = "close" /\ task'[w].order = task[w].order
    BY <1>11, Moves DEF Store
  <2>2. task[w].order \in Orders /\ configs'[task[w].order] # {}
    BY <1>11 DEF Store
  <2>3. QED
    BY <1>11, <2>1, <2>2 DEF Store
<1>12. ASSUME NEW w \in Workers, Close(w) PROVE Stored' /\ FulfilledDelivered'
  BY <1>12, Moves, Stops DEF Close, Legal
<1>13. ASSUME NEW w \in Workers, Log(w) PROVE Stored' /\ FulfilledDelivered'
  BY <1>13, Stops, ChatCleared DEF Log
<1>14. ASSUME NEW w \in Workers, Notify(w) PROVE Stored' /\ FulfilledDelivered'
  BY <1>14, Stops DEF Notify
<1>15. ASSUME NEW w \in Workers, Raise(w) PROVE Stored' /\ FulfilledDelivered'
  BY <1>15, Moves, Stops DEF Raise
<1>16. ASSUME OpenQueue \/ ClearOrders PROVE Stored' /\ FulfilledDelivered'
  BY <1>16 DEF OpenQueue, ClearOrders
<1>17. ASSUME SendPhoto PROVE Stored' /\ FulfilledDelivered'
  BY <1>17, ChatHasPhoto DEF SendPhoto
<1>18. ASSUME NEW o \in Orders, Dismiss(o) PROVE Stored' /\ FulfilledDelivered'
  BY <1>18 DEF Dismiss, Legal
<1>19. ASSUME NEW o \in Orders, StartSend(o) PROVE Stored' /\ FulfilledDelivered'
  BY <1>19, ChatStartsSend DEF StartSend
<1>20. ASSUME NEW w \in Workers, NEW o \in Orders, PanelSend(w, o) PROVE Stored' /\ FulfilledDelivered'
  BY <1>20, PressEffect DEF PanelSend
<1>21. ASSUME NEW w \in Workers, NEW o \in Orders, Reply(w, o) PROVE Stored' /\ FulfilledDelivered'
  BY <1>21, ReplyEffect DEF Reply
<1>22. ASSUME NEW w \in Workers, NEW o \in Orders, SendLink(w, o) PROVE Stored' /\ FulfilledDelivered'
  BY <1>22, SendLinkEffect DEF SendLink
<1>23. ASSUME NEW w \in Workers, Extracted(w) PROVE Stored' /\ FulfilledDelivered'
  <2>1. task[w].link \in Orders /\ FinalizeSend(w, task[w].link)
    BY <1>23 DEF Extracted
  <2>2. Finalized(w, task[w].link)
    BY <2>1, FinalizeEffect
  <2>3. ASSUME NEW u \in Workers, task'[u].at = "close"
        PROVE  configs'[task'[u].order] # {}
    <3>1. task'[u] = task[u]
      BY <2>2, <2>3 DEF Finalized
    <3>2. task[u].order \in Orders /\ configs[task[u].order] # {}
      BY <2>3, <3>1
    <3>3. QED
      BY <2>2, <3>1, <3>2 DEF Finalized
  <2>4. ASSUME NEW o \in Orders, status'[o] = "fulfilled"
        PROVE  configs'[o] # {}
    BY <2>2, <2>4 DEF Finalized
  <2>5. QED
    BY <2>3, <2>4
<1>24. ASSUME NEW w \in Workers, AskManual(w) PROVE Stored' /\ FulfilledDelivered'
  BY <1>24, Stops, AskManualEffect DEF AskManual
<1>25. ASSUME NEW w \in Workers, SendManual(w) PROVE Stored' /\ FulfilledDelivered'
  <2>1. chat.link \in Orders /\ FinalizeSend(w, chat.link)
    BY <1>25 DEF SendManual
  <2>2. Finalized(w, chat.link)
    BY <2>1, FinalizeEffect
  <2>3. ASSUME NEW u \in Workers, task'[u].at = "close"
        PROVE  configs'[task'[u].order] # {}
    <3>1. task'[u] = task[u]
      BY <2>2, <2>3 DEF Finalized
    <3>2. task[u].order \in Orders /\ configs[task[u].order] # {}
      BY <2>3, <3>1
    <3>3. QED
      BY <2>2, <3>1, <3>2 DEF Finalized
  <2>4. ASSUME NEW o \in Orders, status'[o] = "fulfilled"
        PROVE  configs'[o] # {}
    BY <2>2, <2>4 DEF Finalized
  <2>5. QED
    BY <2>3, <2>4
<1>26. ASSUME Crash PROVE Stored' /\ FulfilledDelivered'
  BY <1>26, CrashEffect DEF Crash
<1>27. ASSUME NEW o \in Orders, Interrupted(o) PROVE Stored' /\ FulfilledDelivered'
  BY <1>27 DEF Interrupted
<1>28. ASSUME UNCHANGED vars PROVE Stored' /\ FulfilledDelivered'
  BY <1>28 DEF vars
<1> HIDE DEF Stored, FulfilledDelivered
<1>29. QED
  BY <1>1, <1>2, <1>3, <1>4, <1>5, <1>6, <1>7, <1>8, <1>9, <1>10, <1>11, <1>12, <1>13, <1>14,
     <1>15, <1>16, <1>17, <1>18, <1>19, <1>20, <1>21, <1>22, <1>23, <1>24, <1>25, <1>26, <1>27, <1>28
  DEF Next, Work, Purchase, Admin

(* Nobody can act on an order before its purchase is recorded.              *)
LEMMA LedgerStep == Typing /\ Ledger /\ [Next]_vars => Ledger'
<1> SUFFICES ASSUME Typing /\ Ledger, [Next]_vars PROVE Ledger'
  OBVIOUS
<1> USE FulfilmentAssumption
    DEF Typing, TypeOK, Busy, Ledger, Fresh, Unbought, Undecided, Charged, Trail, NoServiceUnpaid, InReceipts, InQueue,
        Others, Steps, Paths, Free, SetStatus
<1>1. ASSUME NEW w \in Workers, NEW o \in Orders, NEW v \in Vias, BuyPlan(w, o, v) PROVE Ledger'
  <2>1. Others(w) /\ task'[w].at \in {"claim", "settle"} /\ task'[w].order = o
    BY <1>1, BuyEffect
  <2>2. QED
    BY <1>1, <2>1 DEF BuyPlan
<1>2. ASSUME NEW w \in Workers, NEW o \in Orders, NEW v \in Vias, BuyCustom(w, o, v) PROVE Ledger'
  <2>1. Others(w) /\ task'[w].at \in {"claim", "settle"} /\ task'[w].order = o
    BY <1>2, BuyEffect
  <2>2. QED
    BY <1>2, <2>1 DEF BuyCustom
<1>3. ASSUME NEW o \in Orders, CardPlan(o) \/ CardCustom(o) PROVE Ledger'
  BY <1>3 DEF CardPlan, CardCustom
<1>4. ASSUME NEW o \in Orders, ApproveCustom(o) \/ RejectCustom(o) PROVE Ledger'
  BY <1>4 DEF ApproveCustom, RejectCustom
<1>5. ASSUME NEW w \in Workers, Settle(w) PROVE Ledger'
  BY <1>5, Moves DEF Settle
<1>6. ASSUME NEW w \in Workers, Claim(w) PROVE Ledger'
  BY <1>6, Moves, Stops DEF Claim, Claimable
<1>7. ASSUME NEW w \in Workers, NoPanel(w) PROVE Ledger'
  BY <1>7, Moves DEF NoPanel
<1>8. ASSUME NEW w \in Workers, CreateFails(w) PROVE Ledger'
  BY <1>8, Moves, Stops DEF CreateFails, Released, Legal
<1>9. ASSUME NEW w \in Workers, Created(w) \/ HasLink(w) PROVE Ledger'
  BY <1>9, Moves DEF Created, HasLink
<1>10. ASSUME NEW w \in Workers, NoLink(w) PROVE Ledger'
  <2>1. task[w].order \in Orders
    BY <1>10 DEF NoLink
  <2>2. chat'.mode = "link" /\ chat'.slot = task[w].order /\ chat'.send = chat.send
    BY <1>10, <2>1, NoLinkEffect
  <2>3. task' \in [Workers -> Task] /\ Others(w) /\ task'[w].at = "idle" /\ task'[w].order = NoOrder
    BY <1>10, Stops DEF NoLink
  <2>4. QED
    BY <1>10, <2>1, <2>2, <2>3 DEF NoLink
<1>11. ASSUME NEW w \in Workers, Store(w) PROVE Ledger'
  BY <1>11, Moves DEF Store
<1>12. ASSUME NEW w \in Workers, Close(w) PROVE Ledger'
  BY <1>12, Moves, Stops DEF Close, Legal
<1>13. ASSUME NEW w \in Workers, Log(w) PROVE Ledger'
  BY <1>13, Stops, ChatCleared DEF Log
<1>14. ASSUME NEW w \in Workers, Notify(w) PROVE Ledger'
  BY <1>14, Stops DEF Notify
<1>15. ASSUME NEW w \in Workers, Raise(w) PROVE Ledger'
  BY <1>15, Moves, Stops DEF Raise
<1>16. ASSUME OpenQueue \/ ClearOrders PROVE Ledger'
  BY <1>16 DEF OpenQueue, ClearOrders
<1>17. ASSUME SendPhoto PROVE Ledger'
  BY <1>17, ChatHasPhoto DEF SendPhoto
<1>18. ASSUME NEW o \in Orders, Dismiss(o) PROVE Ledger'
  BY <1>18 DEF Dismiss, Legal
<1>19. ASSUME NEW o \in Orders, StartSend(o) PROVE Ledger'
  BY <1>19, ChatStartsSend DEF StartSend
<1>20. ASSUME NEW w \in Workers, NEW o \in Orders, PanelSend(w, o) PROVE Ledger'
  BY <1>20, PressEffect DEF PanelSend
<1>21. ASSUME NEW w \in Workers, NEW o \in Orders, Reply(w, o) PROVE Ledger'
  BY <1>21, ReplyEffect DEF Reply
<1>22. ASSUME NEW w \in Workers, NEW o \in Orders, SendLink(w, o) PROVE Ledger'
  BY <1>22, SendLinkEffect DEF SendLink
<1>23. ASSUME NEW w \in Workers, Extracted(w) PROVE Ledger'
  <2>1. task[w].link \in Orders /\ FinalizeSend(w, task[w].link)
    BY <1>23 DEF Extracted
  <2>2. Finalized(w, task[w].link)
    BY <2>1, FinalizeEffect
  <2>3. UNCHANGED <<recorded, cut, card, services, buttons, listed>>
    BY <1>23 DEF Extracted
  <2>4. QED
    BY <2>2, <2>3 DEF Finalized
<1>24. ASSUME NEW w \in Workers, AskManual(w) PROVE Ledger'
  BY <1>24, Stops, AskManualEffect DEF AskManual
<1>25. ASSUME NEW w \in Workers, SendManual(w) PROVE Ledger'
  <2>1. chat.link \in Orders /\ FinalizeSend(w, chat.link)
    BY <1>25 DEF SendManual
  <2>2. Finalized(w, chat.link)
    BY <2>1, FinalizeEffect
  <2>3. UNCHANGED <<recorded, cut, card, services, buttons, listed>>
    BY <1>25 DEF SendManual
  <2>4. QED
    BY <2>2, <2>3 DEF Finalized
<1>26. ASSUME Crash PROVE Ledger'
  BY <1>26, CrashEffect DEF Crash
<1>27. ASSUME NEW o \in Orders, Interrupted(o) PROVE Ledger'
  BY <1>27 DEF Interrupted
<1>28. ASSUME UNCHANGED vars PROVE Ledger'
  BY <1>28 DEF vars
<1> HIDE DEF Ledger
<1>29. QED
  BY <1>1, <1>2, <1>3, <1>4, <1>5, <1>6, <1>7, <1>8, <1>9, <1>10, <1>11, <1>12, <1>13, <1>14,
     <1>15, <1>16, <1>17, <1>18, <1>19, <1>20, <1>21, <1>22, <1>23, <1>24, <1>25, <1>26, <1>27, <1>28
  DEF Next, Work, Purchase, Admin

-----------------------------------------------------------------------------
(* An order still open may be closed.                                      *)
LEMMA OpenMayClose ==
  ASSUME TypeOK, NEW o \in Orders, status[o] \in Open
  PROVE  Legal(o, "fulfilled")
BY DEF TypeOK, Legal, Allowed, Open, States

(* Ending a manual delivery takes no open order out of the conversation    *)
(* unnoticed.                                                              *)
LEMMA FinalizeKeeps ==
  ASSUME Typing, NEW w \in Workers, NEW p \in Orders, FinalizeSend(w, p)
  PROVE  \A q \in Orders :
           /\ q \in disturbed => q \in disturbed'
           /\ Holds(q) /\ status[q] \in Open => Holds(q)' \/ q \in disturbed'
<1>1. chat \in Chat /\ NoOrder \notin Orders
  BY FulfilmentAssumption DEF Typing, TypeOK
<1>2. CASE chat.send = NoOrder \/ ~chat.qr
  BY <1>1, <1>2 DEF FinalizeSend, Displaced, Holds
<1>3. CASE ~(chat.send = NoOrder \/ ~chat.qr)
  <2>1. chat' = [chat EXCEPT !.link = p] /\ UNCHANGED disturbed
    BY <1>3 DEF FinalizeSend
  <2>2. chat'.mode = chat.mode /\ chat'.slot = chat.slot
    BY <1>1, <2>1, ChatHasLink
  <2>3. QED
    BY <2>1, <2>2 DEF Holds
<1>4. QED
  BY <1>2, <1>3

(* An open order that no list shows is with somebody, or was disturbed.    *)
LEMMA ReachStep == Typing /\ Reachable /\ [Next]_vars => Reachable'
<1> SUFFICES ASSUME Typing /\ Reachable, [Next]_vars PROVE Reachable'
  OBVIOUS
<1> USE FulfilmentAssumption
    DEF Typing, TypeOK, Busy, Reachable, Found, Hidden, Carried, Holds, Displaced, InReceipts, InQueue,
        Others, Steps, Paths, Free, SetStatus, Open
<1>1. ASSUME NEW w \in Workers, NEW o \in Orders, NEW v \in Vias, BuyPlan(w, o, v) PROVE Reachable'
  <2>1. Others(w) /\ task'[w].at = "claim" /\ task'[w].via = v
    BY <1>1, Begins DEF BuyPlan
  <2>2. \A q \in Orders : Hidden(q)' => Hidden(q)
    BY <1>1 DEF BuyPlan
  <2>3. \A q \in Orders : Found(q) => Found(q)'
    BY <1>1, <2>1 DEF BuyPlan
  <2>4. QED
    BY <2>1, <2>2, <2>3
<1>2. ASSUME NEW w \in Workers, NEW o \in Orders, NEW v \in Vias, BuyCustom(w, o, v) PROVE Reachable'
  <2>1. Others(w) /\ task'[w].at = "settle" /\ task'[w].via = v
    BY <1>2, Begins DEF BuyCustom
  <2>2. \A q \in Orders : Hidden(q)' => Hidden(q)
    BY <1>2 DEF BuyCustom
  <2>3. \A q \in Orders : Found(q) => Found(q)'
    BY <1>2, <2>1 DEF BuyCustom
  <2>4. QED
    BY <2>1, <2>2, <2>3
<1>3. ASSUME NEW o \in Orders, CardPlan(o) \/ CardCustom(o) PROVE Reachable'
  BY <1>3 DEF CardPlan, CardCustom
<1>4. ASSUME NEW o \in Orders, ApproveCustom(o) \/ RejectCustom(o) PROVE Reachable'
  BY <1>4 DEF ApproveCustom, RejectCustom
<1>5. ASSUME NEW w \in Workers, Settle(w) PROVE Reachable'
  BY <1>5, Moves DEF Settle
<1>6. ASSUME NEW w \in Workers, Claim(w) PROVE Reachable'
  BY <1>6, Moves, Stops DEF Claim, Claimable
<1>7. ASSUME NEW w \in Workers, NoPanel(w) PROVE Reachable'
  BY <1>7, Moves DEF NoPanel
<1>8. ASSUME NEW w \in Workers, CreateFails(w) PROVE Reachable'
  BY <1>8, Moves, Stops DEF CreateFails, Released, Legal
<1>9. ASSUME NEW w \in Workers, Created(w) \/ HasLink(w) PROVE Reachable'
  BY <1>9, Moves DEF Created, HasLink
<1>10. ASSUME NEW w \in Workers, NoLink(w) PROVE Reachable'
  <2>1. task[w].order \in Orders
    BY <1>10 DEF NoLink
  <2>2. chat'.mode = "link" /\ chat'.slot = task[w].order
    BY <1>10, <2>1, NoLinkEffect
  <2>3. Others(w) /\ task'[w].at = "idle"
    BY <1>10, Stops DEF NoLink
  <2>4. \A q \in Orders : Hidden(q)' => Hidden(q)
    BY <1>10 DEF NoLink
  <2>5. \A q \in Orders : Hidden(q) /\ Found(q) => Found(q)'
    BY <1>10, <2>1, <2>2, <2>3 DEF NoLink
  <2>6. QED
    BY <2>3, <2>4, <2>5
<1>11. ASSUME NEW w \in Workers, Store(w) PROVE Reachable'
  BY <1>11, Moves DEF Store
<1>12. ASSUME NEW w \in Workers, Close(w) PROVE Reachable'
  <2> DEFINE o == task[w].order
  <2>1. o \in Orders
    BY <1>12 DEF Close
  <2>2. Others(w) /\ task'[w].at \in {"idle", "log", "notify"}
    BY <1>12, Moves, Stops DEF Close
  <2>3. \A q \in Orders : Hidden(q)' => Hidden(q) /\ q # o
    BY <1>12, <2>1, OpenMayClose DEF Close
  <2>4. \A q \in Orders \ {o} : Found(q) => Found(q)'
    BY <1>12, <2>2 DEF Close
  <2>5. QED
    BY <2>2, <2>3, <2>4
<1>13. ASSUME NEW w \in Workers, Log(w) PROVE Reachable'
  BY <1>13, Stops, ChatCleared DEF Log
<1>14. ASSUME NEW w \in Workers, Notify(w) PROVE Reachable'
  <2> DEFINE o == task[w].order
  <2>1. o \in Orders /\ buttons'[o] # {}
    BY <1>14 DEF Notify
  <2>2. Others(w) /\ task'[w].at = "idle"
    BY <1>14, Stops DEF Notify
  <2>3. \A q \in Orders \ {o} : Found(q) => Found(q)'
    BY <1>14, <2>2 DEF Notify
  <2>4. QED
    BY <1>14, <2>1, <2>2, <2>3 DEF Notify
<1>15. ASSUME NEW w \in Workers, Raise(w) PROVE Reachable'
  BY <1>15, Moves, Stops DEF Raise
<1>16. ASSUME OpenQueue \/ ClearOrders PROVE Reachable'
  BY <1>16 DEF OpenQueue, ClearOrders
<1>17. ASSUME SendPhoto PROVE Reachable'
  BY <1>17, ChatHasPhoto DEF SendPhoto
<1>18. ASSUME NEW o \in Orders, Dismiss(o) PROVE Reachable'
  BY <1>18 DEF Dismiss, Legal
<1>19. ASSUME NEW o \in Orders, StartSend(o) PROVE Reachable'
  BY <1>19, ChatStartsSend DEF StartSend
<1>20. ASSUME NEW w \in Workers, NEW o \in Orders, PanelSend(w, o) PROVE Reachable'
  <2>1. Others(w) /\ task'[w].at = "create" /\ task[w].at = "idle"
    BY <1>20, PressEffect DEF PanelSend
  <2>2. \A q \in Orders : Found(q) => Found(q)'
    BY <1>20, <2>1 DEF PanelSend
  <2>3. QED
    BY <1>20, <2>1, <2>2 DEF PanelSend
<1>21. ASSUME NEW w \in Workers, NEW o \in Orders, Reply(w, o) PROVE Reachable'
  BY <1>21, ReplyEffect DEF Reply
<1>22. ASSUME NEW w \in Workers, NEW o \in Orders, SendLink(w, o) PROVE Reachable'
  BY <1>22, SendLinkEffect DEF SendLink
<1>23. ASSUME NEW w \in Workers, Extracted(w) PROVE Reachable'
  <2>1. task[w].link \in Orders /\ FinalizeSend(w, task[w].link)
    BY <1>23 DEF Extracted
  <2>2. Finalized(w, task[w].link)
    BY <2>1, FinalizeEffect
  <2>3. \A q \in Orders : Hidden(q)' => Hidden(q)
    BY <2>2 DEF Finalized
  <2>4. \A q \in Orders : Carried(q) => Carried(q)'
    BY <1>23, <2>2 DEF Finalized, Extracted
  <2>5. \A q \in Orders : Hidden(q) /\ Found(q) => Found(q)'
    <3> HIDE DEF Carried, Holds
    <3>1. QED
      BY <1>23, <2>1, <2>4, FinalizeKeeps DEF Extracted
  <2>6. QED
    BY <2>2, <2>3, <2>5 DEF Finalized
<1>24. ASSUME NEW w \in Workers, AskManual(w) PROVE Reachable'
  BY <1>24, Stops, AskManualEffect DEF AskManual
<1>25. ASSUME NEW w \in Workers, SendManual(w) PROVE Reachable'
  <2>1. chat.link \in Orders /\ FinalizeSend(w, chat.link)
    BY <1>25 DEF SendManual
  <2>2. Finalized(w, chat.link)
    BY <2>1, FinalizeEffect
  <2>3. \A q \in Orders : Hidden(q)' => Hidden(q)
    BY <2>2 DEF Finalized
  <2>4. \A q \in Orders : Carried(q) => Carried(q)'
    BY <1>25, <2>2 DEF Finalized, SendManual
  <2>5. \A q \in Orders : Hidden(q) /\ Found(q) => Found(q)'
    <3> HIDE DEF Carried, Holds
    <3>1. QED
      BY <1>25, <2>1, <2>4, FinalizeKeeps DEF SendManual
  <2>6. QED
    BY <2>2, <2>3, <2>5 DEF Finalized
<1>26. ASSUME Crash PROVE Reachable'
  BY <1>26, CrashEffect DEF Crash
<1>27. ASSUME NEW o \in Orders, Interrupted(o) PROVE Reachable'
  BY <1>27 DEF Interrupted
<1>28. ASSUME UNCHANGED vars PROVE Reachable'
  BY <1>28 DEF vars
<1> HIDE DEF Reachable
<1>29. QED
  BY <1>1, <1>2, <1>3, <1>4, <1>5, <1>6, <1>7, <1>8, <1>9, <1>10, <1>11, <1>12, <1>13, <1>14,
     <1>15, <1>16, <1>17, <1>18, <1>19, <1>20, <1>21, <1>22, <1>23, <1>24, <1>25, <1>26, <1>27, <1>28
  DEF Next, Work, Purchase, Admin

-----------------------------------------------------------------------------
(* The account of what is made at the panel.                               *)
(* What one step may do to the workers that make o, and to the account:    *)
(* nothing new, one of them makes, a press adds one, or o is purchased now.*)
SameBook(o) == spent'["presses"] >= spent["presses"] /\ (o \in card' <=> o \in card)
Calm(o) == Makers(o)' \subseteq Makers(o) /\ services'[o] = services[o] /\ SameBook(o)
Makes(o, w) ==
  /\ w \in Makers(o) /\ Makers(o)' \subseteq Makers(o) \ {w}
  /\ services'[o] = services[o] + 1 /\ SameBook(o)
Presses(o, w) ==
  /\ Makers(o)' \subseteq Makers(o) \cup {w} /\ services'[o] = services[o]
  /\ spent'["presses"] = spent["presses"] + 1 /\ (o \in card' <=> o \in card)
Bought(o, w) == Makers(o)' \subseteq {w} /\ services'[o] = 0 /\ o \notin card'
Unmade(o) == Makers(o)' = {} /\ services'[o] = 0

Effect(o) == Calm(o) \/ Unmade(o) \/ \E w \in Workers : Makes(o, w) \/ Presses(o, w) \/ Bought(o, w)

LEMMA EffectCounts ==
  ASSUME TypeOK, TypeOK', Counted, NEW o \in Orders, Effect(o)
  PROVE  /\ IsFiniteSet(Makers(o)')
         /\ services'[o] + Cardinality(Makers(o)') <= spent'["presses"] + (IF o \in card' THEN 0 ELSE 1)
<1> DEFINE M == Makers(o)
<1> DEFINE N == Makers(o)'
<1>1. IsFiniteSet(M) /\ services[o] + Cardinality(M) <= spent["presses"] + (IF o \in card THEN 0 ELSE 1)
  BY DEF Counted
<1>2. /\ services[o] \in Nat /\ services'[o] \in Nat
      /\ spent["presses"] \in Nat /\ spent'["presses"] \in Nat
  BY DEF TypeOK
<1>3. Cardinality(M) \in Nat
  BY <1>1, FS_CardinalityType
<1>4. CASE Calm(o)
  <2>1. N \subseteq M /\ services'[o] = services[o] /\ SameBook(o)
    BY <1>4 DEF Calm
  <2> HIDE DEF M, N
  <2>2. IsFiniteSet(N) /\ Cardinality(N) <= Cardinality(M)
    BY <1>1, <2>1, FS_Subset
  <2>3. Cardinality(N) \in Nat
    BY <2>2, FS_CardinalityType
  <2>4. services'[o] + Cardinality(N) <= spent'["presses"] + (IF o \in card' THEN 0 ELSE 1)
    BY <1>1, <1>2, <1>3, <2>1, <2>2, <2>3 DEF SameBook
  <2>5. QED
    BY <2>2, <2>4 DEF N
<1>5. ASSUME NEW w \in Workers, Makes(o, w)
      PROVE IsFiniteSet(N) /\ services'[o] + Cardinality(N) <= spent'["presses"] + (IF o \in card' THEN 0 ELSE 1)
  <2>1. w \in M /\ N \subseteq M \ {w} /\ services'[o] = services[o] + 1 /\ SameBook(o)
    BY <1>5 DEF Makes
  <2> HIDE DEF M, N
  <2>2. IsFiniteSet(M \ {w}) /\ Cardinality(M \ {w}) = Cardinality(M) - 1
    BY <1>1, <2>1, FS_RemoveElement
  <2>3. IsFiniteSet(N) /\ Cardinality(N) <= Cardinality(M \ {w})
    BY <2>1, <2>2, FS_Subset
  <2>4. Cardinality(N) \in Nat
    BY <2>3, FS_CardinalityType
  <2>5. QED
    BY <1>1, <1>2, <1>3, <2>1, <2>2, <2>3, <2>4 DEF SameBook
<1>6. ASSUME NEW w \in Workers, Presses(o, w)
      PROVE IsFiniteSet(N) /\ services'[o] + Cardinality(N) <= spent'["presses"] + (IF o \in card' THEN 0 ELSE 1)
  <2>1. /\ N \subseteq M \cup {w} /\ services'[o] = services[o]
        /\ spent'["presses"] = spent["presses"] + 1 /\ (o \in card' <=> o \in card)
    BY <1>6 DEF Presses
  <2> HIDE DEF M, N
  <2>2. IsFiniteSet(M \cup {w}) /\ (Cardinality(M \cup {w}) = Cardinality(M) \/ Cardinality(M \cup {w}) = Cardinality(M) + 1)
    BY <1>1, FS_AddElement
  <2>3. IsFiniteSet(N) /\ Cardinality(N) <= Cardinality(M \cup {w})
    BY <2>1, <2>2, FS_Subset
  <2>4. Cardinality(N) \in Nat
    BY <2>3, FS_CardinalityType
  <2>5. QED
    BY <1>1, <1>2, <1>3, <2>1, <2>2, <2>3, <2>4
<1>7. ASSUME NEW w \in Workers, Bought(o, w)
      PROVE IsFiniteSet(N) /\ services'[o] + Cardinality(N) <= spent'["presses"] + (IF o \in card' THEN 0 ELSE 1)
  <2>1. N \subseteq {w} /\ services'[o] = 0 /\ o \notin card'
    BY <1>7 DEF Bought
  <2> HIDE DEF M, N
  <2>2. IsFiniteSet({w}) /\ Cardinality({w}) = 1
    BY FS_Singleton
  <2>3. IsFiniteSet(N) /\ Cardinality(N) <= 1
    BY <2>1, <2>2, FS_Subset
  <2>4. Cardinality(N) \in Nat
    BY <2>3, FS_CardinalityType
  <2>5. QED
    BY <1>2, <2>1, <2>3, <2>4
<1>8. CASE Unmade(o)
  <2>1. N = {} /\ services'[o] = 0
    BY <1>8 DEF Unmade
  <2>2. IsFiniteSet(N) /\ Cardinality(N) = 0
    BY <2>1, FS_EmptySet
  <2>3. QED
    BY <1>2, <2>1, <2>2
<1>9. QED
  BY <1>4, <1>5, <1>6, <1>7, <1>8 DEF Effect
(* A worker that leaves the making, or stays in it for its order, adds     *)
(* nobody.                                                                 *)
Settles(w) ==
  /\ Others(w)
  /\ task'[w].at \notin Making \/ (task'[w].order = task[w].order /\ task[w].at \in Making)

LEMMA NobodyNew ==
  ASSUME NEW w \in Workers, Settles(w), NEW o \in Orders
  PROVE  Makers(o)' \subseteq Makers(o)
BY DEF Settles, Others, Makers, Making

LEMMA CalmBy ==
  ASSUME NEW w \in Workers, Settles(w), UNCHANGED <<services, spent, card>>, TypeOK
  PROVE  \A o \in Orders : Effect(o)
BY NobodyNew DEF Effect, Calm, SameBook, TypeOK

LEMMA CalmStill ==
  ASSUME UNCHANGED <<services, task, card>>, TypeOK, TypeOK', spent' = spent \/ \E b \in {"presses", "faults", "lost", "crashes"} : Spend(b)
  PROVE  \A o \in Orders : Effect(o)
<1>1. spent'["presses"] >= spent["presses"]
  BY DEF TypeOK, Spend
<1>2. \A o \in Orders : Makers(o)' = Makers(o)
  BY DEF Makers
<1>3. QED
  BY <1>1, <1>2 DEF Effect, Calm, SameBook

(* Before its purchase nobody makes an order.                              *)
LEMMA UnboughtIdle ==
  ASSUME TypeOK, Ledger, NEW o \in Orders, Unbought(o)
  PROVE  services[o] = 0 /\ Makers(o) = {} /\ o \notin card
<1>1. recorded[o] = 0
  BY DEF Unbought
<1>2. services[o] = 0
  BY <1>1 DEF TypeOK, Ledger, NoServiceUnpaid
<1>3. Makers(o) = {}
  BY <1>1 DEF Ledger, Trail, Makers
<1>4. QED
  BY <1>2, <1>3 DEF Ledger, Fresh

LEMMA SpendKeeps ==
  ASSUME TypeOK, NEW b \in {"faults", "lost", "crashes"}, Spend(b)
  PROVE  spent'["presses"] = spent["presses"]
BY DEF TypeOK, Spend

(* Every step adds to the account of each order what EffectCounts allows.  *)
LEMMA StepEffect ==
  ASSUME Typing, Typing', Ledger, [Next]_vars
  PROVE  \A o \in Orders : Effect(o)
<1> USE FulfilmentAssumption DEF Typing
<1> DEFINE Goal == \A o \in Orders : Effect(o)
<1>0. task \in [Workers -> Task]
  BY DEF TypeOK
<1>1. ASSUME NEW w \in Workers, NEW o \in Orders, NEW v \in Vias, BuyPlan(w, o, v) \/ BuyCustom(w, o, v) PROVE Goal
  <2>1. Others(w) /\ task'[w].order = o
    BY <1>0, <1>1, BuyEffect
  <2>2. Unbought(o) /\ Free(w) /\ UNCHANGED <<services, spent, card>>
    BY <1>1 DEF BuyPlan, BuyCustom
  <2>3. services[o] = 0 /\ Makers(o) = {} /\ o \notin card
    BY <2>2, UnboughtIdle
  <2>4. Bought(o, w)
    BY <2>1, <2>2, <2>3 DEF Bought, Others, Makers
  <2>5. ASSUME NEW q \in Orders, q # o PROVE Calm(q)
    BY <2>1, <2>2, <2>5 DEF Calm, SameBook, Others, Makers, TypeOK
  <2>6. QED
    BY <2>4, <2>5 DEF Effect
<1>2. ASSUME NEW o \in Orders, CardPlan(o) \/ CardCustom(o) PROVE Goal
  <2>1. Unbought(o) /\ UNCHANGED <<services, spent, task>> /\ card' = card \cup {o}
    BY <1>2 DEF CardPlan, CardCustom
  <2>2. services[o] = 0 /\ Makers(o) = {} /\ o \notin card
    BY <2>1, UnboughtIdle
  <2>3. \A q \in Orders : Makers(q)' = Makers(q)
    BY <2>1 DEF Makers
  <2>4. ASSUME NEW q \in Orders, q # o PROVE Calm(q)
    BY <2>1, <2>3, <2>4 DEF Calm, SameBook, TypeOK
  <2>5. Unmade(o)
    BY <2>1, <2>2, <2>3 DEF Unmade
  <2>6. QED
    BY <2>4, <2>5 DEF Effect
<1>3. ASSUME \/ \E o \in Orders : ApproveCustom(o) \/ RejectCustom(o) \/ Dismiss(o)
             \/ OpenQueue \/ ClearOrders \/ SendPhoto \/ UNCHANGED vars
      PROVE Goal
  <2>1. UNCHANGED <<services, task, card, spent>>
    BY <1>3 DEF ApproveCustom, RejectCustom, Dismiss, OpenQueue, ClearOrders, SendPhoto, vars
  <2>2. QED
    BY <2>1, CalmStill
<1>4. ASSUME NEW o \in Orders, StartSend(o) \/ Interrupted(o) PROVE Goal
  <2>1. UNCHANGED <<services, task, card>>
    BY <1>4 DEF StartSend, Interrupted
  <2>2. Spend("presses") \/ Spend("faults")
    BY <1>4 DEF StartSend, Interrupted
  <2>3. QED
    BY <2>1, <2>2, CalmStill
<1>5. ASSUME NEW w \in Workers,
             \/ Settle(w) \/ Claim(w) \/ NoPanel(w) \/ HasLink(w) \/ NoLink(w) \/ Store(w)
             \/ Close(w) \/ Log(w) \/ Notify(w) \/ AskManual(w)
      PROVE Goal
  <2>1. UNCHANGED <<services, spent, card>>
    BY <1>5 DEF Settle, Claim, NoPanel, HasLink, NoLink, Store, Close, Log, Notify, AskManual
  <2>2. ASSUME Settle(w) \/ Claim(w) PROVE Settles(w)
    BY <1>0, <2>2, Moves, Stops DEF Settle, Claim, Settles, Making, Steps
  <2>3. ASSUME NoPanel(w) \/ HasLink(w) \/ NoLink(w) \/ Store(w) PROVE Settles(w)
    BY <1>0, <2>3, Moves, Stops DEF NoPanel, HasLink, NoLink, Store, Settles, Making, Steps
  <2>4. ASSUME Close(w) \/ Log(w) \/ Notify(w) \/ AskManual(w) PROVE Settles(w)
    BY <1>0, <2>4, Moves, Stops DEF Close, Log, Notify, AskManual, Settles, Making, Steps
  <2>5. Settles(w)
    BY <1>5, <2>2, <2>3, <2>4
  <2>6. QED
    BY <2>1, <2>5, CalmBy
<1>6. ASSUME NEW w \in Workers, CreateFails(w) PROVE Goal
  <2>0. PICK o \in Orders : o = task[w].order
    BY <1>6 DEF CreateFails, Busy
  <2>1. w \in Makers(o)
    BY <1>6, <2>0 DEF CreateFails, Makers, Making
  <2>2. Others(w) /\ task'[w].at \notin Making /\ card' = card
    BY <1>0, <1>6, Moves, Stops DEF CreateFails, Making, Steps
  <2>3. \A q \in Orders : Makers(q)' \subseteq Makers(q) \ {w}
    BY <2>2 DEF Others, Makers
  <2>4. CASE UNCHANGED <<services, spent>>
    BY <2>2, <2>4, CalmBy DEF Settles
  <2>5. CASE Spend("lost") /\ services' = [services EXCEPT ![o] = @ + 1]
    <3>1. spent'["presses"] = spent["presses"]
      BY <2>5, SpendKeeps
    <3>2. services'[o] = services[o] + 1 /\ \A q \in Orders \ {o} : services'[q] = services[q]
      BY <2>1, <2>5 DEF TypeOK
    <3>3. spent["presses"] \in Nat
      BY DEF TypeOK
    <3>4. \A q \in Orders : SameBook(q)
      BY <2>2, <3>1, <3>3 DEF SameBook
    <3>5. Makes(o, w)
      BY <2>1, <2>3, <3>2, <3>4 DEF Makes
    <3>6. \A q \in Orders \ {o} : Calm(q)
      BY <2>3, <3>2, <3>4 DEF Calm
    <3>7. QED
      BY <3>5, <3>6 DEF Effect
  <2>6. QED
    BY <1>6, <2>0, <2>4, <2>5 DEF CreateFails
<1>7. ASSUME NEW w \in Workers, Created(w) PROVE Goal
  <2>0. PICK o \in Orders : o = task[w].order
    BY <1>7 DEF Created, Busy
  <2>1. w \in Makers(o)
    BY <1>7, <2>0 DEF Created, Makers, Making
  <2>2. Others(w) /\ task'[w].at \notin Making /\ card' = card /\ spent' = spent
    BY <1>0, <1>7, Moves DEF Created, Making, Steps
  <2>3. \A q \in Orders : Makers(q)' \subseteq Makers(q) \ {w}
    BY <2>2 DEF Others, Makers
  <2>4. services'[o] = services[o] + 1 /\ \A q \in Orders \ {o} : services'[q] = services[q]
    BY <1>7, <2>0 DEF Created, TypeOK
  <2>5. spent["presses"] \in Nat
    BY DEF TypeOK
  <2>6. \A q \in Orders : SameBook(q)
    BY <2>2, <2>5 DEF SameBook
  <2>7. Makes(o, w)
    BY <2>1, <2>3, <2>4, <2>6 DEF Makes
  <2>8. \A q \in Orders \ {o} : Calm(q)
    BY <2>3, <2>4, <2>6 DEF Calm
  <2>9. QED
    BY <2>7, <2>8 DEF Effect
<1>8. ASSUME NEW w \in Workers, Raise(w) PROVE Goal
  <2>1. Settles(w)
    BY <1>0, <1>8, Moves, Stops DEF Raise, Settles, Making, Steps
  <2>2. UNCHANGED <<services, card>> /\ spent'["presses"] = spent["presses"] /\ spent["presses"] \in Nat
    BY <1>8, SpendKeeps DEF Raise, TypeOK
  <2>3. \A q \in Orders : Makers(q)' \subseteq Makers(q)
    BY <2>1, NobodyNew
  <2>4. QED
    BY <2>2, <2>3 DEF Effect, Calm, SameBook
<1>9. ASSUME NEW w \in Workers, NEW o \in Orders, PanelSend(w, o) PROVE Goal
  <2>1. Others(w) /\ task'[w].order = o
    BY <1>0, <1>9, PressEffect
  <2>2. UNCHANGED <<services, card>> /\ spent'["presses"] = spent["presses"] + 1 /\ spent["presses"] \in Nat
    BY <1>9 DEF PanelSend, Spend, TypeOK
  <2>3. Makers(o)' \subseteq Makers(o) \cup {w} /\ \A q \in Orders \ {o} : Makers(q)' \subseteq Makers(q)
    BY <2>1 DEF Others, Makers
  <2>4. Presses(o, w)
    BY <2>2, <2>3 DEF Presses
  <2>5. \A q \in Orders \ {o} : Calm(q)
    BY <2>2, <2>3 DEF Calm, SameBook
  <2>6. QED
    BY <2>4, <2>5 DEF Effect
<1>10. ASSUME NEW w \in Workers, NEW p \in Orders, Reply(w, p) PROVE Goal
  <2>1. Settles(w)
    <3>1. chat.slot \in Orders
      BY <1>10 DEF Reply, Busy
    <3>2. QED
      BY <1>0, <1>10, <3>1, ReplyEffect DEF Settles, Making
  <2>2. UNCHANGED <<services, spent, card>>
    BY <1>10 DEF Reply
  <2>3. QED
    BY <2>1, <2>2, CalmBy
<1>11. ASSUME NEW w \in Workers, NEW p \in Orders, SendLink(w, p) PROVE Goal
  <2>1. Settles(w)
    <3>1. chat.send \in Orders
      BY <1>11 DEF SendLink, Busy
    <3>2. QED
      BY <1>0, <1>11, <3>1, SendLinkEffect DEF Settles, Making
  <2>2. UNCHANGED <<services, spent, card>>
    BY <1>11 DEF SendLink
  <2>3. QED
    BY <2>1, <2>2, CalmBy
<1>12. ASSUME NEW w \in Workers, Extracted(w) PROVE Goal
  <2>1. task[w].link \in Orders /\ FinalizeSend(w, task[w].link)
    BY <1>12 DEF Extracted, Busy
  <2>2. Finalized(w, task[w].link)
    BY <2>1, FinalizeEffect
  <2>3. UNCHANGED <<services, spent, card>>
    BY <1>12 DEF Extracted
  <2>4. Settles(w)
    BY <2>2 DEF Finalized, Settles, Making
  <2>5. QED
    BY <2>3, <2>4, CalmBy
<1>13. ASSUME NEW w \in Workers, SendManual(w) PROVE Goal
  <2>1. chat.link \in Orders /\ FinalizeSend(w, chat.link)
    BY <1>13 DEF SendManual, Busy
  <2>2. Finalized(w, chat.link)
    BY <2>1, FinalizeEffect
  <2>3. UNCHANGED <<services, spent, card>>
    BY <1>13 DEF SendManual
  <2>4. Settles(w)
    BY <2>2 DEF Finalized, Settles, Making
  <2>5. QED
    BY <2>3, <2>4, CalmBy
<1>14. ASSUME Crash PROVE Goal
  <2>1. UNCHANGED <<services, card>> /\ spent'["presses"] = spent["presses"] /\ spent["presses"] \in Nat
    BY <1>14, SpendKeeps DEF Crash, TypeOK
  <2>2. \A q \in Orders : Makers(q)' = {}
    BY <1>14, CrashEffect DEF Makers, Making
  <2>3. QED
    BY <2>1, <2>2 DEF Effect, Calm, SameBook
<1> HIDE DEF Goal
<1>15. Goal
  BY <1>1, <1>2, <1>3, <1>4, <1>5, <1>6, <1>7, <1>8, <1>9, <1>10, <1>11, <1>12, <1>13, <1>14
  DEF Next, Work, Purchase, Admin
<1>16. QED
  BY <1>15 DEF Goal

LEMMA CountStep == Typing /\ Typing' /\ Ledger /\ Counted /\ [Next]_vars => Counted'
<1> SUFFICES ASSUME Typing, Typing', Ledger, Counted, [Next]_vars, NEW o \in Orders
             PROVE  /\ IsFiniteSet(Makers(o)')
                    /\ services'[o] + Cardinality(Makers(o)') <= spent'["presses"] + (IF o \in card' THEN 0 ELSE 1)
  BY DEF Counted
<1>1. Effect(o)
  BY StepEffect
<1>2. QED
  BY <1>1, EffectCounts DEF Typing
-----------------------------------------------------------------------------
LEMMA NextStep == IInv /\ [Next]_vars => IInv'
BY TypingStep, DeliveryStep, LedgerStep, ReachStep, CountStep DEF IInv

(* The inductive invariant holds in every reachable state.                 *)
THEOREM Invariance == Spec => []IInv
<1>1. QED
  BY InitHolds, NextStep, PTL DEF Spec

(* Every variable has its type.                                            *)
THEOREM TypeCorrect == Spec => []TypeOK
<1>1. IInv => TypeOK
  BY DEF IInv, Typing
<1>2. QED
  BY Invariance, <1>1, PTL

(* No order is closed before something was stored for its buyer, whichever *)
(* of the automatic path, the panel button and the manual sending closed   *)
(* it, and however they overlap, fail or die.                              *)
THEOREM ClosedOnlyDelivered == Spec => []FulfilledDelivered
<1>1. IInv => FulfilledDelivered
  BY DEF IInv
<1>2. QED
  BY Invariance, <1>1, PTL

(* Nothing is made at the panel, and no link is stored for the buyer, of   *)
(* an order whose purchase has not been recorded.                          *)
THEOREM ServedOnlyCharged == Spec => []NoServiceUnpaid
<1>1. IInv => NoServiceUnpaid
  BY DEF IInv, Ledger
<1>2. QED
  BY Invariance, <1>1, PTL

(* An order paid by card is charged at most once, and one whose receipt    *)
(* was refused is neither charged nor served.                              *)
THEOREM CardDecidedOnce == Spec => []ReceiptDecidedOnce
<1>1. IInv => ReceiptDecidedOnce
  <2>1. SUFFICES ASSUME IInv, NEW o \in card \ cut
                 PROVE  /\ recorded[o] <= 1
                        /\ status[o] = "rejected" =>
                             recorded[o] = 0 /\ services[o] = 0 /\ configs[o] = {}
    BY DEF ReceiptDecidedOnce
  <2>2. o \in Orders /\ services[o] \in Nat
    BY <2>1 DEF IInv, Typing, TypeOK
  <2>3. recorded[o] <= 1 /\ (status[o] = "rejected" => recorded[o] = 0)
    BY <2>1, <2>2 DEF IInv, Ledger, Undecided
  <2>4. services[o] > 0 \/ configs[o] # {} => recorded[o] > 0
    BY <2>1, <2>2 DEF IInv, Ledger, NoServiceUnpaid
  <2>5. QED
    BY <2>2, <2>3, <2>4
<1>2. QED
  BY Invariance, <1>1, PTL

(* An open order that nobody can reach any more met an exception or a      *)
(* crash, or another order took its place in the admin's conversation:     *)
(* the automatic path by itself never loses one.                           *)
THEOREM NoOrderLostUndisturbed == Spec => []LostOnlyIfDisturbed
<1>1. IInv => LostOnlyIfDisturbed
  <2>1. SUFFICES ASSUME IInv, NEW o \in Orders, Lost(o)
                 PROVE  o \in disturbed
    BY DEF LostOnlyIfDisturbed
  <2>2. Hidden(o) /\ ~Carried(o) /\ ~Holds(o) /\ buttons[o] = {}
    BY <2>1 DEF Lost, Hidden, Carried
  <2>3. QED
    BY <2>1, <2>2 DEF IInv, Reachable, Found
<1>2. QED
  BY Invariance, <1>1, PTL

(* The panel makes a service, or extends it, at most once for a purchase   *)
(* and once more for every press of the admin's panel button, although a   *)
(* request may be carried out and answered with an error, a worker may     *)
(* raise or die, and neither button nor automatic path looks at the panel  *)
(* first (auto_fulfill_vip_via_panel, panelsend|).                         *)
THEOREM PressesPayForServices == Spec => []MadeOncePerPress
<1>1. IInv => MadeOncePerPress
  <2>1. SUFFICES ASSUME IInv, NEW o \in Orders
                 PROVE  services[o] <= spent["presses"] + (IF o \in card THEN 0 ELSE 1)
    BY DEF MadeOncePerPress
  <2>2. /\ IsFiniteSet(Makers(o))
        /\ services[o] + Cardinality(Makers(o)) <= spent["presses"] + (IF o \in card THEN 0 ELSE 1)
    BY <2>1 DEF IInv, Counted
  <2>3. Cardinality(Makers(o)) \in Nat
    BY <2>2, FS_CardinalityType
  <2>4. services[o] \in Nat /\ spent["presses"] \in Nat
    BY <2>1 DEF IInv, Typing, TypeOK
  <2>5. QED
    BY <2>2, <2>3, <2>4
<1>2. QED
  BY Invariance, <1>1, PTL

-----------------------------------------------------------------------------
(* What PlanLifecycle says of one step.                                    *)
Lawful ==
  \A o \in Orders :
    KindOf[o] = "plan" /\ status[o] # "none" /\ status'[o] # status[o]
      => status'[o] \in Allowed[status[o]]

(* Every step of the program is lawful.                                    *)
LEMMA LawfulStep == Typing /\ [Next]_vars => Lawful
<1> SUFFICES ASSUME Typing, [Next]_vars PROVE Lawful
  OBVIOUS
<1> USE FulfilmentAssumption
    DEF Typing, TypeOK, Busy, Lawful, Unbought, SetStatus
<1>1. ASSUME NEW w \in Workers, NEW o \in Orders, NEW v \in Vias, BuyPlan(w, o, v) PROVE Lawful
  BY <1>1 DEF BuyPlan
<1>2. ASSUME NEW w \in Workers, NEW o \in Orders, NEW v \in Vias, BuyCustom(w, o, v) PROVE Lawful
  BY <1>2 DEF BuyCustom
<1>3. ASSUME NEW o \in Orders, CardPlan(o) \/ CardCustom(o) PROVE Lawful
  BY <1>3 DEF CardPlan, CardCustom
<1>4. ASSUME NEW o \in Orders, ApproveCustom(o) \/ RejectCustom(o) PROVE Lawful
  BY <1>4 DEF ApproveCustom, RejectCustom, InReceipts
<1>5. ASSUME NEW w \in Workers, Settle(w) PROVE Lawful
  BY <1>5 DEF Settle
<1>6. ASSUME NEW w \in Workers, Claim(w) PROVE Lawful
  BY <1>6 DEF Claim, Claimable, Allowed, States
<1>7. ASSUME NEW w \in Workers, NoPanel(w) PROVE Lawful
  BY <1>7 DEF NoPanel
<1>8. ASSUME NEW w \in Workers, CreateFails(w) PROVE Lawful
  BY <1>8 DEF CreateFails, Released, Legal
<1>9. ASSUME NEW w \in Workers, Created(w) \/ HasLink(w) PROVE Lawful
  BY <1>9 DEF Created, HasLink
<1>10. ASSUME NEW w \in Workers, NoLink(w) PROVE Lawful
  BY <1>10 DEF NoLink
<1>11. ASSUME NEW w \in Workers, Store(w) PROVE Lawful
  BY <1>11 DEF Store
<1>12. ASSUME NEW w \in Workers, Close(w) PROVE Lawful
  BY <1>12 DEF Close, Legal
<1>13. ASSUME NEW w \in Workers, Log(w) PROVE Lawful
  BY <1>13 DEF Log
<1>14. ASSUME NEW w \in Workers, Notify(w) PROVE Lawful
  BY <1>14 DEF Notify
<1>15. ASSUME NEW w \in Workers, Raise(w) PROVE Lawful
  BY <1>15 DEF Raise
<1>16. ASSUME OpenQueue \/ ClearOrders PROVE Lawful
  BY <1>16 DEF OpenQueue, ClearOrders, InQueue, Allowed, States
<1>17. ASSUME SendPhoto PROVE Lawful
  BY <1>17 DEF SendPhoto
<1>18. ASSUME NEW o \in Orders, Dismiss(o) PROVE Lawful
  BY <1>18 DEF Dismiss, Legal
<1>19. ASSUME NEW o \in Orders, StartSend(o) PROVE Lawful
  BY <1>19 DEF StartSend
<1>20. ASSUME NEW w \in Workers, NEW o \in Orders, PanelSend(w, o) PROVE Lawful
  BY <1>20 DEF PanelSend
<1>21. ASSUME NEW w \in Workers, NEW o \in Orders, Reply(w, o) PROVE Lawful
  BY <1>21 DEF Reply
<1>22. ASSUME NEW w \in Workers, NEW o \in Orders, SendLink(w, o) PROVE Lawful
  BY <1>22 DEF SendLink
<1>23. ASSUME NEW w \in Workers, Extracted(w) PROVE Lawful
  <2>1. task[w].link \in Orders /\ FinalizeSend(w, task[w].link)
    BY <1>23 DEF Extracted
  <2>2. Finalized(w, task[w].link)
    BY <2>1, FinalizeEffect
  <2>3. QED
    BY <2>2 DEF Finalized, Legal
<1>24. ASSUME NEW w \in Workers, AskManual(w) PROVE Lawful
  BY <1>24 DEF AskManual
<1>25. ASSUME NEW w \in Workers, SendManual(w) PROVE Lawful
  <2>1. chat.link \in Orders /\ FinalizeSend(w, chat.link)
    BY <1>25 DEF SendManual
  <2>2. Finalized(w, chat.link)
    BY <2>1, FinalizeEffect
  <2>3. QED
    BY <2>2 DEF Finalized, Legal
<1>26. ASSUME Crash PROVE Lawful
  BY <1>26 DEF Crash
<1>27. ASSUME NEW o \in Orders, Interrupted(o) PROVE Lawful
  BY <1>27 DEF Interrupted
<1>28. ASSUME UNCHANGED vars PROVE Lawful
  BY <1>28 DEF vars
<1> HIDE DEF Lawful
<1>29. QED
  BY <1>1, <1>2, <1>3, <1>4, <1>5, <1>6, <1>7, <1>8, <1>9, <1>10, <1>11, <1>12, <1>13, <1>14,
     <1>15, <1>16, <1>17, <1>18, <1>19, <1>20, <1>21, <1>22, <1>23, <1>24, <1>25, <1>26, <1>27, <1>28
  DEF Next, Work, Purchase, Admin

(* Every change of a plan order, whichever path makes it, obeys the table  *)
(* of transitions, the claim that bypasses set_order_status included.      *)
THEOREM LawfulPlans == Spec => PlanLifecycle
<1>1. IInv /\ [Next]_vars => [Lawful]_vars
  BY LawfulStep DEF IInv
<1>2. QED
  BY Invariance, <1>1, PTL DEF Spec, PlanLifecycle, Lawful

=============================================================================
