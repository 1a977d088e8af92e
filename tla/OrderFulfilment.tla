-------------------------- MODULE OrderFulfilment --------------------------
(***************************************************************************)
(* From a confirmed purchase to a delivered service.  An order is a row of *)
(* orders ("plan") or of custom_orders ("custom", "renew").  It is served  *)
(* by the automatic path right after the purchase, by the admin's panel    *)
(* button, or by the admin sending a QR code and a link by hand; the three *)
(* share the status column, and the last two share ONE conversation state  *)
(* (FSMContext) of the admin's chat.                                       *)
(*                                                                         *)
(* A worker is a coroutine of the bot or a Flask thread with a temporary   *)
(* event loop; it is interleaved with the others at every await.  A link   *)
(* is identified with the order whose service it opens.                    *)
(***************************************************************************)
EXTENDS Naturals, FiniteSets

CONSTANTS
  Orders,       \* purchases
  KindOf,       \* [Orders -> Kinds]: the table and column order_type
  Workers,      \* coroutines and threads that handle purchases and buttons
  NoOrder,      \* "no order" in the conversation state of the admin
  Vias,         \* front ends that start the automatic path
  MaxPresses,   \* bound: how often the admin presses a send button
  MaxFaults,    \* bound: calls of Telegram or of the database that raise
  MaxLost,      \* bound: panel requests carried out and answered by an error
  MaxCrashes    \* bound: how often the process dies

Kinds  == {"plan", "custom", "renew"}
States == {"pending", "processing", "paid", "fulfilled", "rejected", "dismissed", "failed"}
Open   == {"pending", "paid", "processing"}

ASSUME FulfilmentAssumption ==
  /\ KindOf \in [Orders -> Kinds]
  /\ NoOrder \notin Orders
  /\ Vias \subseteq {"bot", "mini"}
  /\ MaxPresses \in Nat /\ MaxFaults \in Nat /\ MaxLost \in Nat /\ MaxCrashes \in Nat

(* What ALLOWED_ORDER_TRANSITIONS lets a plan order do.                    *)
Allowed ==
  [s \in States |->
    CASE s = "pending"    -> States \ {"pending"}
      [] s = "paid"       -> {"processing", "fulfilled", "failed", "dismissed"}
      [] s = "processing" -> {"fulfilled", "paid", "pending", "failed"}
      [] s = "failed"     -> {"pending", "processing"}
      [] OTHER            -> {}]

Steps == {"idle", "settle", "claim", "create", "made", "deliver", "close",
          "log", "notify", "extract"}
Paths == Vias \cup {"button", "reply", "hand"}
Modes == {"free", "link", "photo", "sublink", "manual"}

VARIABLES
  status,     \* column status, "none" before the purchase
  recorded,   \* purchases recorded with record_purchase / deduct_from_wallet
  card,       \* orders written for a card payment, whose receipt the admin looks at
  services,   \* services created or renewed at the panel for the order
  configs,    \* links stored for the buyer of the order (table configs)
  buttons,    \* buttons the admin's chat shows for the order
  listed,     \* orders shown by the queue the admin last opened
  chat,       \* conversation state of the admin, kept in the database
  asked,      \* orders whose link the admin was asked for and has not sent
  task,       \* what each worker does
  spent,      \* how much of each bound is used
  cut,        \* history: purchases recorded whose next write was not reached
  disturbed   \* history: orders that met an exception, a crash, or had their
              \* place in the admin's conversation taken

vars == <<status, recorded, card, services, configs, buttons, listed, chat,
          asked, task, spent, cut, disturbed>>

(* What a worker does, and the conversation state of the admin's chat.     *)
Task == [at : Steps, order : Orders \cup {NoOrder}, link : Orders \cup {NoOrder}, via : Paths]
Chat == [mode : Modes, slot : Orders \cup {NoOrder}, send : Orders \cup {NoOrder},
         qr : BOOLEAN, link : Orders \cup {NoOrder}]

Idle == [at |-> "idle", order |-> NoOrder, link |-> NoOrder, via |-> "hand"]
NoChat == [mode |-> "free", slot |-> NoOrder, send |-> NoOrder, qr |-> FALSE, link |-> NoOrder]

TypeOK ==
  /\ status \in [Orders -> States \cup {"none"}]
  /\ recorded \in [Orders -> Nat]
  /\ card \subseteq Orders
  /\ services \in [Orders -> Nat]
  /\ configs \in [Orders -> SUBSET Orders]
  /\ buttons \in [Orders -> SUBSET {"hand", "panel"}]
  /\ listed \subseteq Orders
  /\ chat \in Chat
  /\ asked \subseteq Orders
  /\ task \in [Workers -> Task]
  /\ spent \in [{"presses", "faults", "lost", "crashes"} -> Nat]
  /\ cut \subseteq Orders
  /\ disturbed \subseteq Orders

Init ==
  /\ status = [o \in Orders |-> "none"]
  /\ recorded = [o \in Orders |-> 0]
  /\ card = {}
  /\ services = [o \in Orders |-> 0]
  /\ configs = [o \in Orders |-> {}]
  /\ buttons = [o \in Orders |-> {}]
  /\ listed = {}
  /\ chat = NoChat
  /\ asked = {}
  /\ task = [w \in Workers |-> Idle]
  /\ spent = [b \in {"presses", "faults", "lost", "crashes"} |-> 0]
  /\ cut = {}
  /\ disturbed = {}

-----------------------------------------------------------------------------
(* set_order_status checks the transition; set_custom_order_status has no  *)
(* check.                                                                  *)
Legal(o, s) == KindOf[o] # "plan" \/ status[o] = s \/ s \in Allowed[status[o]]

SetStatus(o, s) == status' = [status EXCEPT ![o] = s]

(* A claim whose UPDATE has lost the condition on the status.              *)
ClaimableEver(o) == status[o] # "none"

(* claim_order_for_processing and claim_custom_order_for_processing.       *)
Claimable(o) == status[o] \in (IF KindOf[o] = "plan" THEN {"pending", "paid"} ELSE {"paid"})

(* A queue that shows the custom orders without a decided receipt as well. *)
InQueueEarly(o) == status[o] \in {"pending", "paid"}

(* get_pending_orders and get_pending_custom_orders.                       *)
InQueue(o) == status[o] = (IF KindOf[o] = "plan" THEN "pending" ELSE "paid")

(* get_pending_custom_order_receipts.                                      *)
InReceipts(o) == KindOf[o] # "plan" /\ status[o] = "pending"

Free(w) == task[w].at = "idle"
GoesTo(w, s) == task' = [task EXCEPT ![w].at = s]
Ends(w) == task' = [task EXCEPT ![w] = Idle]
Starts(w, s, o, p, v) ==
  task' = [task EXCEPT ![w] = [at |-> s, order |-> o, link |-> p, via |-> v]]

CanSpend(b) == spent[b] < (CASE b = "presses" -> MaxPresses [] b = "faults" -> MaxFaults
                             [] b = "lost" -> MaxLost [] b = "crashes" -> MaxCrashes)
Spend(b) == CanSpend(b) /\ spent' = [spent EXCEPT ![b] = @ + 1]

(* The admin's next message is read as the link of o (panel_pending_ctx).  *)
Holds(o) == chat.mode = "link" /\ chat.slot = o

(* The open orders other than o that lose this place when it is given to o.*)
Displaced(o) == {q \in Orders \ {o} : Holds(q) /\ status[q] \in Open}

-----------------------------------------------------------------------------
(* Purchases.                                                              *)
Unbought(o) == status[o] = "none" /\ recorded[o] = 0

(* Wallet or online purchase of a plan: the money is taken, the order is   *)
(* written, and the automatic path is called.                              *)
BuyPlan(w, o, v) ==
  /\ Free(w) /\ Unbought(o) /\ KindOf[o] = "plan"
  /\ SetStatus(o, "pending")
  /\ recorded' = [recorded EXCEPT ![o] = @ + 1]
  /\ Starts(w, "claim", o, o, v)
  /\ UNCHANGED <<card, services, configs, buttons, listed, chat, asked, spent, cut, disturbed>>

(* The same for a custom service or a renewal: create_custom_order writes  *)
(* "pending", and a second transaction makes it "paid".                    *)
BuyCustom(w, o, v) ==
  /\ Free(w) /\ Unbought(o) /\ KindOf[o] # "plan"
  /\ SetStatus(o, "pending")
  /\ recorded' = [recorded EXCEPT ![o] = @ + 1]
  /\ Starts(w, "settle", o, o, v)
  /\ UNCHANGED <<card, services, configs, buttons, listed, chat, asked, spent, cut, disturbed>>

Settle(w) ==
  /\ task[w].at = "settle"
  /\ SetStatus(task[w].order, "paid")
  /\ GoesTo(w, "claim")
  /\ UNCHANGED <<recorded, card, services, configs, buttons, listed, chat, asked, spent, cut, disturbed>>

(* The admin approves the receipt of a plan: purchase and order at once.   *)
CardPlan(o) ==
  /\ Unbought(o) /\ KindOf[o] = "plan"
  /\ SetStatus(o, "pending")
  /\ recorded' = [recorded EXCEPT ![o] = @ + 1]
  /\ card' = card \cup {o}
  /\ buttons' = [buttons EXCEPT ![o] = {"hand", "panel"}]
  /\ UNCHANGED <<services, configs, listed, chat, asked, task, spent, cut, disturbed>>

(* The buyer of a custom service sends a receipt: the order waits.         *)
CardCustom(o) ==
  /\ Unbought(o) /\ KindOf[o] # "plan"
  /\ SetStatus(o, "pending")
  /\ card' = card \cup {o}
  /\ UNCHANGED <<recorded, services, configs, buttons, listed, chat, asked, task, spent, cut, disturbed>>

(* Accepting the receipt of an order whatever its status.                  *)
ApproveAny(o) ==
  /\ KindOf[o] # "plan" /\ status[o] # "none"
  /\ recorded' = [recorded EXCEPT ![o] = @ + 1]
  /\ SetStatus(o, "paid")
  /\ buttons' = [buttons EXCEPT ![o] = {"hand", "panel"}]
  /\ UNCHANGED <<card, services, configs, listed, chat, asked, task, spent, cut, disturbed>>

ApproveCustom(o) ==
  /\ InReceipts(o)
  /\ recorded' = [recorded EXCEPT ![o] = @ + 1]
  /\ SetStatus(o, "paid")
  /\ buttons' = [buttons EXCEPT ![o] = {"hand", "panel"}]
  /\ UNCHANGED <<card, services, configs, listed, chat, asked, task, spent, cut, disturbed>>

RejectCustom(o) ==
  /\ InReceipts(o)
  /\ SetStatus(o, "rejected")
  /\ UNCHANGED <<recorded, card, services, configs, buttons, listed, chat, asked, task, spent, cut, disturbed>>

(* deduct_from_wallet or record_purchase has committed, and the call after *)
(* it raises or the process dies: no order is written, or a receipt just   *)
(* accepted stays undecided.                                               *)
Interrupted(o) ==
  /\ Unbought(o) \/ InReceipts(o)
  /\ Spend("faults")
  /\ recorded' = [recorded EXCEPT ![o] = @ + 1]
  /\ cut' = cut \cup {o}
  /\ disturbed' = disturbed \cup {o}
  /\ UNCHANGED <<status, card, services, configs, buttons, listed, chat, asked, task>>

-----------------------------------------------------------------------------
(* The automatic path: auto_fulfill_vip_via_panel and                      *)
(* auto_fulfill_custom_via_panel.                                          *)

Claim(w) ==
  LET o == task[w].order IN
  /\ task[w].at = "claim"
  /\ \/ Claimable(o) /\ SetStatus(o, "processing") /\ GoesTo(w, "create")
     \/ status[o] \in {"processing", "fulfilled"} /\ Ends(w) /\ UNCHANGED status
     \/ /\ ~Claimable(o) /\ status[o] \notin {"processing", "fulfilled"}
        /\ GoesTo(w, "notify") /\ UNCHANGED status
  /\ UNCHANGED <<recorded, card, services, configs, buttons, listed, chat, asked, spent, cut, disturbed>>

(* No enabled panel is mapped: a plan is not claimed at all, a custom      *)
(* order is claimed and put back to "paid" with no await between.          *)
NoPanel(w) ==
  LET o == task[w].order IN
  /\ task[w].at = "claim"
  /\ KindOf[o] = "plan" \/ (KindOf[o] = "custom" /\ Claimable(o))
  /\ GoesTo(w, "notify")
  /\ UNCHANGED <<status, recorded, card, services, configs, buttons, listed, chat, asked, spent, cut, disturbed>>

(* Variants of it: the claim is kept, a status nobody reads is written.    *)
KeepsClaim(w) == status
ReleasedToRetry(w) == [status EXCEPT ![task[w].order] = "retry"]

(* What a failed request leaves behind: the automatic path puts the order  *)
(* back to "paid" (a refused transition is swallowed); the button leaves   *)
(* it alone, except _fulfill_custom_renew, which writes "paid" always.     *)
Released(w) ==
  LET o == task[w].order IN
  IF /\ task[w].via \in Vias \/ KindOf[o] = "renew"
     /\ Legal(o, "paid")
  THEN [status EXCEPT ![o] = "paid"] ELSE status

(* A failure that the automatic path reports as handled.                   *)
FailsQuietly(w) ==
  /\ task[w].at = "create"
  /\ status' = Released(w)
  /\ Ends(w)
  /\ UNCHANGED <<recorded, card, services, configs, buttons, listed, chat, asked, spent, cut, disturbed>>

(* A failure after which the automatic path asks the panel again.          *)
CreateRetries(w) ==
  /\ task[w].at = "create"
  /\ Spend("lost")
  /\ services' = [services EXCEPT ![task[w].order] = @ + 1]
  /\ UNCHANGED <<status, recorded, card, configs, buttons, listed, chat, asked, task, cut, disturbed>>

(* The panel answers with an error; the request may have been carried out. *)
CreateFails(w) ==
  /\ task[w].at = "create"
  /\ \/ UNCHANGED <<services, spent>>
     \/ Spend("lost") /\ services' = [services EXCEPT ![task[w].order] = @ + 1]
  /\ status' = Released(w)
  /\ IF task[w].via \in Vias THEN GoesTo(w, "notify") ELSE Ends(w)
  /\ UNCHANGED <<recorded, card, configs, buttons, listed, chat, asked, cut, disturbed>>

(* The panel has created the service, or extended it for a renewal.        *)
Created(w) ==
  /\ task[w].at = "create"
  /\ services' = [services EXCEPT ![task[w].order] = @ + 1]
  /\ GoesTo(w, IF KindOf[task[w].order] = "renew" THEN "deliver" ELSE "made")
  /\ UNCHANGED <<status, recorded, card, configs, buttons, listed, chat, asked, spent, cut, disturbed>>

HasLink(w) ==
  /\ task[w].at = "made"
  /\ GoesTo(w, "deliver")
  /\ UNCHANGED <<status, recorded, card, services, configs, buttons, listed, chat, asked, spent, cut, disturbed>>

(* The answer holds no link: the order takes the one slot of the admin's   *)
(* conversation, whatever the admin was doing, and the path reports success.*)
NoLink(w) ==
  LET o == task[w].order IN
  /\ task[w].at = "made"
  /\ chat' = [chat EXCEPT !.slot = o, !.mode = "link"]
  /\ asked' = asked \cup {o}
  /\ disturbed' = disturbed \cup Displaced(o)
  /\ Ends(w)
  /\ UNCHANGED <<status, recorded, cut, card, services, configs, buttons, listed, spent>>

(* _deliver_panel_link with the closing before the storing.                *)
StoreLater(w) ==
  /\ task[w].at = "deliver"
  /\ Legal(task[w].order, "fulfilled")
  /\ SetStatus(task[w].order, "fulfilled")
  /\ GoesTo(w, "log")
  /\ UNCHANGED <<recorded, card, services, configs, buttons, listed, chat, asked, spent, cut, disturbed>>

(* _deliver_panel_link / _fulfill_custom_renew: the link is stored ...     *)
Store(w) ==
  /\ task[w].at = "deliver"
  /\ configs' = [configs EXCEPT ![task[w].order] = @ \cup {task[w].link}]
  /\ GoesTo(w, "close")
  /\ UNCHANGED <<status, recorded, card, services, buttons, listed, chat, asked, spent, cut, disturbed>>

(* ... sent to the buyer, and the order is closed; a plan that may no      *)
(* longer become "fulfilled" makes set_order_status raise.                 *)
Close(w) ==
  LET o == task[w].order IN
  /\ task[w].at = "close"
  /\ IF Legal(o, "fulfilled")
     THEN SetStatus(o, "fulfilled") /\ GoesTo(w, "log")
     ELSE /\ UNCHANGED status
          /\ IF task[w].via = "mini" THEN GoesTo(w, "notify") ELSE Ends(w)
  /\ UNCHANGED <<recorded, card, services, configs, buttons, listed, chat, asked, spent, cut, disturbed>>

(* The order is logged to the channel; a handler that read the admin's     *)
(* message then clears the conversation.                                   *)
Log(w) ==
  /\ task[w].at = "log"
  /\ Ends(w)
  /\ IF task[w].via \in {"reply", "hand"}
     THEN chat' = NoChat /\ disturbed' = disturbed \cup Displaced(NoOrder)
     ELSE UNCHANGED <<chat, disturbed>>
  /\ UNCHANGED <<status, recorded, cut, card, services, configs, buttons, listed, asked, spent>>

(* The automatic path has returned FALSE: the admin gets the buttons.      *)
Notify(w) ==
  LET o == task[w].order IN
  /\ task[w].at = "notify"
  /\ buttons' = [buttons EXCEPT ![o] = @ \cup
                   (IF task[w].via = "mini" THEN {"hand"} ELSE {"hand", "panel"})]
  /\ Ends(w)
  /\ UNCHANGED <<status, recorded, card, services, configs, listed, chat, asked, spent, cut, disturbed>>

(* An exception leaves the worker.  In the Mini App, and only while the    *)
(* coroutine runs, _run_async_with_temp_bot turns it into FALSE.           *)
Raise(w) ==
  /\ task[w].at \notin {"idle", "extract"}
  /\ Spend("faults")
  /\ disturbed' = disturbed \cup {task[w].order}
  /\ IF task[w].via = "mini" /\ task[w].at \notin {"settle", "notify"}
     THEN GoesTo(w, "notify") ELSE Ends(w)
  /\ UNCHANGED <<status, recorded, cut, card, services, configs, buttons, listed, chat, asked>>

-----------------------------------------------------------------------------
(* The admin.                                                              *)

OpenQueue ==
  /\ listed' = {o \in Orders : InQueue(o)}
  /\ UNCHANGED <<status, recorded, card, services, configs, buttons, chat, asked, task, spent, cut, disturbed>>

(* dismissorder_ / dismisscustomorder_, then the queue is drawn again.     *)
Dismiss(o) ==
  /\ o \in listed /\ Legal(o, "dismissed")
  /\ SetStatus(o, "dismissed")
  /\ listed' = {q \in Orders \ {o} : InQueue(q)}
  /\ UNCHANGED <<recorded, card, services, configs, buttons, chat, asked, task, spent, cut, disturbed>>

(* clearorders_do.                                                         *)
ClearOrders ==
  /\ \E o \in Orders : InQueue(o)
  /\ status' = [o \in Orders |-> IF InQueue(o) THEN "dismissed" ELSE status[o]]
  /\ listed' = {}
  /\ UNCHANGED <<recorded, card, services, configs, buttons, chat, asked, task, spent, cut, disturbed>>

(* panelsend| and panelcustom_...: no claim, no look at the status.        *)
PanelSend(w, o) ==
  /\ Free(w) /\ "panel" \in buttons[o]
  /\ Spend("presses")
  /\ Starts(w, "create", o, o, "button")
  /\ UNCHANGED <<status, recorded, card, services, configs, buttons, listed, chat, asked, cut, disturbed>>

(* panel_manual_link_received: the admin sends the link of p.              *)
Reply(w, p) ==
  /\ Free(w) /\ chat.mode = "link" /\ p \in asked
  /\ Starts(w, "deliver", chat.slot, p, "reply")
  /\ asked' = asked \ {p}
  /\ UNCHANGED <<status, recorded, card, services, configs, buttons, listed, chat, spent, cut, disturbed>>

(* sendvip_ / sendcustomorder_.                                            *)
StartSend(o) ==
  /\ "hand" \in buttons[o] \/ o \in listed
  /\ Spend("presses")
  /\ chat' = [chat EXCEPT !.mode = "photo", !.send = o, !.qr = FALSE]
  /\ asked' = asked \cup {o}
  /\ disturbed' = disturbed \cup Displaced(NoOrder)
  /\ UNCHANGED <<status, recorded, cut, card, services, configs, buttons, listed, task>>

SendPhoto ==
  /\ chat.mode = "photo"
  /\ chat' = [chat EXCEPT !.mode = "sublink", !.qr = TRUE]
  /\ UNCHANGED <<status, recorded, card, services, configs, buttons, listed, asked, task, spent, cut, disturbed>>

(* send_config_link_received: the link is fetched to read its metadata.    *)
SendLink(w, p) ==
  /\ Free(w) /\ chat.mode = "sublink" /\ p \in asked
  /\ Starts(w, "extract", chat.send, p, "hand")
  /\ asked' = asked \ {p}
  /\ UNCHANGED <<status, recorded, card, services, configs, buttons, listed, chat, spent, cut, disturbed>>

(* _finalize_send by worker w with link p: the conversation is read now.   *)
FinalizeSend(w, p) ==
  LET o == chat.send IN
  IF o = NoOrder \/ ~chat.qr
  THEN /\ chat' = NoChat /\ Ends(w)
       /\ disturbed' = disturbed \cup Displaced(NoOrder)
       /\ UNCHANGED <<status, configs>>
  ELSE /\ configs' = [configs EXCEPT ![o] = @ \cup {p}]
       /\ chat' = [chat EXCEPT !.link = p]
       /\ UNCHANGED disturbed
       /\ IF Legal(o, "fulfilled")
          THEN SetStatus(o, "fulfilled") /\ Starts(w, "log", o, p, "hand")
          ELSE UNCHANGED status /\ Ends(w)

(* The metadata is complete, or the link belongs to a custom order.        *)
Extracted(w) ==
  /\ task[w].at = "extract"
  /\ FinalizeSend(w, task[w].link)
  /\ UNCHANGED <<recorded, cut, card, services, buttons, listed, asked, spent>>

(* It is not: the admin is asked for name, volume and days.                *)
AskManual(w) ==
  /\ task[w].at = "extract"
  /\ KindOf[task[w].order] = "plan"
  /\ chat' = [chat EXCEPT !.mode = "manual", !.link = task[w].link]
  /\ disturbed' = disturbed \cup Displaced(NoOrder)
  /\ Ends(w)
  /\ UNCHANGED <<status, recorded, cut, card, services, configs, buttons, listed, asked, spent>>

SendManual(w) ==
  /\ Free(w) /\ chat.mode = "manual"
  /\ FinalizeSend(w, chat.link)
  /\ UNCHANGED <<recorded, cut, card, services, buttons, listed, asked, spent>>

(* The process dies: the conversation is in the database, the workers not. *)
Crash ==
  /\ Spend("crashes")
  /\ disturbed' = disturbed \cup ({task[w].order : w \in Workers} \ {NoOrder})
  /\ task' = [w \in Workers |-> Idle]
  /\ UNCHANGED <<status, recorded, cut, card, services, configs, buttons, listed, chat, asked>>

-----------------------------------------------------------------------------
Work(w) ==
  \/ Settle(w) \/ Claim(w) \/ NoPanel(w)
  \/ CreateFails(w) \/ Created(w) \/ HasLink(w) \/ NoLink(w)
  \/ Store(w) \/ Close(w) \/ Log(w) \/ Notify(w)
  \/ Extracted(w) \/ AskManual(w)

Purchase ==
  \/ \E w \in Workers, o \in Orders, v \in Vias : BuyPlan(w, o, v) \/ BuyCustom(w, o, v)
  \/ \E o \in Orders : CardPlan(o) \/ CardCustom(o) \/ Interrupted(o)

Admin ==
  \/ \E o \in Orders : ApproveCustom(o) \/ RejectCustom(o) \/ Dismiss(o) \/ StartSend(o)
  \/ OpenQueue \/ ClearOrders \/ SendPhoto
  \/ \E w \in Workers :
       \/ SendManual(w)
       \/ \E o \in Orders : PanelSend(w, o) \/ Reply(w, o) \/ SendLink(w, o)

Next ==
  \/ \E w \in Workers : Work(w) \/ Raise(w)
  \/ Purchase \/ Admin \/ Crash

Spec == Init /\ [][Next]_vars

(* asyncio resumes every coroutine, and every request of panels.py and of  *)
(* Telegram ends by an answer, an error or a timeout.                      *)
FairSpec == Spec /\ \A w \in Workers : WF_vars(Work(w))

-----------------------------------------------------------------------------
(* No order is closed before something was stored for its buyer, whichever *)
(* of the three paths closed it and however they overlapped.               *)
FulfilledDelivered == \A o \in Orders : status[o] = "fulfilled" => configs[o] # {}

(* Nothing is made at the panel, and nothing is stored for a buyer, whose  *)
(* purchase has not been recorded.                                         *)
NoServiceUnpaid ==
  \A o \in Orders : services[o] > 0 \/ configs[o] # {} => recorded[o] > 0

(* An order paid by card is charged once, however often the two buttons of *)
(* its receipt are pressed, and a refused one is neither charged nor       *)
(* served, unless the acceptance was cut short between its two writes.     *)
ReceiptDecidedOnce ==
  \A o \in card \ cut :
    /\ recorded[o] <= 1
    /\ status[o] = "rejected" => recorded[o] = 0 /\ services[o] = 0 /\ configs[o] = {}

(* Every change of a plan order obeys ALLOWED_ORDER_TRANSITIONS, the ones  *)
(* made by the UPDATE of claim_order_for_processing included.              *)
PlanLifecycle ==
  [][\A o \in Orders :
       KindOf[o] = "plan" /\ status[o] # "none" /\ status'[o] # status[o]
         => status'[o] \in Allowed[status[o]]]_vars

(* Nobody can reach the open order o any more: no worker has it, the queue *)
(* and the receipts do not show it, the admin has no button for it and the *)
(* conversation does not wait for its link.                                *)
Lost(o) ==
  /\ status[o] \in Open
  /\ ~InQueue(o) /\ ~InReceipts(o) /\ ~Holds(o) /\ buttons[o] = {}
  /\ \A w \in Workers : task[w].order # o

(* An open order is lost only by an exception, a crash, or another order   *)
(* taking its place in the admin's conversation.                           *)
LostOnlyIfDisturbed == \A o \in Orders : Lost(o) => o \in disturbed

(* The panel makes a service, or extends it, at most once for a purchase   *)
(* and once more for every press of the admin's panel button: the program  *)
(* itself never repeats a request whose answer was lost.                   *)
MadeOncePerPress ==
  \A o \in Orders : services[o] <= spent["presses"] + (IF o \in card THEN 0 ELSE 1)

(* A claimed order does not stay in "processing" unless it waits for the   *)
(* admin's link or was disturbed: the automatic path always lets go.       *)
ClaimSettles ==
  \A o \in Orders :
    (status[o] = "processing")
      ~> (status[o] # "processing" \/ Holds(o) \/ o \in disturbed)

=============================================================================
