---------------------------- MODULE AdminDeskProofs ----------------------------
(***************************************************************************)
(* Proofs about AdminDesk, for any shop, any number of rows and any number *)
(* of handlers that wait for Telegram.  First: what is typed goes to the   *)
(* code it was typed for, and an agent is somebody whose id was typed.     *)
(* Second: the conversation and the tables keep their types, and the       *)
(* catalogue stays sound.                                                  *)
(***************************************************************************)
EXTENDS AdminDesk, FiniteSetTheorems, TLAPS

\* The conversation has its fields.
Shape == {"at", "item", "code", "newAgent", "draft", "pick"} \subseteq DOMAIN talk

\* Ids are numbers.
Rows == codes \subseteq Ids /\ born \in Nat

\* Only the editors of a code are about one when they wait for Telegram.
Fielded == \A l \in late : l.to \in CodeFields => l.code # None

\* Until two starts overlap, a start that waits is about the code in the data, if any ...
Held == ~astray => \A l \in late : l.code # None => talk.code \in {l.code, None}

\* ... and while none about a code waits, the code in the data is that of the prompt.
Prompted ==
  ~astray /\ talk.at \in CodeFields /\ (\A l \in late : l.code = None)
    => talk.code \in {asked, None}

AskedPercent == talk.at = "agentPercent" \/ \E l \in late : l.to = "agentPercent"

\* Until a clear comes between, the id of the agent is there when his percent is asked.
Named == ~torn => None \notin agents /\ (AskedPercent => talk.newAgent # None)

IInv == Shape /\ Rows /\ Fielded /\ Held /\ Prompted /\ Named

\* States no slot belongs to.
Slotless == AdminStates \ (CodeFields \cup {"agentPercent"})

\* A step of a wizard may wait for Telegram as well.
Waits == late' = late \/ \E to \in Slotless : late' = late \cup {[to |-> to, code |-> None]}

LEMMA CodesApart == "none" \notin CodeFields /\ "agentPercent" \notin CodeFields
  BY DEF CodeFields

---------------------------------------------------------------------------
\* The rows change and the conversation does not.
LEMMA StillKeeps ==
  ASSUME IInv, Rows', UNCHANGED <<talk, late, asked, astray, torn>>, agents' \subseteq agents
  PROVE  IInv'
  <1>1. Shape' /\ Fielded' /\ Held' /\ Prompted'
    BY DEF IInv, Shape, Fielded, Held, Prompted
  <1>2. Named' BY DEF IInv, Named, AskedPercent
  <1>. QED BY <1>1, <1>2 DEF IInv

\* The conversation goes on with another state, or another field of no slot.
LEMMA TalkKeeps ==
  ASSUME IInv, Rows', Shape', Waits, agents' = agents,
         talk'.code = talk.code, talk'.newAgent = talk.newAgent,
         (talk'.at = talk.at /\ asked' = asked) \/ talk'.at \in Slotless,
         astray' = astray \/ (talk'.at \in Slotless /\ (astray /\ late # {} => astray')),
         torn' = torn
  PROVE  IInv'
  <1>1. \A l \in late' : l \in late \/ (l.to \in Slotless /\ l.code = None)
    BY DEF Waits
  <1>2. late \subseteq late' BY DEF Waits
  <1>3. Fielded' BY <1>1 DEF IInv, Fielded, Slotless
  <1>4. Held'
    <2>1. ~astray' => ~astray \/ late = {} OBVIOUS
    <2>. QED BY <1>1, <2>1 DEF IInv, Held
  <1>5. Prompted' BY <1>2 DEF IInv, Prompted, Slotless
  <1>6. AskedPercent' => AskedPercent BY <1>1 DEF AskedPercent, Slotless
  <1>7. Named' BY <1>6 DEF IInv, Named
  <1>. QED BY <1>3, <1>4, <1>5, <1>7 DEF IInv

\* The conversation is cleared.
LEMMA ClearedKeeps ==
  ASSUME IInv, Rows', Cleared, Waits, agents' = agents
  PROVE  IInv'
  <1>1. \A l \in late' : l \in late \/ (l.to \in Slotless /\ l.code = None)
    BY DEF Waits
  <1>2. talk' = Blank /\ (torn' <=> torn \/ \E l \in late : l.to = "agentPercent")
    <2>1. talk' = Blank BY DEF Cleared
    <2>2. torn' <=> torn \/ \E l \in late : l.to = "agentPercent" BY Zenon DEF Cleared
    <2>. QED BY <2>1, <2>2
  <1>3. /\ talk'.at = "none" /\ talk'.code = None
        /\ Shape'
    BY <1>2 DEF Blank, Shape
  <1>4. Fielded' BY <1>1 DEF IInv, Fielded, Slotless
  <1>5. Held' BY <1>3 DEF Held
  <1>6. Prompted' BY <1>3, CodesApart DEF Prompted
  <1>7. ~torn' => ~torn /\ ~AskedPercent'
    <2>. SUFFICES ASSUME ~torn' PROVE ~torn /\ ~AskedPercent'
      OBVIOUS
    <2>1. ~torn /\ \A l \in late : l.to # "agentPercent" BY <1>2
    <2>. QED BY <1>1, <1>3, <2>1 DEF AskedPercent, Slotless
  <1>8. Named' BY <1>7 DEF IInv, Named
  <1>. QED BY <1>3, <1>4, <1>5, <1>6, <1>8 DEF IInv

---------------------------------------------------------------------------
\* A code is written into the data by a start that waits.
LEMMA EditStartKeeps ==
  ASSUME IInv, NEW field \in CodeFields, EditStart(field) PROVE IInv'
  <1>1. PICK c \in codes :
          /\ late' = late \cup {[to |-> field, code |-> c]}
          /\ talk' = [talk EXCEPT !.code = c]
          /\ astray' = (astray \/ \E l \in late : l.code \notin {None, c})
          /\ UNCHANGED <<clearing, asked, torn, rows>>
    BY DEF EditStart, Later
  <1>2. c # None BY DeskAssumption DEF IInv, Rows, DeskAssumption
  <1>3. talk'.code = c /\ talk'.at = talk.at /\ talk'.newAgent = talk.newAgent /\ Shape'
    BY <1>1 DEF IInv, Shape
  <1>4. Rows' /\ agents' = agents BY <1>1 DEF IInv, Rows, rows
  <1>5. Fielded' BY <1>1, <1>2 DEF IInv, Fielded
  <1>6. Held'
    <2>1. ~astray' => \A l \in late : l.code \in {None, c} BY <1>1, Zenon
    <2>. QED BY <1>1, <1>3, <2>1 DEF Held
  <1>7. [to |-> field, code |-> c] \in late' BY <1>1
  <1>8. Prompted' BY <1>2, <1>7 DEF Prompted
  <1>9. AskedPercent' => AskedPercent BY <1>1, <1>3 DEF AskedPercent, CodeFields
  <1>10. Named' BY <1>1, <1>3, <1>4, <1>9 DEF IInv, Named
  <1>. QED BY <1>3, <1>4, <1>5, <1>6, <1>8, <1>10 DEF IInv

LEMMA PlansStartKeeps == ASSUME IInv, AdminDiscountEditPlansStart PROVE IInv'
  <1>1. PICK c \in codes :
          /\ talk' = [talk EXCEPT !.code = c]
          /\ astray' = (\/ astray
                        \/ talk.at \in CodeFields /\ asked # c
                        \/ \E l \in late : l.code \notin {None, c})
          /\ UNCHANGED <<late, clearing, asked, torn, rows>>
    BY DEF AdminDiscountEditPlansStart
  <1>2. talk'.code = c /\ talk'.at = talk.at /\ talk'.newAgent = talk.newAgent /\ Shape'
    BY <1>1 DEF IInv, Shape
  <1>3. Rows' /\ agents' = agents BY <1>1 DEF IInv, Rows, rows
  <1>4. Fielded' BY <1>1 DEF IInv, Fielded
  <1>5. Held' BY <1>1, <1>2 DEF Held
  <1>6. Prompted' BY <1>1, <1>2 DEF Prompted
  <1>7. Named' BY <1>1, <1>2, <1>3 DEF IInv, Named, AskedPercent
  <1>. QED BY <1>2, <1>3, <1>4, <1>5, <1>6, <1>7 DEF IInv

\* Telegram has answered and the state is set.
LEMMA SetStateKeeps == ASSUME IInv, SetState PROVE IInv'
  <1>1. PICK l \in late :
          /\ late' = late \ {l}
          /\ talk' = [talk EXCEPT !.at = l.to, !.item = None]
          /\ asked' = l.code
          /\ UNCHANGED <<clearing, astray, torn, rows>>
    BY DEF SetState
  <1>2. talk'.code = talk.code /\ talk'.at = l.to /\ talk'.newAgent = talk.newAgent /\ Shape'
    BY <1>1 DEF IInv, Shape
  <1>3. Rows' /\ agents' = agents BY <1>1 DEF IInv, Rows, rows
  <1>4. Fielded' BY <1>1 DEF IInv, Fielded
  <1>5. Held' BY <1>1, <1>2 DEF IInv, Held
  <1>6. Prompted'
    <2>. SUFFICES ASSUME ~astray, l.to \in CodeFields PROVE talk.code \in {l.code, None}
      BY <1>1, <1>2 DEF Prompted
    <2>1. l.code # None
      BY DEF IInv, Fielded
    <2>. QED BY <2>1 DEF IInv, Held
  <1>7. AskedPercent' => AskedPercent BY <1>1, <1>2 DEF AskedPercent
  <1>8. Named' BY <1>1, <1>2, <1>3, <1>7 DEF IInv, Named
  <1>. QED BY <1>2, <1>3, <1>4, <1>5, <1>6, <1>8 DEF IInv

\* A start, or several of them, ends without a state.
LEMMA DropKeeps ==
  ASSUME IInv, Rows', UNCHANGED <<talk, asked, torn, agents>>, late' \subseteq late,
         astray' = (astray \/ \E l \in late \ late' : Strays(l))
  PROVE  IInv'
  <1>1. Shape' BY DEF IInv, Shape
  <1>2. Fielded' BY DEF IInv, Fielded
  <1>3. Held' BY DEF IInv, Held
  <1>4. Prompted'
    <2>. SUFFICES ASSUME ~astray', talk.at \in CodeFields, \A l \in late' : l.code = None
                  PROVE  talk.code \in {asked, None}
      BY DEF Prompted
    <2>1. ~astray /\ \A l \in late : l \in late' \/ l.code \in {None, asked} BY DEF Strays
    <2>2. CASE \A l \in late : l.code = None BY <2>1, <2>2 DEF IInv, Prompted
    <2>3. CASE \E l \in late : l.code # None
      <3>1. PICK l \in late : l.code # None BY <2>3
      <3>2. talk.code \in {l.code, None} BY <2>1, <3>1 DEF IInv, Held
      <3>3. l.code = asked BY <2>1, <3>1
      <3>. QED BY <3>2, <3>3
    <2>. QED BY <2>2, <2>3
  <1>5. Named' BY DEF IInv, Named, AskedPercent
  <1>. QED BY <1>1, <1>2, <1>3, <1>4, <1>5 DEF IInv

---------------------------------------------------------------------------
\* The agent whose percent is asked

LEMMA NewAgentIdKeeps == ASSUME IInv, NewAgentIdInput PROVE IInv'
  <1>1. PICK tid \in People : talk' = [talk EXCEPT !.newAgent = tid]
    BY DEF NewAgentIdInput
  <1>2. late' = late \cup {[to |-> "agentPercent", code |-> None]}
         /\ UNCHANGED <<asked, astray, torn, rows>>
    BY DEF NewAgentIdInput, Later
  <1>3. talk'.code = talk.code /\ talk'.at = talk.at /\ talk'.newAgent = tid /\ Shape'
    BY <1>1 DEF IInv, Shape
  <1>4. tid # None BY DeskAssumption DEF DeskAssumption
  <1>5. Rows' /\ agents' = agents BY <1>2 DEF IInv, Rows, rows
  <1>6. Fielded' BY <1>2, CodesApart DEF IInv, Fielded
  <1>7. Held' BY <1>2, <1>3 DEF IInv, Held
  <1>8. Prompted' BY <1>2, <1>3 DEF IInv, Prompted
  <1>9. Named' BY <1>2, <1>3, <1>4, <1>5 DEF IInv, Named
  <1>. QED BY <1>3, <1>5, <1>6, <1>7, <1>8, <1>9 DEF IInv

LEMMA NewAgentPercentKeeps == ASSUME IInv, NewAgentPercentInput PROVE IInv'
  <1>1. UNCHANGED <<talk, late, asked, astray, torn, codes, born>>
    BY DEF NewAgentPercentInput, AnswerThenClear
  <1>2. agents' = agents \cup {talk.newAgent} /\ talk.at = "agentPercent"
    BY DEF NewAgentPercentInput, AddAgent
  <1>3. Shape' /\ Rows' /\ Fielded' BY <1>1 DEF IInv, Shape, Rows, Fielded
  <1>4. Held' /\ Prompted' BY <1>1 DEF IInv, Held, Prompted
  <1>5. Named' BY <1>1, <1>2 DEF IInv, Named, AskedPercent
  <1>. QED BY <1>3, <1>4, <1>5 DEF IInv

---------------------------------------------------------------------------
\* What the replies of the conversation come to

LEMMA BornIds == ASSUME IInv, Born PROVE born' \in Nat /\ born + 1 \in Ids
  BY DeskAssumption DEF IInv, Rows, Born, Ids, DeskAssumption

LEMMA EnterKeeps == ASSUME IInv, NEW at \in Slotless, NEW item, Enter(at, item) PROVE IInv'
  <1>1. talk' = [talk EXCEPT !.at = at, !.item = item] BY DEF Enter
  <1>2. talk'.code = talk.code /\ talk'.at = at /\ talk'.newAgent = talk.newAgent /\ Shape'
    BY <1>1 DEF IInv, Shape
  <1>3. Rows' /\ agents' = agents BY DEF IInv, Rows, Enter, rows
  <1>4. late' = late /\ torn' = torn BY DEF Enter
  <1>5. astray /\ late # {} => astray' BY Zenon DEF Enter
  <1>. QED BY <1>2, <1>3, <1>4, <1>5, TalkKeeps DEF Waits

LEMMA AdvanceKeeps == ASSUME IInv, NEW from, NEW to \in Slotless, Advance(from, to) PROVE IInv'
  <1>1. talk' = [talk EXCEPT !.at = to] BY DEF Advance
  <1>2. talk'.code = talk.code /\ talk'.at = to /\ talk'.newAgent = talk.newAgent /\ Shape'
    BY <1>1 DEF IInv, Shape
  <1>3. Rows' /\ agents' = agents BY DEF IInv, Rows, Advance, rows
  <1>. QED BY <1>2, <1>3, TalkKeeps DEF Waits, Advance

LEMMA WizardStepKeeps ==
  ASSUME IInv, NEW to \in Slotless, Later(to, None), UNCHANGED <<talk, asked, astray, torn, rows>>
  PROVE  IInv'
  <1>1. Rows' /\ Shape' /\ agents' = agents BY DEF IInv, Rows, Shape, rows
  <1>2. Waits BY DEF Waits, Later
  <1>. QED BY <1>1, <1>2, TalkKeeps

LEMMA ReplyKeeps == ASSUME IInv, Rows', AnswerThenClear, agents' = agents PROVE IInv'
  BY StillKeeps DEF AnswerThenClear

\* A field of no slot is written.
LEMMA MarkKeeps ==
  ASSUME IInv, UNCHANGED <<late, asked, astray, torn, rows>>, NEW value,
         talk' = [talk EXCEPT !.draft = value] \/ talk' = [talk EXCEPT !.pick = value]
  PROVE  IInv'
  <1>1. talk'.code = talk.code /\ talk'.at = talk.at /\ talk'.newAgent = talk.newAgent /\ Shape'
    BY DEF IInv, Shape
  <1>2. Rows' /\ agents' = agents BY DEF IInv, Rows, rows
  <1>. QED BY <1>1, <1>2, TalkKeeps DEF Waits

LEMMA EndKeeps ==
  ASSUME IInv, Cleared, UNCHANGED <<late, rows>> PROVE IInv'
  <1>1. Rows' /\ agents' = agents BY DEF IInv, Rows, rows
  <1>. QED BY <1>1, ClearedKeeps DEF Waits

LEMMA EditSaveKeeps == ASSUME IInv, NEW field, EditSave(field) PROVE IInv'
  <1>1. Rows' /\ agents' = agents BY DEF EditSave, IInv, Rows, rows
  <1>2. AnswerThenClear \/ (Cleared /\ late' = late) BY DEF EditSave
  <1>. QED BY <1>1, <1>2, ReplyKeeps, ClearedKeeps DEF Waits

\* Rows that are not of a code, and the conversation as it is.
LEMMA TableKeeps ==
  ASSUME IInv, UNCHANGED <<conversation, codes, agents, born>> PROVE IInv'
  <1>1. Rows' BY DEF IInv, Rows
  <1>. QED BY <1>1, StillKeeps DEF conversation

---------------------------------------------------------------------------
\* Every group of the actions keeps the invariant.
LEMMA StatesOfNoSlot ==
  /\ PlanFields \cup PlanSteps \cup GuideSteps \cup PanelSteps \cup CodeSteps \subseteq Slotless
  /\ {"agentId", "agentEdit", "catName", "catDesc", "panelEdit"} \subseteq Slotless
  BY DEF Slotless, AdminStates, CodeFields, CodeSteps, PlanFields, PlanSteps, GuideSteps, PanelSteps

LEMMA TalkStep == ASSUME IInv, NextTalk PROVE IInv'
  <1>1. CASE SetState BY <1>1, SetStateKeeps
  <1>2. CASE ClearState BY <1>2, EndKeeps DEF ClearState
  <1>3. CASE AnswerRaises
    <2>1. Rows' /\ UNCHANGED <<talk, asked, torn, agents>>
      BY <1>3 DEF AnswerRaises, IInv, Rows, rows
    <2>2. CASE \E l \in late : late' = late \ {l} /\ astray' = (astray \/ Strays(l))
      <3>1. PICK l \in late : late' = late \ {l} /\ astray' = (astray \/ Strays(l)) BY <2>2
      <3>2. late \ late' = {l} BY <3>1
      <3>3. astray' = (astray \/ \E k \in late \ late' : Strays(k)) BY <3>1, <3>2, Zenon
      <3>. QED BY <2>1, <3>1, <3>3, DropKeeps
    <2>3. CASE UNCHANGED <<late, astray>>
      BY <2>1, <2>3, StillKeeps
    <2>. QED BY <1>3, <2>2, <2>3 DEF AnswerRaises
  <1>. QED BY <1>1, <1>2, <1>3 DEF NextTalk

LEMMA CodesStep == ASSUME IInv, NextCodes PROVE IInv'
  <1>1. CASE \E field \in CodeFields : EditStart(field) BY <1>1, EditStartKeeps
  <1>2. CASE \E field \in CodeFields : EditSave(field) BY <1>2, EditSaveKeeps
  <1>3. CASE AdminDiscountEditPlansStart BY <1>3, PlansStartKeeps
  <1>4. CASE AdminDiscountEditPlansDone BY <1>4, EndKeeps DEF AdminDiscountEditPlansDone
  <1>5. CASE AdminDiscountDeleteConfirm
    <2>1. Rows'
      BY <1>5 DEF AdminDiscountDeleteConfirm, DeleteDiscountById, IInv, Rows
    <2>. QED BY <1>5, <2>1, StillKeeps DEF AdminDiscountDeleteConfirm, conversation
  <1>6. CASE \/ AdminDiscountEditValueStart \/ AdminDiscountEditUsesStart
             \/ AdminDiscountEditMinorderStart \/ AdminDiscountEditMaxuserStart
             \/ AdminDiscountEditExpiryStart \/ AdminDiscountEditUsersStart
    BY <1>1, <1>6 DEF CodeFields, AdminDiscountEditValueStart, AdminDiscountEditUsesStart,
       AdminDiscountEditMinorderStart, AdminDiscountEditMaxuserStart,
       AdminDiscountEditExpiryStart, AdminDiscountEditUsersStart
  <1>7. CASE \/ AdminDiscountEditValueSave \/ AdminDiscountEditUsesSave
             \/ AdminDiscountEditMinorderSave \/ AdminDiscountEditMaxuserSave
             \/ AdminDiscountEditExpirySave \/ AdminDiscountEditUsersSave
    BY <1>2, <1>7 DEF CodeFields, AdminDiscountEditValueSave, AdminDiscountEditUsesSave,
       AdminDiscountEditMinorderSave, AdminDiscountEditMaxuserSave,
       AdminDiscountEditExpirySave, AdminDiscountEditUsersSave
  <1>. QED BY <1>3, <1>4, <1>5, <1>6, <1>7 DEF NextCodes, AdminDiscountDetail

LEMMA NewCodeStep == ASSUME IInv, NextNewCode PROVE IInv'
  <1>1. CASE NewDiscountStart
    <2>1. Rows' /\ agents' = agents /\ Cleared
      BY <1>1 DEF NewDiscountStart, IInv, Rows, rows
    <2>2. Waits BY <1>1, StatesOfNoSlot DEF NewDiscountStart, Later, Waits, CodeSteps
    <2>. QED BY <2>1, <2>2, ClearedKeeps
  <1>2. CASE NewDiscountCodeInput BY <1>2, MarkKeeps DEF NewDiscountCodeInput
  <1>3. ASSUME NEW from, NEW to \in CodeSteps, WizardStep(from, to) PROVE IInv'
    BY <1>3, WizardStepKeeps, StatesOfNoSlot DEF WizardStep
  <1>4. CASE NewDiscountTypeChosen \/ NewDiscountPlanToggle \/ NewDiscountUsersInput
    BY <1>3, <1>4 DEF NewDiscountTypeChosen, NewDiscountPlanToggle, NewDiscountUsersInput, CodeSteps
  <1>5. CASE NewDiscountUsesInput
    <2>1. AnswerThenClear /\ agents' = agents BY <1>5 DEF NewDiscountUsesInput
    <2>2. UNCHANGED <<codes, born>> \/ (Born /\ codes' = codes \cup {born + 1})
      BY <1>5 DEF NewDiscountUsesInput, CreateDiscount
    <2>3. Rows' BY <2>2, BornIds DEF IInv, Rows
    <2>. QED BY <2>1, <2>3, ReplyKeeps
  <1>. QED BY <1>1, <1>2, <1>4, <1>5 DEF NextNewCode

LEMMA AgentsStep == ASSUME IInv, NextAgents PROVE IInv'
  <1>1. CASE NewAgentStart BY <1>1, WizardStepKeeps, StatesOfNoSlot DEF NewAgentStart
  <1>2. CASE DeleteAgent
    <2>1. Rows' /\ UNCHANGED <<talk, late, asked, astray, torn>>
      BY <1>2 DEF DeleteAgent, IInv, Rows, conversation
    <2>2. agents' \subseteq agents BY <1>2 DEF DeleteAgent, RemoveAgent
    <2>. QED BY <2>1, <2>2, StillKeeps
  <1>3. CASE AdminAgentEditPercentStart
    BY <1>3, EnterKeeps, StatesOfNoSlot DEF AdminAgentEditPercentStart
  <1>4. CASE AdminAgentEditPercentApply
    BY <1>4, ReplyKeeps DEF AdminAgentEditPercentApply, Update, IInv, Rows, rows
  <1>. QED BY <1>1, <1>2, <1>3, <1>4, NewAgentIdKeeps, NewAgentPercentKeeps DEF NextAgents

LEMMA UpdateKeeps == ASSUME IInv, NEW at, Update(at) PROVE IInv'
  <1>1. Rows' /\ agents' = agents /\ AnswerThenClear BY DEF Update, IInv, Rows, rows
  <1>. QED BY <1>1, ReplyKeeps

LEMMA CatalogueStep == ASSUME IInv, NextCatalogue PROVE IInv'
  <1>1. CASE AdminNewVipCategoryApply
    <2>1. Rows' /\ agents' = agents /\ AnswerThenClear
      BY <1>1, BornIds DEF AdminNewVipCategoryApply, CreateVipCategory, IInv, Rows
    <2>. QED BY <2>1, ReplyKeeps
  <1>2. CASE AdminNewVipPlanDays
    <2>1. UNCHANGED <<codes, agents>> /\ AnswerThenClear /\ (born' = born \/ Born)
      BY <1>2 DEF AdminNewVipPlanDays, AddVipPlan
    <2>2. Rows' BY <2>1, BornIds DEF IInv, Rows
    <2>. QED BY <2>1, <2>2, ReplyKeeps
  <1>3. CASE \/ AdminDeleteVipCategory \/ AdminMoveVipCategory
             \/ AdminDeleteVipPlan \/ AdminMoveVipPlan
    BY <1>3, TableKeeps DEF AdminDeleteVipCategory, AdminMoveVipCategory, AdminDeleteVipPlan, AdminMoveVipPlan
  <1>4. CASE \/ AdminNewVipCategoryStart \/ AdminEditVipCategoryDescStart \/ AdminNewVipPlanStart
    BY <1>4, EnterKeeps, StatesOfNoSlot
       DEF AdminNewVipCategoryStart, AdminEditVipCategoryDescStart, AdminNewVipPlanStart, PlanSteps
  <1>5. CASE \E field \in PlanFields : PlanEditStart(field)
    BY <1>5, EnterKeeps, StatesOfNoSlot DEF PlanEditStart
  <1>6. CASE \E at : Update(at)
    BY <1>6, UpdateKeeps
  <1>7. CASE AdminNewVipPlanName \/ AdminNewVipPlanPrice \/ AdminNewVipPlanGb
    BY <1>7, AdvanceKeeps, StatesOfNoSlot
       DEF AdminNewVipPlanName, AdminNewVipPlanPrice, AdminNewVipPlanGb, PlanSteps
  <1>8. CASE \/ AdminVipPlanEditNameStart \/ AdminVipPlanEditPriceStart
             \/ AdminVipPlanEditGbStart \/ AdminVipPlanEditDaysStart \/ AdminVipPlanEditLimitStart
    BY <1>5, <1>8 DEF PlanFields, AdminVipPlanEditNameStart, AdminVipPlanEditPriceStart,
       AdminVipPlanEditGbStart, AdminVipPlanEditDaysStart, AdminVipPlanEditLimitStart
  <1>9. CASE \/ AdminEditVipCategoryDescApply
             \/ AdminVipPlanEditNameApply \/ AdminVipPlanEditPriceApply
             \/ AdminVipPlanEditGbApply \/ AdminVipPlanEditDaysApply \/ AdminVipPlanEditUserLimitApply
    BY <1>6, <1>9 DEF AdminEditVipCategoryDescApply, AdminVipPlanEditNameApply,
       AdminVipPlanEditPriceApply, AdminVipPlanEditGbApply, AdminVipPlanEditDaysApply,
       AdminVipPlanEditUserLimitApply
  <1>. QED BY <1>1, <1>2, <1>3, <1>4, <1>7, <1>8, <1>9 DEF NextCatalogue

LEMMA GuidesStep == ASSUME IInv, NextGuides PROVE IInv'
  <1>1. CASE AdminGuidesList BY <1>1, EndKeeps DEF AdminGuidesList
  <1>2. CASE AdminGuideNewContent
    <2>1. Rows' /\ agents' = agents /\ Cleared /\ late' = late
      BY <1>2, BornIds DEF AdminGuideNewContent, CreateGuide, IInv, Rows
    <2>. QED BY <2>1, ClearedKeeps DEF Waits
  <1>3. CASE AdminGuideMove \/ AdminGuideDeleteDo
    BY <1>3, TableKeeps DEF AdminGuideMove, AdminGuideDeleteDo
  <1>4. CASE \E field \in GuideSteps : GuideEditStart(field)
    BY <1>4, EnterKeeps, StatesOfNoSlot DEF GuideEditStart
  <1>5. CASE \E field : GuideEditSave(field) BY <1>5, EndKeeps DEF GuideEditSave
  <1>6. CASE AdminGuideNewStart
    BY <1>6, EnterKeeps, StatesOfNoSlot DEF AdminGuideNewStart, GuideSteps
  <1>7. CASE AdminGuideNewTitle
    BY <1>7, AdvanceKeeps, StatesOfNoSlot DEF AdminGuideNewTitle, GuideSteps
  <1>8. CASE AdminGuideEditNameStart \/ AdminGuideEditContentStart
    BY <1>4, <1>8 DEF AdminGuideEditNameStart, AdminGuideEditContentStart, GuideSteps
  <1>9. CASE AdminGuideEditNameSave \/ AdminGuideEditContentSave
    BY <1>5, <1>9 DEF AdminGuideEditNameSave, AdminGuideEditContentSave
  <1>. QED BY <1>1, <1>2, <1>3, <1>6, <1>7, <1>8, <1>9 DEF NextGuides

LEMMA PanelsStep == ASSUME IInv, NextPanels PROVE IInv'
  <1>1. CASE VpnPanelAddStart \/ VpnPanelEditFieldStart
    BY <1>1, EnterKeeps, StatesOfNoSlot DEF VpnPanelAddStart, VpnPanelEditFieldStart, PanelSteps
  <1>2. CASE VpnPanelAddName \/ VpnPanelAddBaseUrl \/ VpnPanelAddUsername
    BY <1>2, AdvanceKeeps, StatesOfNoSlot
       DEF VpnPanelAddName, VpnPanelAddBaseUrl, VpnPanelAddUsername, PanelSteps
  <1>3. ASSUME NEW at, CreateVpnPanel(at) PROVE IInv'
    <2>1. Rows' /\ agents' = agents /\ Cleared /\ late' = late
      BY <1>3, BornIds DEF CreateVpnPanel, IInv, Rows
    <2>. QED BY <2>1, ClearedKeeps DEF Waits
  <1>4. CASE VpnPanelAddApiKey \/ VpnPanelAddPassword
    BY <1>3, <1>4 DEF VpnPanelAddApiKey, VpnPanelAddPassword
  <1>5. CASE VpnPanelEditFieldReceived
    <2>1. Rows' /\ agents' = agents BY <1>5 DEF VpnPanelEditFieldReceived, IInv, Rows, rows
    <2>2. AnswerThenClear \/ (Cleared /\ late' = late) BY <1>5 DEF VpnPanelEditFieldReceived
    <2>. QED BY <2>1, <2>2, ReplyKeeps, ClearedKeeps DEF Waits
  <1>6. CASE VpnPanelToggle \/ VpnPanelDelete \/ VpnCatalogPickSet
    BY <1>6, TableKeeps DEF VpnPanelToggle, VpnPanelDelete, VpnCatalogPickSet
  <1>7. CASE \E scope : OpenCatalogPicker(scope)
    BY <1>7, MarkKeeps DEF OpenCatalogPicker
  <1>8. CASE VpnMapVipPlanPick \/ VpnMapCatPick \/ VpnMapCustomBuild \/ VpnMapFreeTest
    BY <1>7, <1>8 DEF VpnMapVipPlanPick, VpnMapCatPick, VpnMapCustomBuild, VpnMapFreeTest
  <1>9. CASE \E scope : VpnMapDelete(scope)
    BY <1>9, TableKeeps DEF VpnMapDelete
  <1>10. CASE VpnMapDeletePlan \/ VpnMapDeleteCategory
    BY <1>9, <1>10 DEF VpnMapDeletePlan, VpnMapDeleteCategory
  <1>11. CASE VpnCatalogPickCut
    <2>1. Rows' /\ UNCHANGED <<talk, asked, torn, agents>>
      BY <1>11 DEF VpnCatalogPickCut, IInv, Rows
    <2>2. late' = {} /\ late \ late' = late BY <1>11 DEF VpnCatalogPickCut
    <2>3. astray' = (astray \/ \E l \in late : Strays(l)) BY <1>11, Zenon DEF VpnCatalogPickCut
    <2>. QED BY <2>1, <2>2, <2>3, DropKeeps
  <1>. QED BY <1>1, <1>2, <1>4, <1>5, <1>6, <1>8, <1>10, <1>11 DEF NextPanels

---------------------------------------------------------------------------
LEMMA InitInv == Init => IInv
  <1>. SUFFICES ASSUME Init PROVE IInv
    OBVIOUS
  <1>1. talk = Blank /\ late = {} /\ agents = {} BY DEF Init
  <1>2. Rows
    <2>1. PICK shop \in Shops : codes = shop.codes /\ born = shop.born BY DEF Init
    <2>2. Legal(shop) BY DeskAssumption DEF DeskAssumption
    <2>. QED BY <2>1, <2>2, DeskAssumption DEF Legal, Rows, Ids, DeskAssumption
  <1>3. Shape /\ talk.at = "none" BY <1>1 DEF Shape, Blank
  <1>4. Fielded /\ Held BY <1>1 DEF Fielded, Held
  <1>5. Prompted BY <1>3, CodesApart DEF Prompted
  <1>6. Named BY <1>1, <1>3 DEF Named, AskedPercent
  <1>. QED BY <1>2, <1>3, <1>4, <1>5, <1>6 DEF IInv

LEMMA StepInv == IInv /\ [Next]_vars => IInv'
  <1>. SUFFICES ASSUME IInv, [Next]_vars PROVE IInv'
    OBVIOUS
  <1>1. CASE UNCHANGED vars BY <1>1, TableKeeps DEF vars, rows
  <1>2. CASE Next
    BY <1>2, TalkStep, CodesStep, NewCodeStep, AgentsStep, CatalogueStep, GuidesStep, PanelsStep
       DEF Next
  <1>. QED BY <1>1, <1>2

LEMMA Invariance == Spec => []IInv
  BY InitInv, StepInv, PTL DEF Spec

\* Whatever starts overlap, fail or are cleared away, and whichever shop the admin works in: a
\* value typed for a code is written to the code its prompt named, or to none, and the id of an
\* agent was typed (admin.py:2778, 3372).
THEOREM SlotsTrue == Spec => []SlotTrue
  <1>1. IInv => SlotTrue BY DEF IInv, Prompted, Named, SlotTrue
  <1>. QED BY <1>1, Invariance, PTL

---------------------------------------------------------------------------
\* Finite sets: among sets of subsets of one there is a smallest, and a finite list of numbers
\* has a last.
LEMMA SmallestSubset ==
  ASSUME NEW S, IsFiniteSet(S), NEW T \in SUBSET (SUBSET S), T # {}
  PROVE  \E A \in T : \A B \in T : B \subseteq A => B = A
  <1>1. T \subseteq FiniteSubsetsOf(S) BY FS_FiniteSubsetsOfFinite
  <1>2. PICK A \in T : \A B \in T : <<B, A>> \notin StrictSubsetOrdering(S)
    BY <1>1, WFMin, FS_StrictSubsetOrderingWellFounded
  <1>. QED BY <1>2 DEF StrictSubsetOrdering

LEMMA LastPlace ==
  ASSUME NEW order, IsFiniteSet(DOMAIN order), DOMAIN order # {},
         \A i \in DOMAIN order : order[i] \in Nat
  PROVE  \E m \in DOMAIN order : \A i \in DOMAIN order : order[i] <= order[m]
  <1>. DEFINE HasLast(A) == \E m \in A : \A i \in A : order[i] <= order[m]
              T == {A \in SUBSET DOMAIN order : A # {} /\ ~HasLast(A)}
  <1>. SUFFICES ASSUME ~HasLast(DOMAIN order) PROVE FALSE
    OBVIOUS
  <1>0. T \in SUBSET (SUBSET DOMAIN order) /\ T # {} OBVIOUS
  <1>1. PICK A \in T : \A B \in T : B \subseteq A => B = A
    <2>. HIDE DEF T
    <2>. QED BY <1>0, SmallestSubset
  <1>2. PICK x \in A : TRUE BY <1>1
  <1>3. A \ {x} \notin T BY <1>1, <1>2
  <1>4. CASE A = {x} BY <1>1, <1>4
  <1>5. CASE HasLast(A \ {x})
    <2>1. PICK m \in A \ {x} : \A i \in A \ {x} : order[i] <= order[m] BY <1>5
    <2>2. CASE order[x] <= order[m] BY <1>1, <1>2, <2>1, <2>2
    <2>3. CASE order[m] <= order[x] BY <1>1, <1>2, <2>1, <2>3
    <2>. QED BY <1>1, <1>2, <2>1, <2>2, <2>3
  <1>. QED BY <1>1, <1>3, <1>4, <1>5

---------------------------------------------------------------------------
\* Types: the conversation

TalkType ==
  talk \in [at : AdminStates, item : Ids \cup People \cup {None, Shahrah, Marzban},
            code : Ids \cup {None}, newAgent : People \cup {None}, draft : BOOLEAN,
            pick : (Ids \X Scopes) \cup {NoPick}]

LateType ==
  /\ late \subseteq [to : AdminStates \ {"none"}, code : Ids \cup {None}]
  /\ IsFiniteSet(late) /\ Cardinality(late) <= MaxLate /\ clearing \in 0..MaxLate

HistoryType == asked \in Ids \cup {None} /\ astray \in BOOLEAN /\ torn \in BOOLEAN

TalkOK == TalkType /\ LateType /\ HistoryType

\* Types: the rows; the ids handed out are those below the next one.
Numbered ==
  /\ born \in 0..MaxBorn
  /\ codes \cup DOMAIN cats \cup DOMAIN plans \cup DOMAIN guides \cup DOMAIN panels \subseteq 1..born

RowsOK ==
  /\ Numbered
  /\ open \subseteq AdminStates /\ agents \subseteq People \cup {None}
  /\ picks \in 0..MaxPicks /\ cut \subseteq Ids

LEMMA NumberedIds ==
  ASSUME Numbered
  PROVE  codes \cup DOMAIN cats \cup DOMAIN plans \cup DOMAIN guides \cup DOMAIN panels \subseteq Ids
  BY DeskAssumption DEF Numbered, Ids, DeskAssumption

LEMMA MaxLateNat == MaxLate \in Nat
  BY DeskAssumption DEF DeskAssumption

LEMMA StatesOfDesk ==
  /\ CodeFields \cup CodeSteps \cup PlanFields \cup PlanSteps \cup GuideSteps \cup PanelSteps
       \subseteq AdminStates \ {"none"}
  /\ {"agentId", "agentPercent", "agentEdit", "catName", "catDesc", "panelEdit"}
       \subseteq AdminStates \ {"none"}
  BY DEF AdminStates, CodeFields, CodeSteps, PlanFields, PlanSteps, GuideSteps, PanelSteps

LEMMA BlankTyped ==
  Blank \in [at : AdminStates, item : Ids \cup People \cup {None, Shahrah, Marzban},
             code : Ids \cup {None}, newAgent : People \cup {None}, draft : BOOLEAN,
             pick : (Ids \X Scopes) \cup {NoPick}]
  BY DEF Blank, AdminStates

LEMMA LaterTyped ==
  ASSUME LateType, NEW to \in AdminStates \ {"none"}, NEW code \in Ids \cup {None},
         Later(to, code), clearing' = clearing
  PROVE  LateType'
  <1>. DEFINE l == [to |-> to, code |-> code]
  <1>1. late' = late \cup {l} /\ Cardinality(late) < MaxLate BY DEF Later
  <1>2. l \in [to : AdminStates \ {"none"}, code : Ids \cup {None}] OBVIOUS
  <1>. HIDE DEF l
  <1>3. IsFiniteSet(late') /\ Cardinality(late') <= Cardinality(late) + 1 /\ Cardinality(late) \in Nat
    BY <1>1, FS_AddElement, FS_CardinalityType DEF LateType
  <1>4. Cardinality(late') \in Nat BY <1>3, FS_CardinalityType
  <1>. QED BY <1>1, <1>2, <1>3, <1>4, MaxLateNat DEF LateType

LEMMA FewerTyped ==
  ASSUME LateType, late' \subseteq late, clearing' \in 0..MaxLate PROVE LateType'
  <1>1. IsFiniteSet(late') /\ Cardinality(late') <= Cardinality(late)
    BY FS_Subset DEF LateType
  <1>2. Cardinality(late') \in Nat /\ Cardinality(late) \in Nat
    BY <1>1, FS_CardinalityType DEF LateType
  <1>. QED BY <1>1, <1>2, MaxLateNat DEF LateType

LEMMA ClearedTyped ==
  ASSUME TalkOK, Cleared PROVE TalkType' /\ HistoryType'
  <1>1. talk' = Blank /\ asked' = None BY DEF Cleared
  <1>2. astray' \in BOOLEAN /\ torn' \in BOOLEAN BY Zenon DEF Cleared
  <1>. QED BY <1>1, <1>2, BlankTyped DEF TalkType, HistoryType

LEMMA EndsTyped ==
  ASSUME TalkOK, Cleared, UNCHANGED <<late, clearing>> PROVE TalkOK'
  <1>1. LateType' BY DEF TalkOK, LateType
  <1>. QED BY <1>1, ClearedTyped DEF TalkOK

LEMMA SameTyped ==
  ASSUME TalkOK, UNCHANGED conversation PROVE TalkOK'
  BY DEF TalkOK, TalkType, LateType, HistoryType, conversation

LEMMA AnswerTyped == ASSUME TalkOK, AnswerThenClear PROVE TalkOK'
  <1>1. clearing' \in 0..MaxLate
    BY MaxLateNat DEF AnswerThenClear, TalkOK, LateType
  <1>2. LateType' BY <1>1, FewerTyped DEF AnswerThenClear, TalkOK
  <1>. QED BY <1>2 DEF TalkOK, TalkType, HistoryType, AnswerThenClear

LEMMA EnterTyped ==
  ASSUME TalkOK, RowsOK, NEW at, NEW item \in Ids \cup People \cup {None, Shahrah, Marzban},
         Enter(at, item)
  PROVE  TalkOK'
  <1>1. at \in AdminStates /\ talk' = [talk EXCEPT !.at = at, !.item = item]
    BY DEF Enter, RowsOK
  <1>2. TalkType' BY <1>1 DEF TalkOK, TalkType
  <1>3. LateType' BY DEF Enter, TalkOK, LateType
  <1>4. astray' \in BOOLEAN BY Zenon DEF Enter
  <1>5. HistoryType' BY <1>4 DEF Enter, TalkOK, HistoryType
  <1>. QED BY <1>2, <1>3, <1>5 DEF TalkOK

LEMMA AdvanceTyped ==
  ASSUME TalkOK, NEW from, NEW to \in AdminStates, Advance(from, to) PROVE TalkOK'
  BY DEF TalkOK, TalkType, LateType, HistoryType, Advance

LEMMA WizardTyped ==
  ASSUME TalkOK, NEW to \in AdminStates \ {"none"}, Later(to, None),
         UNCHANGED <<talk, clearing, asked, astray, torn>>
  PROVE  TalkOK'
  <1>1. LateType' BY LaterTyped DEF TalkOK
  <1>. QED BY <1>1 DEF TalkOK, TalkType, HistoryType

LEMMA EditStartTyped ==
  ASSUME TalkOK, RowsOK, NEW field \in CodeFields, EditStart(field) PROVE TalkOK'
  <1>1. PICK c \in codes :
          /\ Later(field, c)
          /\ talk' = [talk EXCEPT !.code = c]
          /\ astray' = (astray \/ \E l \in late : l.code \notin {None, c})
          /\ UNCHANGED <<clearing, asked, torn>>
    BY DEF EditStart
  <1>2. c \in Ids BY NumberedIds DEF RowsOK
  <1>3. LateType' BY <1>1, <1>2, LaterTyped, StatesOfDesk DEF TalkOK
  <1>4. TalkType' BY <1>1, <1>2 DEF TalkOK, TalkType
  <1>5. astray' \in BOOLEAN BY <1>1, Zenon
  <1>. QED BY <1>1, <1>3, <1>4, <1>5 DEF TalkOK, HistoryType

LEMMA PickTyped ==
  ASSUME TalkOK, RowsOK, NEW scope \in Scopes, OpenCatalogPicker(scope) PROVE TalkOK'
  <1>1. PICK n \in DOMAIN panels : talk' = [talk EXCEPT !.pick = <<n, scope>>]
    BY DEF OpenCatalogPicker
  <1>2. n \in Ids BY NumberedIds DEF RowsOK
  <1>3. TalkType' BY <1>1, <1>2 DEF TalkOK, TalkType
  <1>. QED BY <1>3 DEF OpenCatalogPicker, TalkOK, LateType, HistoryType

---------------------------------------------------------------------------
\* Every group of the actions keeps the types of the conversation.

LEMMA TalkTyped == ASSUME TalkOK, NextTalk PROVE TalkOK'
  <1>1. CASE SetState
    <2>1. PICK l \in late :
            /\ late' = late \ {l}
            /\ talk' = [talk EXCEPT !.at = l.to, !.item = None]
            /\ asked' = l.code
            /\ UNCHANGED <<clearing, astray, torn>>
      BY <1>1 DEF SetState
    <2>2. l.to \in AdminStates /\ l.code \in Ids \cup {None} BY DEF TalkOK, LateType
    <2>3. TalkType' BY <2>1, <2>2 DEF TalkOK, TalkType
    <2>4. LateType' BY <2>1, FewerTyped DEF TalkOK, LateType
    <2>. QED BY <2>1, <2>2, <2>3, <2>4 DEF TalkOK, HistoryType
  <1>2. CASE ClearState
    <2>1. clearing' \in 0..MaxLate BY <1>2, MaxLateNat DEF ClearState, TalkOK, LateType
    <2>2. LateType' BY <1>2, <2>1, FewerTyped DEF ClearState, TalkOK
    <2>. QED BY <1>2, <2>2, ClearedTyped DEF ClearState, TalkOK
  <1>3. CASE AnswerRaises
    <2>1. clearing' \in 0..MaxLate /\ late' \subseteq late
      BY <1>3, MaxLateNat DEF AnswerRaises, TalkOK, LateType
    <2>2. astray' = astray \/ \E l \in late : astray' = (astray \/ Strays(l))
      BY <1>3 DEF AnswerRaises
    <2>3. astray' \in BOOLEAN
      <3>1. CASE astray' = astray BY <3>1 DEF TalkOK, HistoryType
      <3>2. CASE \E l \in late : astray' = (astray \/ Strays(l)) BY <3>2, Zenon
      <3>. QED BY <2>2, <3>1, <3>2
    <2>4. LateType' BY <2>1, FewerTyped DEF TalkOK
    <2>. QED BY <1>3, <2>3, <2>4 DEF AnswerRaises, TalkOK, TalkType, HistoryType
  <1>. QED BY <1>1, <1>2, <1>3 DEF NextTalk

LEMMA CodesTyped == ASSUME TalkOK, RowsOK, NextCodes PROVE TalkOK'
  <1>1. CASE \E field \in CodeFields : EditStart(field) BY <1>1, EditStartTyped
  <1>2. ASSUME NEW field, EditSave(field) PROVE TalkOK'
    BY <1>2, EndsTyped, AnswerTyped DEF EditSave
  <1>3. CASE AdminDiscountEditPlansStart
    <2>1. PICK c \in codes :
            /\ talk' = [talk EXCEPT !.code = c]
            /\ astray' = (\/ astray
                          \/ talk.at \in CodeFields /\ asked # c
                          \/ \E l \in late : l.code \notin {None, c})
            /\ UNCHANGED <<late, clearing, asked, torn>>
      BY <1>3 DEF AdminDiscountEditPlansStart
    <2>2. c \in Ids BY NumberedIds DEF RowsOK
    <2>3. TalkType' BY <2>1, <2>2 DEF TalkOK, TalkType
    <2>4. astray' \in BOOLEAN BY <2>1, Zenon
    <2>. QED BY <2>1, <2>3, <2>4 DEF TalkOK, LateType, HistoryType
  <1>4. CASE AdminDiscountEditPlansDone BY <1>4, EndsTyped DEF AdminDiscountEditPlansDone
  <1>5. CASE AdminDiscountDeleteConfirm BY <1>5, SameTyped DEF AdminDiscountDeleteConfirm
  <1>6. CASE \/ AdminDiscountEditValueStart \/ AdminDiscountEditUsesStart
             \/ AdminDiscountEditMinorderStart \/ AdminDiscountEditMaxuserStart
             \/ AdminDiscountEditExpiryStart \/ AdminDiscountEditUsersStart
    BY <1>1, <1>6 DEF CodeFields, AdminDiscountEditValueStart, AdminDiscountEditUsesStart,
       AdminDiscountEditMinorderStart, AdminDiscountEditMaxuserStart,
       AdminDiscountEditExpiryStart, AdminDiscountEditUsersStart
  <1>7. CASE \/ AdminDiscountEditValueSave \/ AdminDiscountEditUsesSave
             \/ AdminDiscountEditMinorderSave \/ AdminDiscountEditMaxuserSave
             \/ AdminDiscountEditExpirySave \/ AdminDiscountEditUsersSave
    BY <1>2, <1>7 DEF AdminDiscountEditValueSave, AdminDiscountEditUsesSave,
       AdminDiscountEditMinorderSave, AdminDiscountEditMaxuserSave,
       AdminDiscountEditExpirySave, AdminDiscountEditUsersSave
  <1>. QED BY <1>3, <1>4, <1>5, <1>6, <1>7 DEF NextCodes, AdminDiscountDetail

LEMMA NewCodeTyped == ASSUME TalkOK, NextNewCode PROVE TalkOK'
  <1>1. CASE NewDiscountStart
    <2>1. LateType' BY <1>1, LaterTyped, StatesOfDesk DEF NewDiscountStart, TalkOK, CodeSteps
    <2>. QED BY <1>1, <2>1, ClearedTyped DEF NewDiscountStart, TalkOK
  <1>2. CASE NewDiscountCodeInput
    <2>1. TalkType' BY <1>2 DEF NewDiscountCodeInput, TalkOK, TalkType
    <2>. QED BY <1>2, <2>1 DEF NewDiscountCodeInput, TalkOK, LateType, HistoryType
  <1>3. ASSUME NEW from, NEW to \in CodeSteps, WizardStep(from, to) PROVE TalkOK'
    BY <1>3, WizardTyped, StatesOfDesk DEF WizardStep
  <1>4. CASE NewDiscountTypeChosen \/ NewDiscountPlanToggle \/ NewDiscountUsersInput
    BY <1>3, <1>4 DEF NewDiscountTypeChosen, NewDiscountPlanToggle, NewDiscountUsersInput, CodeSteps
  <1>5. CASE NewDiscountUsesInput BY <1>5, AnswerTyped DEF NewDiscountUsesInput
  <1>. QED BY <1>1, <1>2, <1>4, <1>5 DEF NextNewCode

LEMMA AgentsTyped == ASSUME TalkOK, RowsOK, NextAgents PROVE TalkOK'
  <1>1. CASE NewAgentStart BY <1>1, WizardTyped, StatesOfDesk DEF NewAgentStart
  <1>2. CASE NewAgentIdInput
    <2>1. PICK tid \in People : talk' = [talk EXCEPT !.newAgent = tid]
      BY <1>2 DEF NewAgentIdInput
    <2>2. TalkType' BY <2>1 DEF TalkOK, TalkType
    <2>3. LateType' BY <1>2, LaterTyped, StatesOfDesk DEF NewAgentIdInput, TalkOK
    <2>. QED BY <1>2, <2>2, <2>3 DEF NewAgentIdInput, TalkOK, HistoryType
  <1>3. CASE NewAgentPercentInput BY <1>3, AnswerTyped DEF NewAgentPercentInput
  <1>4. CASE DeleteAgent BY <1>4, SameTyped DEF DeleteAgent
  <1>5. CASE AdminAgentEditPercentStart
    BY <1>5, EnterTyped DEF AdminAgentEditPercentStart, RowsOK
  <1>6. CASE AdminAgentEditPercentApply
    BY <1>6, AnswerTyped DEF AdminAgentEditPercentApply, Update
  <1>. QED BY <1>1, <1>2, <1>3, <1>4, <1>5, <1>6 DEF NextAgents

LEMMA CatalogueTyped == ASSUME TalkOK, RowsOK, NextCatalogue PROVE TalkOK'
  <1>1. DOMAIN cats \subseteq Ids /\ DOMAIN plans \subseteq Ids BY NumberedIds DEF RowsOK
  <1>2. CASE AdminNewVipCategoryApply \/ AdminNewVipPlanDays
    BY <1>2, AnswerTyped DEF AdminNewVipCategoryApply, AdminNewVipPlanDays
  <1>3. CASE \/ AdminDeleteVipCategory \/ AdminMoveVipCategory
             \/ AdminDeleteVipPlan \/ AdminMoveVipPlan
    BY <1>3, SameTyped DEF AdminDeleteVipCategory, AdminMoveVipCategory, AdminDeleteVipPlan, AdminMoveVipPlan
  <1>4. CASE \/ AdminNewVipCategoryStart \/ AdminEditVipCategoryDescStart \/ AdminNewVipPlanStart
    BY <1>1, <1>4, EnterTyped
       DEF AdminNewVipCategoryStart, AdminEditVipCategoryDescStart, AdminNewVipPlanStart
  <1>5. ASSUME NEW field, PlanEditStart(field) PROVE TalkOK'
    BY <1>1, <1>5, EnterTyped DEF PlanEditStart
  <1>6. ASSUME NEW at, Update(at) PROVE TalkOK'
    BY <1>6, AnswerTyped DEF Update
  <1>7. CASE AdminNewVipPlanName \/ AdminNewVipPlanPrice \/ AdminNewVipPlanGb
    BY <1>7, AdvanceTyped, StatesOfDesk
       DEF AdminNewVipPlanName, AdminNewVipPlanPrice, AdminNewVipPlanGb, PlanSteps
  <1>8. CASE \/ AdminVipPlanEditNameStart \/ AdminVipPlanEditPriceStart
             \/ AdminVipPlanEditGbStart \/ AdminVipPlanEditDaysStart \/ AdminVipPlanEditLimitStart
    BY <1>5, <1>8 DEF AdminVipPlanEditNameStart, AdminVipPlanEditPriceStart,
       AdminVipPlanEditGbStart, AdminVipPlanEditDaysStart, AdminVipPlanEditLimitStart
  <1>9. CASE \/ AdminEditVipCategoryDescApply
             \/ AdminVipPlanEditNameApply \/ AdminVipPlanEditPriceApply
             \/ AdminVipPlanEditGbApply \/ AdminVipPlanEditDaysApply \/ AdminVipPlanEditUserLimitApply
    BY <1>6, <1>9 DEF AdminEditVipCategoryDescApply, AdminVipPlanEditNameApply,
       AdminVipPlanEditPriceApply, AdminVipPlanEditGbApply, AdminVipPlanEditDaysApply,
       AdminVipPlanEditUserLimitApply
  <1>. QED BY <1>2, <1>3, <1>4, <1>7, <1>8, <1>9 DEF NextCatalogue

LEMMA GuidesTyped == ASSUME TalkOK, RowsOK, NextGuides PROVE TalkOK'
  <1>1. DOMAIN guides \subseteq Ids BY NumberedIds DEF RowsOK
  <1>2. CASE AdminGuidesList \/ AdminGuideNewContent
    BY <1>2, EndsTyped DEF AdminGuidesList, AdminGuideNewContent
  <1>3. CASE AdminGuideMove \/ AdminGuideDeleteDo
    BY <1>3, SameTyped DEF AdminGuideMove, AdminGuideDeleteDo
  <1>4. ASSUME NEW field, GuideEditStart(field) PROVE TalkOK'
    BY <1>1, <1>4, EnterTyped DEF GuideEditStart
  <1>5. ASSUME NEW field, GuideEditSave(field) PROVE TalkOK'
    BY <1>5, EndsTyped DEF GuideEditSave
  <1>6. CASE AdminGuideNewStart BY <1>6, EnterTyped DEF AdminGuideNewStart
  <1>7. CASE AdminGuideNewTitle
    BY <1>7, AdvanceTyped, StatesOfDesk DEF AdminGuideNewTitle, GuideSteps
  <1>8. CASE AdminGuideEditNameStart \/ AdminGuideEditContentStart
    BY <1>4, <1>8 DEF AdminGuideEditNameStart, AdminGuideEditContentStart
  <1>9. CASE AdminGuideEditNameSave \/ AdminGuideEditContentSave
    BY <1>5, <1>9 DEF AdminGuideEditNameSave, AdminGuideEditContentSave
  <1>. QED BY <1>2, <1>3, <1>6, <1>7, <1>8, <1>9 DEF NextGuides

LEMMA PanelsTyped == ASSUME TalkOK, RowsOK, NextPanels PROVE TalkOK'
  <1>1. DOMAIN plans \cup DOMAIN cats \cup DOMAIN panels \subseteq Ids BY NumberedIds DEF RowsOK
  <1>2. CASE VpnPanelAddStart \/ VpnPanelEditFieldStart
    BY <1>1, <1>2, EnterTyped DEF VpnPanelAddStart, VpnPanelEditFieldStart
  <1>3. CASE VpnPanelAddName \/ VpnPanelAddBaseUrl \/ VpnPanelAddUsername
    BY <1>3, AdvanceTyped, StatesOfDesk
       DEF VpnPanelAddName, VpnPanelAddBaseUrl, VpnPanelAddUsername, PanelSteps
  <1>4. CASE VpnPanelAddApiKey \/ VpnPanelAddPassword
    BY <1>4, EndsTyped DEF VpnPanelAddApiKey, VpnPanelAddPassword, CreateVpnPanel
  <1>5. CASE VpnPanelEditFieldReceived
    BY <1>5, EndsTyped, AnswerTyped DEF VpnPanelEditFieldReceived
  <1>6. CASE VpnPanelToggle \/ VpnPanelDelete \/ VpnCatalogPickSet
    BY <1>6, SameTyped DEF VpnPanelToggle, VpnPanelDelete, VpnCatalogPickSet
  <1>7. CASE VpnMapVipPlanPick \/ VpnMapCatPick \/ VpnMapCustomBuild \/ VpnMapFreeTest
    <2>1. \E scope \in Scopes : OpenCatalogPicker(scope)
      BY <1>1, <1>7 DEF VpnMapVipPlanPick, VpnMapCatPick, VpnMapCustomBuild, VpnMapFreeTest, Scopes
    <2>. QED BY <2>1, PickTyped
  <1>8. CASE VpnMapDeletePlan \/ VpnMapDeleteCategory
    BY <1>8, SameTyped DEF VpnMapDeletePlan, VpnMapDeleteCategory, VpnMapDelete
  <1>9. CASE VpnCatalogPickCut
    <2>1. late' = {} /\ clearing' = 0 /\ UNCHANGED <<talk, asked, torn>>
      BY <1>9 DEF VpnCatalogPickCut
    <2>2. LateType' BY <2>1, FewerTyped, MaxLateNat DEF TalkOK
    <2>3. astray' \in BOOLEAN BY <1>9, Zenon DEF VpnCatalogPickCut
    <2>. QED BY <2>1, <2>2, <2>3 DEF TalkOK, TalkType, HistoryType
  <1>. QED BY <1>2, <1>3, <1>4, <1>5, <1>6, <1>7, <1>8, <1>9 DEF NextPanels

---------------------------------------------------------------------------
\* The rows: every list in order, every plan in a category, every map to a panel if the database
\* keeps its foreign keys.

Listed ==
  /\ InOrder(cats) /\ InOrder(guides)
  /\ \A p \in DOMAIN plans : plans[p] \in [cat : DOMAIN cats, sort : Nat]
  /\ \A c \in DOMAIN cats : InOrder(Orders(c))

\* A scope that is of a plan is of one that was handed out.
Known(scope) == scope[1] = "vip_plan" => scope[2] \in 1..born

Mapped ==
  /\ DOMAIN maps \subseteq Scopes /\ newer \subseteq DOMAIN maps
  /\ \A s \in DOMAIN maps : (ForeignKeys => maps[s] \in DOMAIN panels) /\ Known(s)

\* An override that is not newer than the default is there because a crash cut the default short.
Governed ==
  \A p \in DOMAIN plans :
    <<"vip_plan", p>> \in DOMAIN maps /\ <<"vip_plan", p>> \notin newer => plans[p].cat \in cut

Picked == talk.pick # NoPick => Known(talk.pick[2])

RowsInv == RowsOK /\ Listed /\ Mapped /\ Governed /\ Picked

---------------------------------------------------------------------------
\* Lists

LEMMA NumberedFinite ==
  ASSUME Numbered PROVE IsFiniteSet(DOMAIN cats) /\ IsFiniteSet(DOMAIN plans) /\ IsFiniteSet(DOMAIN guides)
  <1>1. IsFiniteSet(1..born) BY FS_Interval DEF Numbered
  <1>. QED BY <1>1, FS_Subset DEF Numbered

\* The next place of a list is a number above the others.
LEMMA NextSortLast ==
  ASSUME NEW order, InOrder(order), IsFiniteSet(DOMAIN order)
  PROVE  NextSort(order) \in Nat /\ \A i \in DOMAIN order : order[i] < NextSort(order)
  <1>1. CASE DOMAIN order = {} BY <1>1 DEF NextSort
  <1>2. CASE DOMAIN order # {}
    <2>. DEFINE next == {order[i] + 1 : i \in DOMAIN order}
                Above(n) == \A i \in DOMAIN order : order[i] < n
    <2>1. PICK m \in DOMAIN order : \A i \in DOMAIN order : order[i] <= order[m]
      BY <1>2, LastPlace DEF InOrder
    <2>2. \A i \in DOMAIN order : order[i] < order[m] + 1 BY <2>1 DEF InOrder
    <2>3. \E n \in next : Above(n) BY <2>2
    <2>4. NextSort(order) = CHOOSE n \in next : Above(n) BY <1>2 DEF NextSort
    <2>5. \A n \in next : n \in Nat BY DEF InOrder
    <2>. HIDE DEF next, Above
    <2>6. NextSort(order) \in next /\ Above(NextSort(order)) BY <2>3, <2>4
    <2>. QED BY <2>5, <2>6 DEF Above
  <1>. QED BY <1>1, <1>2

LEMMA ExtendedInOrder ==
  ASSUME NEW order, InOrder(order), IsFiniteSet(DOMAIN order), NEW x
  PROVE  InOrder(Extended(order, x, NextSort(order)))
  <1>. DEFINE n == NextSort(order)
              longer == Extended(order, x, n)
  <1>1. n \in Nat /\ \A i \in DOMAIN order : order[i] < n BY NextSortLast
  <1>. HIDE DEF n
  <1>2. DOMAIN longer = DOMAIN order \cup {x} BY DEF Extended
  <1>3. \A i \in DOMAIN longer : longer[i] = IF i = x THEN n ELSE order[i] BY DEF Extended
  <1>. HIDE DEF longer
  <1>4. \A i \in DOMAIN longer : longer[i] \in Nat BY <1>1, <1>2, <1>3 DEF InOrder
  <1>5. \A i, j \in DOMAIN longer : longer[i] = longer[j] => i = j
    BY <1>1, <1>2, <1>3 DEF InOrder, IsInjective
  <1>6. InOrder(longer) BY <1>4, <1>5 DEF InOrder, IsInjective
  <1>. QED BY <1>6 DEF longer, n

LEMMA MovedInOrder ==
  ASSUME NEW order, InOrder(order), NEW moved \in Moved(order)
  PROVE  InOrder(moved) /\ DOMAIN moved = DOMAIN order
  <1>1. PICK i \in DOMAIN order, j \in DOMAIN order :
          moved = [order EXCEPT ![i] = order[j], ![j] = order[i]]
    BY DEF Moved
  <1>2. DOMAIN moved = DOMAIN order BY <1>1
  <1>3. \A k \in DOMAIN order :
          moved[k] = IF k = j THEN order[i] ELSE IF k = i THEN order[j] ELSE order[k]
    BY <1>1
  <1>4. \A k \in DOMAIN moved : moved[k] \in Nat BY <1>2, <1>3 DEF InOrder
  <1>5. \A k, l \in DOMAIN moved : moved[k] = moved[l] => k = l
    BY <1>2, <1>3 DEF InOrder, IsInjective
  <1>. QED BY <1>2, <1>4, <1>5 DEF InOrder, IsInjective

LEMMA WithoutInOrder ==
  ASSUME NEW order, InOrder(order), NEW x
  PROVE  InOrder(Without(order, x)) /\ DOMAIN Without(order, x) = DOMAIN order \ {x}
  BY DEF InOrder, IsInjective, Without, Restrict

---------------------------------------------------------------------------
\* Every step keeps the rows sound.

PickStays == talk'.pick \in {talk.pick, NoPick}

LEMMA PickKeeps ==
  ASSUME RowsInv, PickStays, born' \in 0..MaxBorn, born <= born' PROVE Picked'
  BY DEF RowsInv, RowsOK, Numbered, PickStays, Picked, Known

LEMMA QuietKeeps == ASSUME RowsInv, PickStays, UNCHANGED rows PROVE RowsInv'
  <1>1. RowsOK' BY DEF RowsInv, RowsOK, Numbered, rows, catalogue, mapping
  <1>2. Listed' BY DEF RowsInv, Listed, Orders, PlansOf, rows, catalogue, mapping
  <1>3. Mapped' BY DEF RowsInv, Mapped, Known, rows, catalogue, mapping
  <1>4. Governed' BY DEF RowsInv, Governed, rows, catalogue, mapping
  <1>5. born' \in 0..MaxBorn /\ born <= born'
    BY DeskAssumption DEF RowsInv, RowsOK, Numbered, rows, DeskAssumption
  <1>6. Picked' BY <1>5, PickKeeps
  <1>. QED BY <1>1, <1>2, <1>3, <1>4, <1>6 DEF RowsInv

\* The maps and the plans do not change, and no panel goes.
LEMMA MapsStay ==
  ASSUME RowsInv, PickStays, born' \in 0..MaxBorn, born <= born', UNCHANGED <<maps, newer, cut>>,
         DOMAIN panels \subseteq DOMAIN panels',
         \A p \in DOMAIN plans' : p \notin 1..born \/ (p \in DOMAIN plans /\ plans'[p].cat = plans[p].cat)
  PROVE  Mapped' /\ Governed' /\ Picked'
  <1>1. Mapped' BY DEF RowsInv, RowsOK, Numbered, Mapped, Known
  <1>2. Governed' 
    <2>. SUFFICES ASSUME NEW p \in DOMAIN plans', <<"vip_plan", p>> \in DOMAIN maps,
                         <<"vip_plan", p>> \notin newer
                  PROVE  plans'[p].cat \in cut
      BY DEF Governed
    <2>1. p \in 1..born BY DEF RowsInv, Mapped, Known
    <2>. QED BY <2>1 DEF RowsInv, Governed
  <1>. QED BY <1>1, <1>2, PickKeeps

LEMMA BornRows ==
  ASSUME RowsInv, Born
  PROVE  /\ born' \in 0..MaxBorn /\ born <= born' /\ born + 1 \in 1..born' /\ born + 1 \notin 1..born
         /\ 1..born \subseteq 1..born'
  BY DeskAssumption DEF RowsInv, RowsOK, Numbered, Born, DeskAssumption

\* What the tables keep when a row of one of them is added, moved or deleted.
LEMMA CodesRows ==
  ASSUME RowsInv, PickStays, UNCHANGED <<agents, catalogue, open>>,
         (codes' \subseteq codes /\ born' = born) \/ (Born /\ codes' = codes \cup {born + 1})
  PROVE  RowsInv'
  <1>1. born' \in 0..MaxBorn /\ born <= born' /\ 1..born \subseteq 1..born' /\ codes' \subseteq 1..born'
    BY BornRows, DeskAssumption DEF RowsInv, RowsOK, Numbered, DeskAssumption
  <1>2. RowsOK' BY <1>1 DEF RowsInv, RowsOK, Numbered, catalogue, mapping
  <1>3. Listed' BY DEF RowsInv, Listed, Orders, PlansOf, catalogue
  <1>4. \A p \in DOMAIN plans' : p \in DOMAIN plans /\ plans'[p].cat = plans[p].cat
    BY DEF catalogue
  <1>5. Mapped' /\ Governed' /\ Picked'
    BY <1>1, <1>4, MapsStay DEF catalogue, mapping
  <1>. QED BY <1>2, <1>3, <1>5 DEF RowsInv

LEMMA AgentsRows ==
  ASSUME RowsInv, PickStays, agents' \subseteq People \cup {None},
         UNCHANGED <<codes, catalogue, born, open>>
  PROVE  RowsInv'
  <1>1. RowsOK' BY DEF RowsInv, RowsOK, Numbered, catalogue, mapping
  <1>2. Listed' BY DEF RowsInv, Listed, Orders, PlansOf, catalogue
  <1>3. Mapped' BY DEF RowsInv, Mapped, Known, catalogue, mapping
  <1>4. Governed' BY DEF RowsInv, Governed, catalogue, mapping
  <1>5. Picked' BY PickKeeps DEF RowsInv, RowsOK, Numbered
  <1>. QED BY <1>1, <1>2, <1>3, <1>4, <1>5 DEF RowsInv

\* The categories change, and each with plans stays.
LEMMA CatsRows ==
  ASSUME RowsInv, PickStays, UNCHANGED <<codes, agents, plans, guides, mapping, open>>,
         InOrder(cats'), \A p \in DOMAIN plans : plans[p].cat \in DOMAIN cats',
         (DOMAIN cats' \subseteq DOMAIN cats /\ born' = born)
           \/ (Born /\ DOMAIN cats' = DOMAIN cats \cup {born + 1})
  PROVE  RowsInv'
  <1>1. born' \in 0..MaxBorn /\ born <= born' /\ 1..born \subseteq 1..born' /\ DOMAIN cats' \subseteq 1..born'
    BY BornRows, DeskAssumption DEF RowsInv, RowsOK, Numbered, DeskAssumption
  <1>2. RowsOK' BY <1>1 DEF RowsInv, RowsOK, Numbered, mapping
  <1>3. Listed'
    <2>1. InOrder(guides') BY DEF RowsInv, Listed
    <2>2. \A p \in DOMAIN plans : plans[p] \in [cat : DOMAIN cats', sort : Nat]
      BY DEF RowsInv, Listed
    <2>3. ASSUME NEW c \in DOMAIN cats', c \notin DOMAIN cats PROVE InOrder(Orders(c))'
      <3>1. PlansOf(c)' = {} BY <2>3 DEF RowsInv, Listed, PlansOf
      <3>2. DOMAIN Orders(c)' = {} BY <3>1 DEF Orders
      <3>. QED BY <3>2 DEF InOrder, IsInjective
    <2>4. ASSUME NEW c \in DOMAIN cats PROVE InOrder(Orders(c))'
      BY <2>4 DEF RowsInv, Listed, Orders, PlansOf
    <2>. QED BY <2>1, <2>2, <2>3, <2>4 DEF Listed
  <1>4. \A p \in DOMAIN plans' : p \in DOMAIN plans /\ plans'[p].cat = plans[p].cat OBVIOUS
  <1>5. Mapped' /\ Governed' /\ Picked' BY <1>1, <1>4, MapsStay DEF mapping
  <1>. QED BY <1>2, <1>3, <1>5 DEF RowsInv

LEMMA GuidesRows ==
  ASSUME RowsInv, PickStays, UNCHANGED <<codes, agents, cats, plans, mapping, open>>, InOrder(guides'),
         (DOMAIN guides' \subseteq DOMAIN guides /\ born' = born)
           \/ (Born /\ DOMAIN guides' = DOMAIN guides \cup {born + 1})
  PROVE  RowsInv'
  <1>1. born' \in 0..MaxBorn /\ born <= born' /\ 1..born \subseteq 1..born' /\ DOMAIN guides' \subseteq 1..born'
    BY BornRows, DeskAssumption DEF RowsInv, RowsOK, Numbered, DeskAssumption
  <1>2. RowsOK' BY <1>1 DEF RowsInv, RowsOK, Numbered, mapping
  <1>3. Listed' BY DEF RowsInv, Listed, Orders, PlansOf
  <1>4. \A p \in DOMAIN plans' : p \in DOMAIN plans /\ plans'[p].cat = plans[p].cat OBVIOUS
  <1>5. Mapped' /\ Governed' /\ Picked' BY <1>1, <1>4, MapsStay DEF mapping
  <1>. QED BY <1>2, <1>3, <1>5 DEF RowsInv

\* The plans change: each stays in its category, and every category's stay in order.
LEMMA PlansRows ==
  ASSUME RowsInv, PickStays, UNCHANGED <<codes, agents, cats, guides, mapping, open>>,
         \A p \in DOMAIN plans' : plans'[p] \in [cat : DOMAIN cats, sort : Nat],
         \A c \in DOMAIN cats : InOrder(Orders(c))',
         \A p \in DOMAIN plans \cap DOMAIN plans' : plans'[p].cat = plans[p].cat,
         (DOMAIN plans' \subseteq DOMAIN plans /\ born' = born)
           \/ (Born /\ DOMAIN plans' = DOMAIN plans \cup {born + 1})
  PROVE  RowsInv'
  <1>1. born' \in 0..MaxBorn /\ born <= born' /\ 1..born \subseteq 1..born' /\ DOMAIN plans' \subseteq 1..born'
    BY BornRows, DeskAssumption DEF RowsInv, RowsOK, Numbered, DeskAssumption
  <1>2. RowsOK' BY <1>1 DEF RowsInv, RowsOK, Numbered, mapping
  <1>3. Listed' BY DEF RowsInv, Listed
  <1>4. \A p \in DOMAIN plans' : p \notin 1..born \/ (p \in DOMAIN plans /\ plans'[p].cat = plans[p].cat)
    BY BornRows
  <1>5. Mapped' /\ Governed' /\ Picked' BY <1>1, <1>4, MapsStay DEF mapping
  <1>. QED BY <1>2, <1>3, <1>5 DEF RowsInv

\* A panel is added or changed.
LEMMA PanelsRows ==
  ASSUME RowsInv, PickStays,
         UNCHANGED <<codes, agents, cats, plans, guides, maps, newer, cut, picks, open>>,
         (DOMAIN panels' = DOMAIN panels /\ born' = born)
           \/ (Born /\ DOMAIN panels' = DOMAIN panels \cup {born + 1})
  PROVE  RowsInv'
  <1>1. born' \in 0..MaxBorn /\ born <= born' /\ 1..born \subseteq 1..born' /\ DOMAIN panels' \subseteq 1..born'
    BY BornRows, DeskAssumption DEF RowsInv, RowsOK, Numbered, DeskAssumption
  <1>2. RowsOK' BY <1>1 DEF RowsInv, RowsOK, Numbered
  <1>3. Listed' BY DEF RowsInv, Listed, Orders, PlansOf
  <1>4. \A p \in DOMAIN plans' : p \in DOMAIN plans /\ plans'[p].cat = plans[p].cat OBVIOUS
  <1>5. Mapped' /\ Governed' /\ Picked' BY <1>1, <1>4, MapsStay
  <1>. QED BY <1>2, <1>3, <1>5 DEF RowsInv

\* The maps change, or a panel goes with its maps.
LEMMA MapsRows ==
  ASSUME RowsInv, PickStays, UNCHANGED <<codes, agents, cats, plans, guides, born, open>>,
         DOMAIN panels' \subseteq DOMAIN panels, picks' \in 0..MaxPicks, cut' \subseteq Ids,
         Mapped', Governed'
  PROVE  RowsInv'
  <1>1. RowsOK' BY DEF RowsInv, RowsOK, Numbered
  <1>2. Listed' BY DEF RowsInv, Listed, Orders, PlansOf
  <1>3. Picked' BY PickKeeps DEF RowsInv, RowsOK, Numbered
  <1>. QED BY <1>1, <1>2, <1>3 DEF RowsInv

LEMMA DeletePanelRows == 
  ASSUME RowsInv, VpnPanelDelete PROVE RowsInv'
  <1>1. PICK n \in DOMAIN panels : DeleteVpnPanel(n) BY DEF VpnPanelDelete
  <1>2. DOMAIN panels' = DOMAIN panels \ {n} BY <1>1 DEF DeleteVpnPanel, Without, Restrict
  <1>3. /\ DOMAIN maps' \subseteq DOMAIN maps
        /\ \A s \in DOMAIN maps' : maps'[s] = maps[s] /\ maps[s] # n
    BY <1>1 DEF DeleteVpnPanel, Restrict
  <1>4. newer' = newer \cap DOMAIN maps' /\ cut' = cut /\ plans' = plans /\ born' = born
    BY DEF VpnPanelDelete
  <1>5. Mapped' BY <1>2, <1>3, <1>4 DEF RowsInv, Mapped, Known
  <1>6. Governed' BY <1>3, <1>4 DEF RowsInv, Governed
  <1>7. PickStays BY DEF VpnPanelDelete, conversation, PickStays
  <1>8. cut' \subseteq Ids /\ picks' \in 0..MaxPicks BY DEF RowsInv, RowsOK, VpnPanelDelete
  <1>. QED BY <1>2, <1>5, <1>6, <1>7, <1>8, MapsRows DEF VpnPanelDelete

LEMMA DeleteMapRows ==
  ASSUME RowsInv, NEW scope, VpnMapDelete(scope) PROVE RowsInv'
  <1>1. /\ DOMAIN maps' = DOMAIN maps \ {scope} /\ \A s \in DOMAIN maps' : maps'[s] = maps[s]
    BY DEF VpnMapDelete, Without, Restrict
  <1>2. newer' = newer \ {scope} /\ UNCHANGED <<cut, plans, born, panels, talk>>
    BY DEF VpnMapDelete, conversation
  <1>3. Mapped' BY <1>1, <1>2 DEF RowsInv, Mapped, Known
  <1>4. Governed' BY <1>1, <1>2 DEF RowsInv, Governed
  <1>5. PickStays BY <1>2 DEF PickStays
  <1>6. cut' \subseteq Ids /\ picks' \in 0..MaxPicks BY DEF RowsInv, RowsOK, VpnMapDelete
  <1>. QED BY <1>2, <1>3, <1>4, <1>5, <1>6, MapsRows DEF VpnMapDelete

\* A scope in the data is chosen a panel.
LEMMA ChosenRows ==
  ASSUME RowsInv, NEW n \in Ids, NEW scope \in Scopes, SetPanelPlanMap(scope, n)
  PROVE  Known(scope) /\ picks' \in 0..MaxPicks /\ (ForeignKeys => n \in DOMAIN panels)
  <1>1. talk.pick = <<n, scope>> /\ (ForeignKeys => n \in DOMAIN panels) BY DEF SetPanelPlanMap
  <1>2. n # None BY DeskAssumption DEF DeskAssumption
  <1>3. talk.pick # NoPick /\ talk.pick[2] = scope BY <1>1, <1>2 DEF NoPick
  <1>4. Known(scope) BY <1>3 DEF RowsInv, Picked
  <1>5. picks' \in 0..MaxPicks
    BY DeskAssumption DEF RowsInv, RowsOK, SetPanelPlanMap, DeskAssumption
  <1>. QED BY <1>1, <1>4, <1>5

\* The default of a category, whole or cut short.
LEMMA DefaultRows ==
  ASSUME RowsInv, PickStays, NEW n \in Ids, NEW scope \in Scopes, SetPanelPlanMap(scope, n),
         scope[1] = "vip_category", UNCHANGED <<codes, agents, cats, plans, guides, panels, born, open>>,
         newer' = newer \ Overrides(scope[2]),
         \/ maps' = WithDefault(scope, n) /\ cut' = cut \ {scope[2]}
         \/ maps' = Extended(maps, scope, n) /\ cut' = cut \cup {scope[2]}
  PROVE  RowsInv'
  <1>. DEFINE set == Extended(maps, scope, n)
  <1>1. Known(scope) /\ picks' \in 0..MaxPicks /\ (ForeignKeys => n \in DOMAIN panels)
    BY ChosenRows
  <1>2. /\ DOMAIN set = DOMAIN maps \cup {scope}
        /\ \A s \in DOMAIN set : set[s] = IF s = scope THEN n ELSE maps[s]
    BY DEF Extended
  <1>. HIDE DEF set
  <1>3. scope[2] \in Ids BY DEF Scopes
  <1>4. cut' \subseteq Ids BY <1>3 DEF RowsInv, RowsOK
  <1>5. scope \notin Overrides(scope[2]) BY DEF Overrides
  <1>6. /\ DOMAIN maps' \subseteq DOMAIN set /\ DOMAIN set \ Overrides(scope[2]) \subseteq DOMAIN maps'
        /\ \A s \in DOMAIN maps' : maps'[s] = set[s]
    BY DEF set, WithDefault, Restrict
  <1>7. Mapped' BY <1>1, <1>2, <1>6 DEF RowsInv, Mapped, Known
  <1>8. Governed'
    <2>. SUFFICES ASSUME NEW p \in DOMAIN plans, <<"vip_plan", p>> \in DOMAIN maps',
                         <<"vip_plan", p>> \notin newer'
                  PROVE  plans[p].cat \in cut'
      BY DEF Governed
    <2>1. CASE p \in PlansOf(scope[2])
      <3>1. plans[p].cat = scope[2] BY <2>1 DEF PlansOf
      <3>2. <<"vip_plan", p>> \in Overrides(scope[2]) BY <2>1 DEF Overrides
      <3>3. maps' # WithDefault(scope, n) BY <3>2 DEF WithDefault, Restrict
      <3>. QED BY <3>1, <3>3
    <2>2. CASE p \notin PlansOf(scope[2])
      <3>1. plans[p].cat # scope[2] BY <2>2 DEF PlansOf
      <3>2. <<"vip_plan", p>> # scope OBVIOUS
      <3>3. <<"vip_plan", p>> \notin Overrides(scope[2]) BY <2>2 DEF Overrides
      <3>4. <<"vip_plan", p>> \in DOMAIN maps /\ <<"vip_plan", p>> \notin newer
        BY <1>2, <1>6, <3>2, <3>3
      <3>. QED BY <3>1, <3>4 DEF RowsInv, Governed
    <2>. QED BY <2>1, <2>2
  <1>. QED BY <1>1, <1>4, <1>7, <1>8, MapsRows

LEMMA PickSetRows == ASSUME RowsInv, VpnCatalogPickSet PROVE RowsInv'
  <1>1. PICK n \in Ids, scope \in Scopes :
          /\ SetPanelPlanMap(scope, n)
          /\ IF scope[1] = "vip_category"
             THEN /\ maps' = WithDefault(scope, n)
                  /\ newer' = newer \ Overrides(scope[2]) /\ cut' = cut \ {scope[2]}
             ELSE /\ maps' = Extended(maps, scope, n)
                  /\ newer' = newer \cup {scope} /\ UNCHANGED cut
    BY DEF VpnCatalogPickSet
  <1>2. UNCHANGED <<codes, agents, cats, plans, guides, panels, born, open>> /\ PickStays
    BY DEF VpnCatalogPickSet, conversation, PickStays
  <1>3. CASE scope[1] = "vip_category" BY <1>1, <1>2, <1>3, DefaultRows
  <1>4. CASE scope[1] # "vip_category"
    <2>1. Known(scope) /\ picks' \in 0..MaxPicks /\ (ForeignKeys => n \in DOMAIN panels)
      BY <1>1, ChosenRows
    <2>2. /\ DOMAIN maps' = DOMAIN maps \cup {scope}
          /\ \A s \in DOMAIN maps' : maps'[s] = IF s = scope THEN n ELSE maps[s]
      BY <1>1, <1>4 DEF Extended
    <2>3. newer' = newer \cup {scope} /\ cut' = cut BY <1>1, <1>4
    <2>4. Mapped' BY <1>2, <2>1, <2>2, <2>3 DEF RowsInv, Mapped, Known
    <2>5. Governed' BY <1>2, <2>2, <2>3 DEF RowsInv, Governed
    <2>6. cut' \subseteq Ids BY <2>3 DEF RowsInv, RowsOK
    <2>. QED BY <1>2, <2>1, <2>4, <2>5, <2>6, MapsRows
  <1>. QED BY <1>3, <1>4

LEMMA PickCutRows == ASSUME RowsInv, VpnCatalogPickCut PROVE RowsInv'
  <1>1. PICK n \in Ids, scope \in Scopes :
          /\ SetPanelPlanMap(scope, n) /\ scope[1] = "vip_category"
          /\ maps' = Extended(maps, scope, n)
          /\ newer' = newer \ Overrides(scope[2]) /\ cut' = cut \cup {scope[2]}
    BY DEF VpnCatalogPickCut
  <1>2. UNCHANGED <<codes, agents, cats, plans, guides, panels, born, open>> /\ PickStays
    BY DEF VpnCatalogPickCut, PickStays
  <1>. QED BY <1>1, <1>2, DefaultRows

---------------------------------------------------------------------------
\* Every group of the actions keeps the rows sound.

LEMMA AnswerPick == ASSUME AnswerThenClear PROVE PickStays
  BY DEF AnswerThenClear, PickStays

LEMMA ClearedPick == ASSUME Cleared PROVE PickStays
  BY DEF Cleared, Blank, PickStays

LEMMA SamePick == ASSUME UNCHANGED talk PROVE PickStays
  BY DEF PickStays

\* The start of a conversation, or a step of it that writes no row.
LEMMA EnterRows == ASSUME TalkOK, RowsInv, NEW at, NEW item, Enter(at, item) PROVE RowsInv'
  <1>1. PickStays BY DEF Enter, TalkOK, TalkType, PickStays
  <1>. QED BY <1>1, QuietKeeps DEF Enter

LEMMA AdvanceRows == ASSUME TalkOK, RowsInv, NEW from, NEW to, Advance(from, to) PROVE RowsInv'
  <1>1. PickStays BY DEF Advance, TalkOK, TalkType, PickStays
  <1>. QED BY <1>1, QuietKeeps DEF Advance

LEMMA UpdateRows == ASSUME RowsInv, NEW at, Update(at) PROVE RowsInv'
  BY AnswerPick, QuietKeeps DEF Update

LEMMA TalkRows == ASSUME TalkOK, RowsInv, NextTalk PROVE RowsInv'
  <1>1. UNCHANGED rows BY DEF NextTalk, SetState, ClearState, AnswerRaises
  <1>2. ASSUME SetState PROVE PickStays BY <1>2 DEF SetState, TalkOK, TalkType, PickStays
  <1>3. ASSUME ClearState PROVE PickStays BY <1>3, ClearedPick DEF ClearState
  <1>4. ASSUME AnswerRaises PROVE PickStays BY <1>4, SamePick DEF AnswerRaises
  <1>. QED BY <1>1, <1>2, <1>3, <1>4, QuietKeeps DEF NextTalk

LEMMA CodesNextRows == ASSUME TalkOK, RowsInv, NextCodes PROVE RowsInv'
  <1>1. ASSUME NEW field, EditStart(field) PROVE RowsInv'
    <2>1. PickStays BY <1>1 DEF EditStart, TalkOK, TalkType, PickStays
    <2>. QED BY <1>1, <2>1, QuietKeeps DEF EditStart
  <1>2. ASSUME NEW field, EditSave(field) PROVE RowsInv'
    BY <1>2, AnswerPick, ClearedPick, QuietKeeps DEF EditSave
  <1>3. CASE AdminDiscountEditPlansStart
    <2>1. PickStays BY <1>3 DEF AdminDiscountEditPlansStart, TalkOK, TalkType, PickStays
    <2>. QED BY <1>3, <2>1, QuietKeeps DEF AdminDiscountEditPlansStart
  <1>4. CASE AdminDiscountEditPlansDone BY <1>4, ClearedPick, QuietKeeps DEF AdminDiscountEditPlansDone
  <1>5. CASE AdminDiscountDeleteConfirm
    <2>1. codes' \subseteq codes /\ born' = born /\ UNCHANGED <<talk, agents, catalogue, open>>
      BY <1>5 DEF AdminDiscountDeleteConfirm, DeleteDiscountById, conversation
    <2>. QED BY <2>1, SamePick, CodesRows
  <1>6. CASE \/ AdminDiscountEditValueStart \/ AdminDiscountEditUsesStart
             \/ AdminDiscountEditMinorderStart \/ AdminDiscountEditMaxuserStart
             \/ AdminDiscountEditExpiryStart \/ AdminDiscountEditUsersStart
    BY <1>1, <1>6 DEF AdminDiscountEditValueStart, AdminDiscountEditUsesStart,
       AdminDiscountEditMinorderStart, AdminDiscountEditMaxuserStart,
       AdminDiscountEditExpiryStart, AdminDiscountEditUsersStart
  <1>7. CASE \/ AdminDiscountEditValueSave \/ AdminDiscountEditUsesSave
             \/ AdminDiscountEditMinorderSave \/ AdminDiscountEditMaxuserSave
             \/ AdminDiscountEditExpirySave \/ AdminDiscountEditUsersSave
    BY <1>2, <1>7 DEF AdminDiscountEditValueSave, AdminDiscountEditUsesSave,
       AdminDiscountEditMinorderSave, AdminDiscountEditMaxuserSave,
       AdminDiscountEditExpirySave, AdminDiscountEditUsersSave
  <1>. QED BY <1>3, <1>4, <1>5, <1>6, <1>7 DEF NextCodes, AdminDiscountDetail

LEMMA NewCodeRows == ASSUME TalkOK, RowsInv, NextNewCode PROVE RowsInv'
  <1>1. CASE NewDiscountStart BY <1>1, ClearedPick, QuietKeeps DEF NewDiscountStart
  <1>2. CASE NewDiscountCodeInput
    <2>1. PickStays BY <1>2 DEF NewDiscountCodeInput, TalkOK, TalkType, PickStays
    <2>. QED BY <1>2, <2>1, QuietKeeps DEF NewDiscountCodeInput
  <1>3. CASE NewDiscountTypeChosen \/ NewDiscountPlanToggle \/ NewDiscountUsersInput
    BY <1>3, SamePick, QuietKeeps
       DEF NewDiscountTypeChosen, NewDiscountPlanToggle, NewDiscountUsersInput, WizardStep
  <1>4. CASE NewDiscountUsesInput
    <2>1. UNCHANGED <<codes, born>> \/ (Born /\ codes' = codes \cup {born + 1})
      BY <1>4 DEF NewDiscountUsesInput, CreateDiscount
    <2>2. PickStays /\ UNCHANGED <<agents, catalogue, open>>
      BY <1>4, AnswerPick DEF NewDiscountUsesInput
    <2>. QED BY <2>1, <2>2, CodesRows
  <1>. QED BY <1>1, <1>2, <1>3, <1>4 DEF NextNewCode

LEMMA AgentsNextRows == ASSUME TalkOK, RowsInv, NextAgents PROVE RowsInv'
  <1>1. CASE NewAgentStart BY <1>1, SamePick, QuietKeeps DEF NewAgentStart
  <1>2. CASE NewAgentIdInput
    <2>1. PickStays BY <1>2 DEF NewAgentIdInput, TalkOK, TalkType, PickStays
    <2>. QED BY <1>2, <2>1, QuietKeeps DEF NewAgentIdInput
  <1>3. CASE NewAgentPercentInput
    <2>1. talk.newAgent \in People \cup {None} BY DEF TalkOK, TalkType
    <2>2. agents' \subseteq People \cup {None}
      BY <1>3, <2>1 DEF NewAgentPercentInput, AddAgent, RowsInv, RowsOK
    <2>3. PickStays /\ UNCHANGED <<codes, catalogue, born, open>>
      BY <1>3, AnswerPick DEF NewAgentPercentInput
    <2>. QED BY <2>2, <2>3, AgentsRows
  <1>4. CASE DeleteAgent
    <2>1. agents' \subseteq People \cup {None} BY <1>4 DEF DeleteAgent, RemoveAgent, RowsInv, RowsOK
    <2>2. UNCHANGED <<talk, codes, catalogue, born, open>> BY <1>4 DEF DeleteAgent, conversation
    <2>. QED BY <2>1, <2>2, SamePick, AgentsRows
  <1>5. CASE AdminAgentEditPercentStart BY <1>5, EnterRows DEF AdminAgentEditPercentStart
  <1>6. CASE AdminAgentEditPercentApply BY <1>6, UpdateRows DEF AdminAgentEditPercentApply
  <1>. QED BY <1>1, <1>2, <1>3, <1>4, <1>5, <1>6 DEF NextAgents

\* A list with one more row, with one moved or without one.
LEMMA NewCategoryRows == ASSUME RowsInv, AdminNewVipCategoryApply PROVE RowsInv'
  <1>1. Born /\ cats' = Extended(cats, born + 1, NextSort(cats))
    BY DEF AdminNewVipCategoryApply, CreateVipCategory
  <1>2. InOrder(cats')
    BY <1>1, ExtendedInOrder, NumberedFinite DEF RowsInv, RowsOK, Listed
  <1>3. DOMAIN cats' = DOMAIN cats \cup {born + 1} BY <1>1 DEF Extended
  <1>4. \A p \in DOMAIN plans : plans[p].cat \in DOMAIN cats' BY <1>3 DEF RowsInv, Listed
  <1>5. PickStays /\ UNCHANGED <<codes, agents, plans, guides, mapping, open>>
    BY AnswerPick DEF AdminNewVipCategoryApply
  <1>. QED BY <1>1, <1>2, <1>3, <1>4, <1>5, CatsRows

LEMMA DeleteCategoryRows == ASSUME RowsInv, AdminDeleteVipCategory PROVE RowsInv'
  <1>1. PICK c \in DOMAIN cats : PlansOf(c) = {} /\ cats' = Without(cats, c)
    BY DEF AdminDeleteVipCategory, DeleteVipCategory
  <1>2. InOrder(cats') /\ DOMAIN cats' = DOMAIN cats \ {c} BY <1>1, WithoutInOrder DEF RowsInv, Listed
  <1>3. \A p \in DOMAIN plans : plans[p].cat \in DOMAIN cats'
    BY <1>1, <1>2 DEF RowsInv, Listed, PlansOf
  <1>4. UNCHANGED <<talk, codes, agents, plans, guides, mapping, born, open>>
    BY DEF AdminDeleteVipCategory, conversation
  <1>. QED BY <1>2, <1>3, <1>4, SamePick, CatsRows

LEMMA MoveCategoryRows == ASSUME RowsInv, AdminMoveVipCategory PROVE RowsInv'
  <1>1. InOrder(cats') /\ DOMAIN cats' = DOMAIN cats
    BY MovedInOrder DEF AdminMoveVipCategory, RowsInv, Listed
  <1>2. \A p \in DOMAIN plans : plans[p].cat \in DOMAIN cats' BY <1>1 DEF RowsInv, Listed
  <1>3. UNCHANGED <<talk, codes, agents, plans, guides, mapping, born, open>>
    BY DEF AdminMoveVipCategory, conversation
  <1>. QED BY <1>1, <1>2, <1>3, SamePick, CatsRows

LEMMA AddPlanRows ==
  ASSUME RowsInv, PickStays, NEW c \in DOMAIN cats, AddVipPlan(c),
         UNCHANGED <<codes, agents, cats, guides, mapping, open>>
  PROVE  RowsInv'
  <1>. DEFINE n == NextSort(Orders(c))
  <1>1. Born /\ plans' = Extended(plans, born + 1, [cat |-> c, sort |-> n]) BY DEF AddVipPlan
  <1>2. InOrder(Orders(c)) BY DEF RowsInv, Listed
  <1>3. IsFiniteSet(DOMAIN Orders(c))
    <2>1. DOMAIN Orders(c) \subseteq DOMAIN plans BY DEF Orders, PlansOf
    <2>. QED BY <2>1, NumberedFinite, FS_Subset DEF RowsInv, RowsOK
  <1>4. n \in Nat BY <1>2, <1>3, NextSortLast
  <1>5. InOrder(Extended(Orders(c), born + 1, n)) BY <1>2, <1>3, ExtendedInOrder
  <1>. HIDE DEF n
  <1>6. born + 1 \notin DOMAIN plans BY <1>1, BornRows DEF RowsInv, RowsOK, Numbered
  <1>7. /\ DOMAIN plans' = DOMAIN plans \cup {born + 1}
        /\ plans'[born + 1] = [cat |-> c, sort |-> n]
        /\ \A p \in DOMAIN plans : plans'[p] = plans[p]
    BY <1>1, <1>6 DEF Extended
  <1>8. \A p \in DOMAIN plans' : plans'[p] \in [cat : DOMAIN cats, sort : Nat]
    BY <1>4, <1>7 DEF RowsInv, Listed
  <1>9. ASSUME NEW d \in DOMAIN cats PROVE InOrder(Orders(d))'
    <2>1. CASE d = c
      <3>1. PlansOf(c)' = PlansOf(c) \cup {born + 1} BY <1>7 DEF PlansOf
      <3>2. born + 1 \notin PlansOf(c) /\ PlansOf(c) \subseteq DOMAIN plans BY <1>6 DEF PlansOf
      <3>3. \A p \in PlansOf(c) \cup {born + 1} :
               plans'[p].sort = IF p = born + 1 THEN n ELSE Orders(c)[p]
        BY <1>7, <3>2 DEF Orders
      <3>4. Orders(c)' = Extended(Orders(c), born + 1, n)
        BY <3>1, <3>3 DEF Orders, Extended
      <3>. QED BY <1>5, <2>1, <3>4
    <2>2. CASE d # c
      <3>1. PlansOf(d)' = PlansOf(d) /\ PlansOf(d) \subseteq DOMAIN plans BY <1>7, <2>2 DEF PlansOf
      <3>2. Orders(d)' = Orders(d) BY <1>7, <3>1 DEF Orders
      <3>. QED BY <3>2 DEF RowsInv, Listed
    <2>. QED BY <2>1, <2>2
  <1>10. \A p \in DOMAIN plans \cap DOMAIN plans' : plans'[p].cat = plans[p].cat BY <1>7
  <1>. QED BY <1>1, <1>7, <1>8, <1>9, <1>10, PlansRows

LEMMA DeletePlanRows == ASSUME RowsInv, AdminDeleteVipPlan PROVE RowsInv'
  <1>1. PICK q \in DOMAIN plans : plans' = Without(plans, q)
    BY DEF AdminDeleteVipPlan, DeleteVipPlan
  <1>2. DOMAIN plans' = DOMAIN plans \ {q} /\ \A p \in DOMAIN plans' : plans'[p] = plans[p]
    BY <1>1 DEF Without, Restrict
  <1>3. UNCHANGED <<talk, codes, agents, cats, guides, mapping, born, open>>
    BY DEF AdminDeleteVipPlan, conversation
  <1>4. ASSUME NEW c \in DOMAIN cats PROVE InOrder(Orders(c))'
    <2>1. PlansOf(c)' \subseteq PlansOf(c) /\ PlansOf(c)' \subseteq DOMAIN plans' BY <1>2 DEF PlansOf
    <2>2. DOMAIN Orders(c)' \subseteq DOMAIN Orders(c)
      BY <2>1 DEF Orders
    <2>3. \A p \in DOMAIN Orders(c)' : (Orders(c)')[p] = Orders(c)[p]
      BY <1>2, <2>1 DEF Orders
    <2>4. InOrder(Orders(c)) BY DEF RowsInv, Listed
    <2>. QED BY <2>2, <2>3, <2>4 DEF InOrder, IsInjective
  <1>5. \A p \in DOMAIN plans' : plans'[p] \in [cat : DOMAIN cats, sort : Nat]
    BY <1>2 DEF RowsInv, Listed
  <1>. QED BY <1>2, <1>3, <1>4, <1>5, SamePick, PlansRows

LEMMA MovePlanRows == ASSUME RowsInv, AdminMoveVipPlan PROVE RowsInv'
  <1>0. PICK c \in DOMAIN cats : \E order \in Moved(Orders(c)) :
          plans' = [p \in DOMAIN plans |->
                      IF p \in DOMAIN order THEN [plans[p] EXCEPT !.sort = order[p]] ELSE plans[p]]
    BY DEF AdminMoveVipPlan
  <1>1. PICK order \in Moved(Orders(c)) :
          plans' = [p \in DOMAIN plans |->
                      IF p \in DOMAIN order THEN [plans[p] EXCEPT !.sort = order[p]] ELSE plans[p]]
    BY <1>0
  <1>2. InOrder(order) /\ DOMAIN order = PlansOf(c)
    BY MovedInOrder DEF RowsInv, Listed, Orders
  <1>3. \A p \in DOMAIN plans : plans[p] \in [cat : DOMAIN cats, sort : Nat] BY DEF RowsInv, Listed
  <1>4. \A p \in PlansOf(c) : order[p] \in Nat BY <1>2 DEF InOrder
  <1>5. DOMAIN plans' = DOMAIN plans /\ \A p \in DOMAIN plans \ PlansOf(c) : plans'[p] = plans[p]
    BY <1>1, <1>2 DEF PlansOf
  <1>6. ASSUME NEW p \in PlansOf(c)
        PROVE  plans'[p] \in [cat : DOMAIN cats, sort : Nat] /\ plans'[p].cat = plans[p].cat
                 /\ plans'[p].sort = order[p]
    <2>1. p \in DOMAIN plans /\ plans'[p] = [plans[p] EXCEPT !.sort = order[p]]
      BY <1>1, <1>2 DEF PlansOf
    <2>. QED BY <1>3, <1>4, <2>1
  <1>7. ASSUME NEW d \in DOMAIN cats PROVE InOrder(Orders(d))'
    <2>1. PlansOf(d)' = PlansOf(d) /\ PlansOf(d) \subseteq DOMAIN plans BY <1>5, <1>6 DEF PlansOf
    <2>2. CASE d = c
      <3>1. \A p \in PlansOf(c) : plans'[p].sort = order[p] BY <1>6
      <3>2. Orders(c)' = [p \in PlansOf(c) |-> order[p]] BY <2>1, <2>2, <3>1 DEF Orders
      <3>. QED BY <1>2, <2>2, <3>2 DEF InOrder, IsInjective
    <2>3. CASE d # c
      <3>1. PlansOf(d) \cap PlansOf(c) = {} BY <2>3 DEF PlansOf
      <3>2. Orders(d)' = Orders(d) BY <1>5, <2>1, <3>1 DEF Orders
      <3>. QED BY <3>2 DEF RowsInv, Listed
    <2>. QED BY <2>2, <2>3
  <1>8. UNCHANGED <<talk, codes, agents, cats, guides, mapping, born, open>>
    BY DEF AdminMoveVipPlan, conversation
  <1>9. \A p \in DOMAIN plans : plans'[p] \in [cat : DOMAIN cats, sort : Nat] /\ plans'[p].cat = plans[p].cat
    BY <1>3, <1>5, <1>6
  <1>. QED BY <1>5, <1>7, <1>8, <1>9, SamePick, PlansRows

LEMMA NewPlanRows == ASSUME RowsInv, AdminNewVipPlanDays PROVE RowsInv'
  <1>1. PickStays /\ UNCHANGED <<codes, agents, cats, guides, mapping, open>>
    BY AnswerPick DEF AdminNewVipPlanDays
  <1>2. CASE UNCHANGED <<plans, born>> BY <1>1, <1>2, QuietKeeps DEF rows, catalogue
  <1>3. CASE talk.item \in DOMAIN cats /\ AddVipPlan(talk.item) BY <1>1, <1>3, AddPlanRows
  <1>. QED BY <1>2, <1>3 DEF AdminNewVipPlanDays

LEMMA CatalogueRows == ASSUME TalkOK, RowsInv, NextCatalogue PROVE RowsInv'
  <1>1. CASE \/ AdminNewVipCategoryStart \/ AdminEditVipCategoryDescStart \/ AdminNewVipPlanStart
    BY <1>1, EnterRows
       DEF AdminNewVipCategoryStart, AdminEditVipCategoryDescStart, AdminNewVipPlanStart
  <1>2. CASE AdminNewVipPlanName \/ AdminNewVipPlanPrice \/ AdminNewVipPlanGb
    BY <1>2, AdvanceRows DEF AdminNewVipPlanName, AdminNewVipPlanPrice, AdminNewVipPlanGb
  <1>3. CASE \/ AdminVipPlanEditNameStart \/ AdminVipPlanEditPriceStart
             \/ AdminVipPlanEditGbStart \/ AdminVipPlanEditDaysStart \/ AdminVipPlanEditLimitStart
    BY <1>3, EnterRows DEF AdminVipPlanEditNameStart, AdminVipPlanEditPriceStart,
       AdminVipPlanEditGbStart, AdminVipPlanEditDaysStart, AdminVipPlanEditLimitStart, PlanEditStart
  <1>4. CASE \/ AdminEditVipCategoryDescApply
             \/ AdminVipPlanEditNameApply \/ AdminVipPlanEditPriceApply
             \/ AdminVipPlanEditGbApply \/ AdminVipPlanEditDaysApply \/ AdminVipPlanEditUserLimitApply
    BY <1>4, UpdateRows DEF AdminEditVipCategoryDescApply, AdminVipPlanEditNameApply,
       AdminVipPlanEditPriceApply, AdminVipPlanEditGbApply, AdminVipPlanEditDaysApply,
       AdminVipPlanEditUserLimitApply
  <1>. QED BY <1>1, <1>2, <1>3, <1>4, NewCategoryRows, DeleteCategoryRows, MoveCategoryRows,
              NewPlanRows, DeletePlanRows, MovePlanRows DEF NextCatalogue

LEMMA GuidesNextRows == ASSUME TalkOK, RowsInv, NextGuides PROVE RowsInv'
  <1>1. CASE AdminGuidesList BY <1>1, ClearedPick, QuietKeeps DEF AdminGuidesList
  <1>2. CASE AdminGuideNewContent
    <2>1. Born /\ guides' = Extended(guides, born + 1, NextSort(guides))
      BY <1>2 DEF AdminGuideNewContent, CreateGuide
    <2>2. InOrder(guides') BY <2>1, ExtendedInOrder, NumberedFinite DEF RowsInv, RowsOK, Listed
    <2>3. DOMAIN guides' = DOMAIN guides \cup {born + 1} BY <2>1 DEF Extended
    <2>4. PickStays /\ UNCHANGED <<codes, agents, cats, plans, mapping, open>>
      BY <1>2, ClearedPick DEF AdminGuideNewContent
    <2>. QED BY <2>1, <2>2, <2>3, <2>4, GuidesRows
  <1>3. CASE AdminGuideMove
    <2>1. InOrder(guides') /\ DOMAIN guides' = DOMAIN guides
      BY <1>3, MovedInOrder DEF AdminGuideMove, MoveGuide, RowsInv, Listed
    <2>. QED BY <1>3, <2>1, SamePick, GuidesRows DEF AdminGuideMove, conversation
  <1>4. CASE AdminGuideDeleteDo
    <2>1. PICK g \in DOMAIN guides : guides' = Without(guides, g)
      BY <1>4 DEF AdminGuideDeleteDo, DeleteGuide
    <2>2. InOrder(guides') /\ DOMAIN guides' = DOMAIN guides \ {g}
      BY <2>1, WithoutInOrder DEF RowsInv, Listed
    <2>. QED BY <1>4, <2>2, SamePick, GuidesRows DEF AdminGuideDeleteDo, conversation
  <1>5. CASE AdminGuideNewStart \/ AdminGuideEditNameStart \/ AdminGuideEditContentStart
    BY <1>5, EnterRows
       DEF AdminGuideNewStart, AdminGuideEditNameStart, AdminGuideEditContentStart, GuideEditStart
  <1>6. CASE AdminGuideNewTitle BY <1>6, AdvanceRows DEF AdminGuideNewTitle
  <1>7. CASE AdminGuideEditNameSave \/ AdminGuideEditContentSave
    BY <1>7, ClearedPick, QuietKeeps
       DEF AdminGuideEditNameSave, AdminGuideEditContentSave, GuideEditSave
  <1>. QED BY <1>1, <1>2, <1>3, <1>4, <1>5, <1>6, <1>7 DEF NextGuides

LEMMA PickRows ==
  ASSUME TalkOK, RowsInv, NEW scope, Known(scope), OpenCatalogPicker(scope) PROVE RowsInv'
  <1>1. PICK n \in DOMAIN panels : talk' = [talk EXCEPT !.pick = <<n, scope>>]
    BY DEF OpenCatalogPicker
  <1>2. UNCHANGED rows /\ born' = born BY DEF OpenCatalogPicker, rows
  <1>3. talk'.pick = <<n, scope>> BY <1>1 DEF TalkOK, TalkType
  <1>4. Picked' BY <1>2, <1>3 DEF Picked, Known
  <1>5. RowsOK' BY <1>2 DEF RowsInv, RowsOK, Numbered, rows, catalogue, mapping
  <1>6. Listed' BY <1>2 DEF RowsInv, Listed, Orders, PlansOf, rows, catalogue, mapping
  <1>7. Mapped' BY <1>2 DEF RowsInv, Mapped, Known, rows, catalogue, mapping
  <1>8. Governed' BY <1>2 DEF RowsInv, Governed, rows, catalogue, mapping
  <1>. QED BY <1>4, <1>5, <1>6, <1>7, <1>8 DEF RowsInv

LEMMA PanelsNextRows == ASSUME TalkOK, RowsInv, NextPanels PROVE RowsInv'
  <1>1. CASE VpnPanelAddStart \/ VpnPanelEditFieldStart
    BY <1>1, EnterRows DEF VpnPanelAddStart, VpnPanelEditFieldStart
  <1>2. CASE VpnPanelAddName \/ VpnPanelAddBaseUrl \/ VpnPanelAddUsername
    BY <1>2, AdvanceRows DEF VpnPanelAddName, VpnPanelAddBaseUrl, VpnPanelAddUsername
  <1>3. ASSUME NEW at, CreateVpnPanel(at) PROVE RowsInv'
    <2>1. Born /\ DOMAIN panels' = DOMAIN panels \cup {born + 1}
      BY <1>3 DEF CreateVpnPanel, Extended
    <2>2. PickStays BY <1>3, ClearedPick DEF CreateVpnPanel
    <2>. QED BY <1>3, <2>1, <2>2, PanelsRows DEF CreateVpnPanel
  <1>4. CASE VpnPanelAddApiKey \/ VpnPanelAddPassword
    BY <1>3, <1>4 DEF VpnPanelAddApiKey, VpnPanelAddPassword
  <1>5. CASE VpnPanelEditFieldReceived
    BY <1>5, ClearedPick, AnswerPick, QuietKeeps DEF VpnPanelEditFieldReceived
  <1>6. CASE VpnPanelToggle
    <2>1. DOMAIN panels' = DOMAIN panels BY <1>6 DEF VpnPanelToggle, UpdateVpnPanel
    <2>. QED BY <1>6, <2>1, SamePick, PanelsRows DEF VpnPanelToggle, conversation
  <1>7. CASE VpnMapVipPlanPick \/ VpnMapCatPick \/ VpnMapCustomBuild \/ VpnMapFreeTest
    <2>1. DOMAIN plans \subseteq 1..born BY DEF RowsInv, RowsOK, Numbered
    <2>2. \E scope : Known(scope) /\ OpenCatalogPicker(scope)
      BY <1>7, <2>1 DEF VpnMapVipPlanPick, VpnMapCatPick, VpnMapCustomBuild, VpnMapFreeTest, Known
    <2>. QED BY <2>2, PickRows
  <1>8. CASE VpnMapDeletePlan \/ VpnMapDeleteCategory
    BY <1>8, DeleteMapRows DEF VpnMapDeletePlan, VpnMapDeleteCategory
  <1>. QED BY <1>1, <1>2, <1>4, <1>5, <1>6, <1>7, <1>8, DeletePanelRows, PickSetRows, PickCutRows
       DEF NextPanels

---------------------------------------------------------------------------
DeskInv == TalkOK /\ RowsInv

LEMMA InitDesk == Init => DeskInv
  <1>. SUFFICES ASSUME Init PROVE DeskInv
    OBVIOUS
  <1>1. PICK shop \in Shops :
          /\ codes = shop.codes /\ cats = shop.cats /\ plans = shop.plans
          /\ guides = shop.guides /\ panels = shop.panels /\ born = shop.born /\ open = shop.open
    BY DEF Init
  <1>2. Legal(shop) BY DeskAssumption DEF DeskAssumption
  <1>3. agents = {} /\ maps = <<>> /\ talk = Blank /\ late = {} /\ clearing = 0 /\ asked = None
         /\ astray = FALSE /\ torn = FALSE /\ newer = {} /\ cut = {} /\ picks = 0
    BY DEF Init
  <1>4. TalkType /\ HistoryType BY <1>3, BlankTyped DEF TalkType, HistoryType
  <1>5. LateType BY <1>3, MaxLateNat, FS_EmptySet DEF LateType
  <1>6. RowsOK BY <1>1, <1>2, <1>3, DeskAssumption DEF Legal, RowsOK, Numbered, DeskAssumption
  <1>7. Listed BY <1>1, <1>2 DEF Legal, Listed, Orders, PlansOf
  <1>8. DOMAIN maps = {} BY <1>3
  <1>9. Mapped /\ Governed BY <1>3, <1>8 DEF Mapped, Governed
  <1>10. Picked BY <1>3 DEF Picked, Blank
  <1>. QED BY <1>4, <1>5, <1>6, <1>7, <1>9, <1>10 DEF DeskInv, TalkOK, RowsInv

LEMMA StepDesk == DeskInv /\ [Next]_vars => DeskInv'
  <1>. SUFFICES ASSUME DeskInv, [Next]_vars PROVE DeskInv'
    OBVIOUS
  <1>1. TalkOK /\ RowsOK /\ RowsInv BY DEF DeskInv, RowsInv
  <1>2. CASE UNCHANGED vars
    BY <1>1, <1>2, SameTyped, SamePick, QuietKeeps DEF vars, conversation, DeskInv
  <1>3. CASE Next
    <2>1. TalkOK'
      BY <1>1, <1>3, TalkTyped, CodesTyped, NewCodeTyped, AgentsTyped, CatalogueTyped, GuidesTyped, PanelsTyped
         DEF Next
    <2>2. RowsInv'
      BY <1>1, <1>3, TalkRows, CodesNextRows, NewCodeRows, AgentsNextRows, CatalogueRows, GuidesNextRows,
         PanelsNextRows DEF Next
    <2>. QED BY <2>1, <2>2 DEF DeskInv
  <1>. QED BY <1>2, <1>3

LEMMA DeskInvariance == Spec => []DeskInv
  BY InitDesk, StepDesk, PTL DEF Spec

\* Whatever the admin does, in one conversation or in several that overlap, the conversation and
\* the tables hold what they may, and no id is above the last one handed out (database.py:2411).
THEOREM TypeCorrect == Spec => []TypeOK
  <1>1. DeskInv => TypeOK
    <2>. SUFFICES ASSUME DeskInv PROVE TypeOK
      OBVIOUS
    <2>1. TalkOK /\ RowsOK /\ Listed /\ Mapped BY DEF DeskInv, RowsInv
    <2>2. TalkType /\ LateType /\ HistoryType /\ Numbered BY <2>1 DEF TalkOK, RowsOK
    <2>3. late \subseteq [to : AdminStates \ {"none"}, code : Ids \cup {None}]
           /\ Cardinality(late) <= MaxLate /\ clearing \in 0..MaxLate
      BY <2>2 DEF LateType
    <2>4. born \in Nat /\ (codes \cup UNION {DOMAIN cats, DOMAIN plans, DOMAIN guides, DOMAIN panels}) \subseteq 1..born
      BY <2>2, DeskAssumption DEF Numbered, DeskAssumption
    <2>5. /\ \A c \in DOMAIN cats : cats[c] \in Nat
          /\ \A g \in DOMAIN guides : guides[g] \in Nat
          /\ \A p \in DOMAIN plans : plans[p].sort \in Nat
      BY <2>1 DEF Listed, InOrder
    <2>6. DOMAIN maps \subseteq Scopes /\ newer \subseteq DOMAIN maps BY <2>1 DEF Mapped
    <2>7. open \subseteq AdminStates /\ agents \subseteq People \cup {None}
           /\ picks \in 0..MaxPicks /\ cut \subseteq Ids
      BY <2>1 DEF RowsOK
    <2>8. asked \in Ids \cup {None} /\ {astray, torn} \subseteq BOOLEAN BY <2>2 DEF HistoryType
    <2>. QED BY <2>2, <2>3, <2>4, <2>5, <2>6, <2>7, <2>8 DEF TypeOK, TalkType
  <1>. QED BY <1>1, DeskInvariance, PTL

\* Whatever is moved, deleted or mapped while a conversation about it goes on, and wherever a
\* crash cuts a map short: no plan is without its category, no map without its panel if the
\* database keeps its foreign keys, a category's default makes each of its plans that has no
\* newer choice, and no two rows of a list have one place (database.py:2411, 2876, 2937, 2483).
THEOREM CatalogueAlwaysSound == Spec => []CatalogueSound
  <1>1. DeskInv => CatalogueSound
    <2>. SUFFICES ASSUME DeskInv PROVE CatalogueSound
      OBVIOUS
    <2>1. Listed /\ Mapped /\ Governed BY DEF DeskInv, RowsInv
    <2>2. NoOrphans BY <2>1 DEF Listed, NoOrphans
    <2>3. MapsLead BY <2>1 DEF Mapped, MapsLead
    <2>4. DefaultGoverns BY <2>1 DEF Governed, DefaultGoverns, PanelFor
    <2>5. OrderStrict BY <2>1 DEF Listed, InOrder, OrderStrict
    <2>. QED BY <2>2, <2>3, <2>4, <2>5 DEF CatalogueSound
  <1>. QED BY <1>1, DeskInvariance, PTL

=============================================================================
