------------------------------- MODULE AdminDesk -------------------------------
(***************************************************************************)
(* The admin's conversation with the bot (its state and its data, both in  *)
(* fsm_storage) and the tables it edits: discount codes, agents,           *)
(* categories and plans and guides with their order, panels, and the maps  *)
(* that say which panel makes which plan.                                  *)
(*                                                                         *)
(* The handlers of one chat overlap whenever one of them awaits Telegram.  *)
(* A "late" start writes the item into the data, awaits its prompt, and    *)
(* sets the state only then; other starts do both before the prompt.       *)
(* Some replies clear the conversation before they answer, others after.   *)
(* The values typed (prices, percents, names, addresses) are left out:     *)
(* the module is about the row they are written to.  The buttons that only *)
(* show something, and the replies refused for what was typed, change      *)
(* nothing and are left out too.                                           *)
(***************************************************************************)
EXTENDS Integers, FiniteSets, Functions

CONSTANTS
  People,    \* ids an admin types as those of an agent
  None,      \* no item
  Shops,     \* shops an instance starts from
  ForeignKeys,  \* the database keeps its foreign keys: local SQLite is told to, Turso is not
  MaxBorn,   \* bound: the highest id of a row
  MaxLate,   \* bound: handlers that await Telegram at the same time
  MaxPicks   \* bound: packages mapped

CodeFields == {"value", "uses", "minOrder", "maxUser", "expiry", "users"}
CodeSteps == {"codeStep", "valueStep", "usersStep", "usesStep"}
PlanFields == {"editName", "editPrice", "editGb", "editDays", "editLimit"}
PlanSteps == {"planName", "planPrice", "planGb", "planDays"}
GuideSteps == {"guideTitle", "guideContent", "guideName", "guideBody"}
PanelSteps == {"panelName", "panelUrl", "panelKey", "panelUser", "panelPassword"}
AdminStates ==
  CodeFields \cup CodeSteps \cup PlanFields \cup PlanSteps \cup GuideSteps \cup PanelSteps
  \cup {"none", "agentId", "agentPercent", "agentEdit", "catName", "catDesc", "panelEdit"}

Ids == 1..MaxBorn
Shahrah == 1  \* panel types: one asks for a key, the others for a name and a password
Marzban == 2
Scopes ==
  {"vip_plan", "vip_category"} \X Ids \cup {<<"custom_build", 0>>, <<"free_test", 0>>}
NoPick == <<None, None>>
Blank == [at |-> "none", item |-> None, code |-> None, newAgent |-> None,
          draft |-> FALSE, pick |-> NoPick]

InOrder(order) == IsInjective(order) /\ \A i \in DOMAIN order : order[i] \in Nat

\* ids below the next one, plans in categories, and no place of a list taken twice: a shop
\* with nothing in it, and what the desk makes of one
Legal(shop) ==
  /\ shop.born \in 0..MaxBorn /\ shop.open \subseteq AdminStates
  /\ shop.codes \cup DOMAIN shop.cats \cup DOMAIN shop.plans \cup DOMAIN shop.guides
       \cup DOMAIN shop.panels \subseteq 1..shop.born
  /\ InOrder(shop.cats) /\ InOrder(shop.guides)
  /\ \A p \in DOMAIN shop.plans : shop.plans[p] \in [cat : DOMAIN shop.cats, sort : Nat]
  /\ \A c \in DOMAIN shop.cats :
       InOrder([p \in {q \in DOMAIN shop.plans : shop.plans[q].cat = c} |-> shop.plans[p].sort])

ASSUME DeskAssumption ==
  /\ None \notin People \cup Ids
  /\ ForeignKeys \in BOOLEAN
  /\ {MaxBorn, MaxLate, MaxPicks} \subseteq Nat
  /\ \A shop \in Shops : Legal(shop)

VARIABLES
  talk,      \* fsm_storage: state and data of the admin's conversation
  late,      \* handlers that set a state once Telegram has answered
  clearing,  \* handlers that clear the conversation once Telegram has answered
  codes,     \* discounts
  agents,    \* agents
  cats,      \* vip_categories: sort_order by id
  plans,     \* vip_plans: category and sort_order by id
  guides,    \* guides: sort_order by id
  panels,    \* vpn_panels: enabled by id
  maps,      \* panel_plan_map: panel by scope
  asked,     \* history: the code the prompt of the state was about
  astray,    \* history: starts about two codes overlapped
  torn,      \* history: a conversation was cleared before its state was set
  newer,     \* history: overrides chosen since the default of their category
  cut,       \* history: categories whose default a crash cut short
  open,      \* bound: the conversations the admin begins
  born, picks

conversation == <<talk, late, clearing, asked, astray, torn>>
mapping == <<panels, maps, newer, cut, picks>>
catalogue == <<cats, plans, guides, mapping>>
rows == <<codes, agents, catalogue, born, open>>
vars == <<conversation, rows>>

Init ==
  /\ \E shop \in Shops :
       /\ codes = shop.codes /\ cats = shop.cats /\ plans = shop.plans
       /\ guides = shop.guides /\ panels = shop.panels /\ born = shop.born /\ open = shop.open
  /\ agents = {} /\ maps = <<>>
  /\ talk = Blank /\ late = {} /\ clearing = 0
  /\ asked = None /\ astray = FALSE /\ torn = FALSE /\ newer = {} /\ cut = {}
  /\ picks = 0

---------------------------------------------------------------------------
\* The conversation

\* state.clear(): state and data
Cleared ==
  /\ talk' = Blank /\ asked' = None
  /\ astray' = (astray /\ late # {})
  /\ torn' = (torn \/ \E l \in late : l.to = "agentPercent")

\* an early start: data and state, then the prompt
Enter(at, item) ==
  /\ at \in open
  /\ talk' = [talk EXCEPT !.at = at, !.item = item]
  /\ asked' = None /\ astray' = (astray /\ late # {})
  /\ UNCHANGED <<late, clearing, torn, rows>>

\* a reply whose handler only goes on to the next state
Advance(from, to) ==
  /\ talk.at = from
  /\ talk' = [talk EXCEPT !.at = to]
  /\ UNCHANGED <<late, clearing, asked, astray, torn, rows>>

\* the state is set once Telegram has taken the prompt
Later(to, code) ==
  /\ Cardinality(late) < MaxLate
  /\ late' = late \cup {[to |-> to, code |-> code]}

SetState ==
  \E l \in late :
    /\ late' = late \ {l}
    /\ talk' = [talk EXCEPT !.at = l.to, !.item = None]
    /\ asked' = l.code
    /\ UNCHANGED <<clearing, astray, torn, rows>>

\* the answer is sent first and the conversation cleared afterwards
AnswerThenClear ==
  /\ clearing < MaxLate /\ clearing' = clearing + 1
  /\ UNCHANGED <<talk, late, asked, astray, torn>>

ClearState ==
  /\ clearing > 0 /\ clearing' = clearing - 1
  /\ Cleared
  /\ UNCHANGED <<late, rows>>

\* history: the slot a start has written differs from that of the prompt that stays
Strays(l) == l.code \notin {None, asked}

\* Telegram refuses the message or the process dies: what came after it is not done
AnswerRaises ==
  /\ \/ \E l \in late : late' = late \ {l} /\ astray' = (astray \/ Strays(l)) /\ UNCHANGED clearing
     \/ clearing > 0 /\ clearing' = clearing - 1 /\ UNCHANGED <<late, astray>>
  /\ UNCHANGED <<talk, asked, torn, rows>>

---------------------------------------------------------------------------
\* Discount codes

\* Mutant: the code is not written into the data.
EditStartForgets(field) ==
  field \in open /\ \E c \in codes :
    /\ Later(field, c)
    /\ astray' = (astray \/ \E l \in late : l.code \notin {None, c})
    /\ UNCHANGED <<talk, clearing, asked, torn, rows>>

\* the six editors of a code: the code is looked up, written into the data, the prompt
\* is shown, and then the state is set
EditStart(field) ==
  field \in open /\ \E c \in codes :
    /\ Later(field, c)
    /\ talk' = [talk EXCEPT !.code = c]
    /\ astray' = (astray \/ \E l \in late : l.code \notin {None, c})
    /\ UNCHANGED <<clearing, asked, torn, rows>>

\* update_discount and clear; a code that is gone is answered first
EditSave(field) ==
  /\ talk.at = field
  /\ \/ talk.code \in codes /\ Cleared /\ UNCHANGED <<late, clearing>>
     \/ talk.code \notin codes /\ AnswerThenClear
  /\ UNCHANGED <<rows>>

AdminDiscountEditValueStart == EditStart("value")
AdminDiscountEditUsesStart == EditStart("uses")
AdminDiscountEditMinorderStart == EditStart("minOrder")
AdminDiscountEditMaxuserStart == EditStart("maxUser")
AdminDiscountEditExpiryStart == EditStart("expiry")
AdminDiscountEditUsersStart == EditStart("users")
AdminDiscountEditValueSave == EditSave("value")
AdminDiscountEditUsesSave == EditSave("uses")
AdminDiscountEditMinorderSave == EditSave("minOrder")
AdminDiscountEditMaxuserSave == EditSave("maxUser")
AdminDiscountEditExpirySave == EditSave("expiry")
AdminDiscountEditUsersSave == EditSave("users")

\* the editor of the plans writes the code into the data and leaves the state as it is
AdminDiscountEditPlansStart ==
  \E c \in codes :
    /\ talk' = [talk EXCEPT !.code = c]
    /\ astray' = (\/ astray
                  \/ talk.at \in CodeFields /\ asked # c
                  \/ \E l \in late : l.code \notin {None, c})
    /\ UNCHANGED <<late, clearing, asked, torn, rows>>

\* its "done", and the page of a code, clear whatever conversation there is
AdminDiscountEditPlansDone ==
  /\ codes # {}
  /\ Cleared
  /\ UNCHANGED <<late, clearing, rows>>

AdminDiscountDetail == AdminDiscountEditPlansDone

\* of a code nobody has used; one that was used is kept where ForeignKeys are
DeleteDiscountById(c) == codes' = codes \ {c}

AdminDiscountDeleteConfirm ==
  /\ \E c \in codes : DeleteDiscountById(c)
  /\ UNCHANGED <<conversation, agents, catalogue, born, open>>

NewDiscountStart ==
  /\ "codeStep" \in open /\ Later("codeStep", None)
  /\ Cleared
  /\ UNCHANGED <<clearing, rows>>

NewDiscountCodeInput ==
  /\ talk.at = "codeStep"
  /\ talk' = [talk EXCEPT !.draft = TRUE]
  /\ UNCHANGED <<late, clearing, asked, astray, torn, rows>>

\* a step of the wizard that sets the next state after its message
WizardStep(from, to) ==
  /\ talk.at = from
  /\ Later(to, None)
  /\ UNCHANGED <<talk, clearing, asked, astray, torn, rows>>

NewDiscountTypeChosen == WizardStep("codeStep", "valueStep")
NewDiscountPlanToggle == WizardStep("valueStep", "usersStep")
NewDiscountUsersInput == WizardStep("usersStep", "usesStep")

\* a row takes the next id of its table; the tables share one counter here
Born == born < MaxBorn /\ born' = born + 1

CreateDiscount == Born /\ codes' = codes \cup {born + 1}

\* without a code in the data, or with one that exists, create_discount raises
NewDiscountUsesInput ==
  /\ talk.at = "usesStep"
  /\ \/ UNCHANGED <<codes, born>>
     \/ talk.draft /\ CreateDiscount
  /\ AnswerThenClear
  /\ UNCHANGED <<agents, catalogue, open>>

---------------------------------------------------------------------------
\* Agents

NewAgentStart ==
  /\ "agentId" \in open /\ Later("agentId", None)
  /\ UNCHANGED <<talk, clearing, asked, astray, torn, rows>>

NewAgentIdInput ==
  /\ talk.at = "agentId"
  /\ \E tid \in People : talk' = [talk EXCEPT !.newAgent = tid]
  /\ Later("agentPercent", None)
  /\ UNCHANGED <<clearing, asked, astray, torn, rows>>

\* an agent there is gets the new percent; str(None) is written when the id is gone
AddAgent(tid) == agents' = agents \cup {tid}
RemoveAgent(tid) == agents' = agents \ {tid}

NewAgentPercentInput ==
  /\ talk.at = "agentPercent"
  /\ AddAgent(talk.newAgent)
  /\ AnswerThenClear
  /\ UNCHANGED <<codes, catalogue, born, open>>

DeleteAgent ==
  /\ \E tid \in agents : RemoveAgent(tid)
  /\ UNCHANGED <<conversation, codes, catalogue, born, open>>

AdminAgentEditPercentStart == \E tid \in agents : Enter("agentEdit", tid)

\* a reply that updates a row, or finds none, and clears after its answer
Update(at) ==
  /\ talk.at = at
  /\ AnswerThenClear
  /\ UNCHANGED <<rows>>

AdminAgentEditPercentApply == Update("agentEdit")

---------------------------------------------------------------------------
\* Categories and plans

PlansOf(c) == {p \in DOMAIN plans : plans[p].cat = c}

\* Mutant: the first row of a list has no place.
NextSortNull(order) ==
  IF DOMAIN order = {} THEN None
  ELSE CHOOSE n \in {order[i] + 1 : i \in DOMAIN order} : \A i \in DOMAIN order : order[i] < n

\* COALESCE(MAX(sort_order), -1) + 1
NextSort(order) ==
  IF DOMAIN order = {} THEN 0
  ELSE CHOOSE n \in {order[i] + 1 : i \in DOMAIN order} : \A i \in DOMAIN order : order[i] < n

Extended(f, x, y) == [z \in DOMAIN f \cup {x} |-> IF z = x THEN y ELSE f[z]]

\* ORDER BY sort_order, id
Before(order, i, j) == order[i] < order[j] \/ (order[i] = order[j] /\ i < j)

\* _move_row: a row exchanges its sort_order with the one before or after it
Moved(order) ==
  LET ids == DOMAIN order
      Adjacent(i, j) == Before(order, i, j)
                          /\ ~\E k \in ids : Before(order, i, k) /\ Before(order, k, j)
  IN {[order EXCEPT ![m[1]] = order[m[2]], ![m[2]] = order[m[1]]] :
        m \in {m \in ids \X ids : Adjacent(m[1], m[2])}}

AdminNewVipCategoryStart == Enter("catName", None)

CreateVipCategory == Born /\ cats' = Extended(cats, born + 1, NextSort(cats))

AdminNewVipCategoryApply ==
  /\ talk.at = "catName" /\ CreateVipCategory
  /\ AnswerThenClear
  /\ UNCHANGED <<codes, agents, plans, guides, mapping, open>>

AdminEditVipCategoryDescStart == \E c \in DOMAIN cats : Enter("catDesc", c)
AdminEditVipCategoryDescApply == Update("catDesc")

Without(f, x) == Restrict(f, DOMAIN f \ {x})

\* a category with plans is kept; the map of one that goes stays
DeleteVipCategory(c) == PlansOf(c) = {} /\ cats' = Without(cats, c)

AdminDeleteVipCategory ==
  /\ \E c \in DOMAIN cats : DeleteVipCategory(c)
  /\ UNCHANGED <<conversation, codes, agents, plans, guides, mapping, born, open>>

AdminMoveVipCategory ==
  /\ cats' \in Moved(cats)
  /\ UNCHANGED <<conversation, codes, agents, plans, guides, mapping, born, open>>

AdminNewVipPlanStart == \E c \in DOMAIN cats : Enter("planName", c)
AdminNewVipPlanName == Advance("planName", "planPrice")
AdminNewVipPlanPrice == Advance("planPrice", "planGb")
AdminNewVipPlanGb == Advance("planGb", "planDays")

Orders(c) == [p \in PlansOf(c) |-> plans[p].sort]

AddVipPlan(c) ==
  Born /\ plans' = Extended(plans, born + 1, [cat |-> c, sort |-> NextSort(Orders(c))])

\* the category is looked up again, and the plan is the last of it
AdminNewVipPlanDays ==
  /\ talk.at = "planDays"
  /\ \/ talk.item \notin DOMAIN cats /\ UNCHANGED <<plans, born>>
     \/ talk.item \in DOMAIN cats /\ AddVipPlan(talk.item)
  /\ AnswerThenClear
  /\ UNCHANGED <<codes, agents, cats, guides, mapping, open>>

PlanEditStart(field) == \E p \in DOMAIN plans : Enter(field, p)

AdminVipPlanEditNameStart == PlanEditStart("editName")
AdminVipPlanEditPriceStart == PlanEditStart("editPrice")
AdminVipPlanEditGbStart == PlanEditStart("editGb")
AdminVipPlanEditDaysStart == PlanEditStart("editDays")
AdminVipPlanEditLimitStart == PlanEditStart("editLimit")
\* update_vip_plan writes nothing for a plan that is gone; success is answered all the same
AdminVipPlanEditNameApply == Update("editName")
AdminVipPlanEditPriceApply == Update("editPrice")
AdminVipPlanEditGbApply == Update("editGb")
AdminVipPlanEditDaysApply == Update("editDays")
AdminVipPlanEditUserLimitApply == Update("editLimit")

\* an override of the plan stays
DeleteVipPlan(p) == plans' = Without(plans, p)

AdminDeleteVipPlan ==
  /\ \E p \in DOMAIN plans : DeleteVipPlan(p)
  /\ UNCHANGED <<conversation, codes, agents, cats, guides, mapping, born, open>>

AdminMoveVipPlan ==
  /\ \E c \in DOMAIN cats : \E order \in Moved(Orders(c)) :
       plans' = [p \in DOMAIN plans |->
                   IF p \in DOMAIN order THEN [plans[p] EXCEPT !.sort = order[p]] ELSE plans[p]]
  /\ UNCHANGED <<conversation, codes, agents, cats, guides, mapping, born, open>>

---------------------------------------------------------------------------
\* Guides

\* the list of the guides ends whatever conversation there is
AdminGuidesList ==
  /\ guides # <<>>
  /\ Cleared
  /\ UNCHANGED <<late, clearing, rows>>

AdminGuideNewStart == Enter("guideTitle", None)
AdminGuideNewTitle == Advance("guideTitle", "guideContent")

CreateGuide == Born /\ guides' = Extended(guides, born + 1, NextSort(guides))

AdminGuideNewContent ==
  /\ talk.at = "guideContent" /\ CreateGuide
  /\ Cleared
  /\ UNCHANGED <<late, clearing, codes, agents, cats, plans, mapping, open>>

MoveGuide == guides' \in Moved(guides)

AdminGuideMove ==
  /\ MoveGuide
  /\ UNCHANGED <<conversation, codes, agents, cats, plans, mapping, born, open>>

GuideEditStart(field) == \E g \in DOMAIN guides : Enter(field, g)

\* update_guide writes nothing for a guide that is gone; cleared before the answer
GuideEditSave(field) ==
  /\ talk.at = field
  /\ Cleared
  /\ UNCHANGED <<late, clearing, rows>>

AdminGuideEditNameStart == GuideEditStart("guideName")
AdminGuideEditContentStart == GuideEditStart("guideBody")
AdminGuideEditNameSave == GuideEditSave("guideName")
AdminGuideEditContentSave == GuideEditSave("guideBody")

DeleteGuide(g) == guides' = Without(guides, g)

AdminGuideDeleteDo ==
  /\ \E g \in DOMAIN guides : DeleteGuide(g)
  /\ UNCHANGED <<conversation, codes, agents, cats, plans, mapping, born, open>>

---------------------------------------------------------------------------
\* Panels

VpnPanelAddStart == \E type \in {Shahrah, Marzban} : Enter("panelName", type)
VpnPanelAddName == Advance("panelName", "panelUrl")
VpnPanelAddBaseUrl ==
  Advance("panelUrl", IF talk.item = Shahrah THEN "panelKey" ELSE "panelUser")
VpnPanelAddUsername == Advance("panelUser", "panelPassword")

\* create_vpn_panel; cleared before the answer
CreateVpnPanel(at) ==
  /\ talk.at = at /\ Born
  /\ panels' = Extended(panels, born + 1, TRUE)
  /\ Cleared
  /\ UNCHANGED <<late, clearing, codes, agents, cats, plans, guides, maps, newer, cut, picks, open>>

VpnPanelAddApiKey == CreateVpnPanel("panelKey")
VpnPanelAddPassword == CreateVpnPanel("panelPassword")

VpnPanelEditFieldStart == \E n \in DOMAIN panels : Enter("panelEdit", n)

VpnPanelEditFieldReceived ==
  /\ talk.at = "panelEdit"
  /\ \/ talk.item \in DOMAIN panels /\ Cleared /\ UNCHANGED <<late, clearing>>
     \/ talk.item \notin DOMAIN panels /\ AnswerThenClear
  /\ UNCHANGED <<rows>>

UpdateVpnPanel(n, enabled) == panels' = [panels EXCEPT ![n] = enabled]

VpnPanelToggle ==
  /\ \E n \in DOMAIN panels : UpdateVpnPanel(n, ~panels[n])
  /\ UNCHANGED <<conversation, codes, agents, cats, plans, guides, maps, newer, cut, picks, born, open>>

\* its maps, then the panel, in one transaction
DeleteVpnPanel(n) ==
  /\ maps' = Restrict(maps, {s \in DOMAIN maps : maps[s] # n})
  /\ panels' = Without(panels, n)

VpnPanelDelete ==
  /\ \E n \in DOMAIN panels : DeleteVpnPanel(n)
  /\ newer' = newer \cap DOMAIN maps'
  /\ UNCHANGED <<conversation, codes, agents, cats, plans, guides, cut, picks, born, open>>

---------------------------------------------------------------------------
\* Maps

\* _open_catalog_picker: what it awaits comes before the data is written, so that it is
\* as if the button had been pressed when the answer came
OpenCatalogPicker(scope) ==
  /\ \E n \in DOMAIN panels : talk' = [talk EXCEPT !.pick = <<n, scope>>]
  /\ UNCHANGED <<late, clearing, asked, astray, torn, rows>>

VpnMapVipPlanPick == \E p \in DOMAIN plans : OpenCatalogPicker(<<"vip_plan", p>>)
VpnMapCatPick == \E c \in DOMAIN cats : OpenCatalogPicker(<<"vip_category", c>>)
VpnMapCustomBuild == OpenCatalogPicker(<<"custom_build", 0>>)
VpnMapFreeTest == OpenCatalogPicker(<<"free_test", 0>>)

Overrides(c) == {"vip_plan"} \X PlansOf(c)

\* set_panel_plan_map for the scope in the data; nobody but the foreign key asks whether the
\* panel is still there
SetPanelPlanMap(scope, n) ==
  /\ picks < MaxPicks /\ picks' = picks + 1
  /\ talk.pick = <<n, scope>> /\ (ForeignKeys => n \in DOMAIN panels)

\* Mutant: the overrides of the plans stay.
WithDefaultOnly(scope, n) == Extended(maps, scope, n)

\* the default of a category clears the overrides of its plans, in a second transaction
WithDefault(scope, n) ==
  LET set == Extended(maps, scope, n) IN Restrict(set, DOMAIN set \ Overrides(scope[2]))

VpnCatalogPickSet ==
  /\ \E n \in Ids : \E scope \in Scopes :
       /\ SetPanelPlanMap(scope, n)
       /\ IF scope[1] = "vip_category"
          THEN /\ maps' = WithDefault(scope, n)
               /\ newer' = newer \ Overrides(scope[2]) /\ cut' = cut \ {scope[2]}
          ELSE /\ maps' = Extended(maps, scope, n)
               /\ newer' = newer \cup {scope} /\ UNCHANGED cut
  /\ UNCHANGED <<conversation, codes, agents, cats, plans, guides, panels, born, open>>

\* the process dies between the two transactions
VpnCatalogPickCut ==
  /\ \E n \in Ids : \E scope \in Scopes :
       /\ SetPanelPlanMap(scope, n) /\ scope[1] = "vip_category"
       /\ maps' = Extended(maps, scope, n)
       /\ newer' = newer \ Overrides(scope[2]) /\ cut' = cut \cup {scope[2]}
  /\ late' = {} /\ clearing' = 0
  /\ astray' = (astray \/ \E l \in late : Strays(l))
  /\ UNCHANGED <<talk, asked, torn, codes, agents, cats, plans, guides, panels, born, open>>

VpnMapDelete(scope) ==
  /\ scope \in DOMAIN maps
  /\ maps' = Without(maps, scope)
  /\ newer' = newer \ {scope}
  /\ UNCHANGED <<conversation, codes, agents, cats, plans, guides, panels, cut, picks, born, open>>

VpnMapDeletePlan == \E p \in DOMAIN plans : VpnMapDelete(<<"vip_plan", p>>)
VpnMapDeleteCategory == \E c \in Ids : VpnMapDelete(<<"vip_category", c>>)

\* get_panel_map_for_plan_key
PanelFor(p) ==
  IF <<"vip_plan", p>> \in DOMAIN maps THEN maps[<<"vip_plan", p>>]
  ELSE IF <<"vip_category", plans[p].cat>> \in DOMAIN maps
       THEN maps[<<"vip_category", plans[p].cat>>]
       ELSE None

---------------------------------------------------------------------------
NextTalk ==
  SetState \/ ClearState \/ AnswerRaises

NextCodes ==
  \/ AdminDiscountEditValueStart \/ AdminDiscountEditUsesStart
  \/ AdminDiscountEditMinorderStart \/ AdminDiscountEditMaxuserStart
  \/ AdminDiscountEditExpiryStart \/ AdminDiscountEditUsersStart
  \/ AdminDiscountEditValueSave \/ AdminDiscountEditUsesSave
  \/ AdminDiscountEditMinorderSave \/ AdminDiscountEditMaxuserSave
  \/ AdminDiscountEditExpirySave \/ AdminDiscountEditUsersSave
  \/ AdminDiscountEditPlansStart \/ AdminDiscountEditPlansDone \/ AdminDiscountDetail
  \/ AdminDiscountDeleteConfirm

NextNewCode ==
  \/ NewDiscountStart \/ NewDiscountCodeInput \/ NewDiscountTypeChosen
  \/ NewDiscountPlanToggle \/ NewDiscountUsersInput \/ NewDiscountUsesInput

NextAgents ==
  \/ NewAgentStart \/ NewAgentIdInput \/ NewAgentPercentInput \/ DeleteAgent
  \/ AdminAgentEditPercentStart \/ AdminAgentEditPercentApply

NextCatalogue ==
  \/ AdminNewVipCategoryStart \/ AdminNewVipCategoryApply
  \/ AdminEditVipCategoryDescStart \/ AdminEditVipCategoryDescApply
  \/ AdminDeleteVipCategory \/ AdminMoveVipCategory
  \/ AdminNewVipPlanStart \/ AdminNewVipPlanName \/ AdminNewVipPlanPrice
  \/ AdminNewVipPlanGb \/ AdminNewVipPlanDays
  \/ AdminVipPlanEditNameStart \/ AdminVipPlanEditPriceStart \/ AdminVipPlanEditGbStart
  \/ AdminVipPlanEditDaysStart \/ AdminVipPlanEditLimitStart
  \/ AdminVipPlanEditNameApply \/ AdminVipPlanEditPriceApply \/ AdminVipPlanEditGbApply
  \/ AdminVipPlanEditDaysApply \/ AdminVipPlanEditUserLimitApply
  \/ AdminDeleteVipPlan \/ AdminMoveVipPlan

NextGuides ==
  \/ AdminGuidesList \/ AdminGuideNewStart \/ AdminGuideNewTitle \/ AdminGuideNewContent
  \/ AdminGuideMove \/ AdminGuideEditNameStart \/ AdminGuideEditContentStart
  \/ AdminGuideEditNameSave \/ AdminGuideEditContentSave \/ AdminGuideDeleteDo

NextPanels ==
  \/ VpnPanelAddStart \/ VpnPanelAddName \/ VpnPanelAddBaseUrl \/ VpnPanelAddUsername
  \/ VpnPanelAddApiKey \/ VpnPanelAddPassword
  \/ VpnPanelEditFieldStart \/ VpnPanelEditFieldReceived \/ VpnPanelToggle \/ VpnPanelDelete
  \/ VpnMapVipPlanPick \/ VpnMapCatPick \/ VpnMapCustomBuild \/ VpnMapFreeTest
  \/ VpnCatalogPickSet \/ VpnCatalogPickCut \/ VpnMapDeletePlan \/ VpnMapDeleteCategory

Next ==
  \/ NextTalk \/ NextCodes \/ NextNewCode \/ NextAgents
  \/ NextCatalogue \/ NextGuides \/ NextPanels

Spec == Init /\ [][Next]_vars

---------------------------------------------------------------------------
\* Every variable keeps its type, and the ids handed out bound those in the tables.
TypeOK ==
  /\ talk \in [at : AdminStates, item : Ids \cup People \cup {None, Shahrah, Marzban},
               code : Ids \cup {None},
               newAgent : People \cup {None}, draft : BOOLEAN,
               pick : (Ids \X Scopes) \cup {NoPick}]
  /\ late \subseteq [to : AdminStates \ {"none"}, code : Ids \cup {None}]
  /\ Cardinality(late) <= MaxLate /\ clearing \in 0..MaxLate
  /\ born \in Nat /\ open \subseteq AdminStates /\ picks \in 0..MaxPicks
  /\ (codes \cup UNION {DOMAIN cats, DOMAIN plans, DOMAIN guides, DOMAIN panels}) \subseteq 1..born
  /\ \A c \in DOMAIN cats : cats[c] \in Nat
  /\ \A g \in DOMAIN guides : guides[g] \in Nat
  /\ \A p \in DOMAIN plans : plans[p].sort \in Nat
  /\ agents \subseteq People \cup {None}
  /\ DOMAIN maps \subseteq Scopes /\ newer \subseteq DOMAIN maps /\ cut \subseteq Ids
  /\ asked \in Ids \cup {None} /\ {astray, torn} \subseteq BOOLEAN

\* What the admin types is written to the code its prompt was about, or to none, and an
\* agent is one whose id was typed: the editors share one slot of the data and set their
\* state after a message, so the only ways to miss are two codes' starts that overlap, a start
\* whose message fails, the plans editor of another code, and a clear that comes between an
\* id and its percent (admin.py:2778, 3038, 3372).
SlotTrue ==
  /\ talk.at \in CodeFields /\ late = {} /\ ~astray => talk.code \in {asked, None}
  /\ ~torn => None \notin agents

\* No plan is left without its category, whatever was deleted while the wizard ran.
NoOrphans == \A p \in DOMAIN plans : plans[p].cat \in DOMAIN cats

\* Every map leads to a panel there is, as far as the database keeps its foreign keys.
MapsLead == ForeignKeys => \A s \in DOMAIN maps : maps[s] \in DOMAIN panels

\* A plan is made by its category's default unless an override was chosen since.
DefaultGoverns ==
  \A p \in DOMAIN plans :
    LET default == <<"vip_category", plans[p].cat>> IN
      default \in DOMAIN maps /\ plans[p].cat \notin cut /\ <<"vip_plan", p>> \notin newer
        => PanelFor(p) = maps[default]

\* No two rows of one list have the same place, so that a move always exchanges two.
OrderStrict ==
  /\ IsInjective(cats) /\ IsInjective(guides)
  /\ \A c \in DOMAIN cats : IsInjective(Orders(c))

\* The shop's catalogue stays sound through conversations that overlap, rows deleted under
\* a wizard or a picker, and a crash in the middle of a map: no plan without a category, no
\* map without a panel where foreign keys are kept (database.py:128), the default of a
\* category governs its plans, and every list has a strict order (database.py:2411, 2876,
\* 2937, 2483).
CatalogueSound == NoOrphans /\ MapsLead /\ DefaultGoverns /\ OrderStrict

=============================================================================
