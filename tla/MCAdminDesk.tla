------------------------------ MODULE MCAdminDesk ------------------------------
(* Instances of AdminDesk for TLC: shops to start from. *)
EXTENDS AdminDesk, TLC

Empty == [codes |-> {}, cats |-> <<>>, plans |-> <<>>, guides |-> <<>>, panels |-> <<>>,
          born |-> 4, open |-> {}]

\* editors of two codes, and a conversation that sets its state at once
CodeShop == [Empty EXCEPT !.codes = {1, 2}, !.open = CodeFields \cup {"catName"}]

\* a code and agents are added and edited
NewShop ==
  [Empty EXCEPT !.open = {"codeStep", "users", "agentId", "agentEdit"}]

\* a category with two plans, and one with none
PlanShop ==
  [Empty EXCEPT !.cats = 1 :> 0 @@ 2 :> 1, !.open = {"catName", "catDesc", "planName"} \cup PlanFields,
                !.plans = 3 :> [cat |-> 1, sort |-> 0] @@ 4 :> [cat |-> 1, sort |-> 1]]

\* a category with a plan, and two panels
PanelShop ==
  [Empty EXCEPT !.cats = 1 :> 0, !.plans = 2 :> [cat |-> 1, sort |-> 0],
                !.panels = 3 :> TRUE @@ 4 :> TRUE, !.open = {"panelEdit"}]

\* a category with a plan and a panel; plans and panels are added
MapShop ==
  [Empty EXCEPT !.cats = 1 :> 0, !.plans = 2 :> [cat |-> 1, sort |-> 0],
                !.panels = 3 :> TRUE, !.open = {"planName", "panelName"}]

\* two guides; guides are added and edited
GuideShop ==
  [Empty EXCEPT !.guides = 1 :> 0 @@ 2 :> 1, !.open = {"guideTitle", "guideName", "guideBody"}]

TheShops == {CodeShop, NewShop, PlanShop, GuideShop, PanelShop, MapShop}

=============================================================================
