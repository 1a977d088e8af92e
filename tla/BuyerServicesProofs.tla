-------------------------- MODULE BuyerServicesProofs --------------------------
(***************************************************************************)
(* Proofs about BuyerServices, for any number of handlers that await the   *)
(* panel, scans, days, link changes, lost answers and crashes: the row the *)
(* buyer sees follows the panel, and a flagged alert was sent, with        *)
(* exactly the exceptions the properties name.                             *)
(***************************************************************************)
EXTENDS BuyerServices, TLAPS

Answered(t) == task[t].at = "answered"
Switching == {"disable", "enable"}
Linking == {"link", "relink"}

\* A new link is there when a handler of one has its answer; a renewal has kept the row's.
Filled ==
  \A t \in Tasks :
    /\ Answered(t) => task[t].op \in Linking \cup Switching \cup Renewing \cup {"delete"}
    /\ Answered(t) /\ task[t].op \in Linking => task[t].got \in Links
    /\ task[t].at # "idle" /\ task[t].op = "renewal" => task[t].link # None

---------------------------------------------------------------------------
LinkAgrees == row.link = service.link \/ "typed" \in excuse \/ ~service.there
SwitchAgrees == row.disabled # service.active \/ "unswitched" \in excuse \/ ~service.there
Standing == service.there \/ "restored" \in excuse

\* The row and the panel; a deleted row keeps its link and its switch.
Agreed ==
  row.there => LinkAgrees /\ SwitchAgrees /\ (~row.deleted => Standing)

\* A handler that was alone finds at its write what it left at the panel, and in the row what
\* it does not write itself.
Prepared(t) ==
  LET op == task[t].op
      got == task[t].got IN
    /\ op = "renewal" /\ (Answered(t) => got = None) =>
         task[t].link = service.link \/ "typed" \in excuse \/ ~service.there
    /\ Answered(t) =>
         /\ op # "delete" => service.there
         /\ op \in Linking => got = service.link
         /\ op \in Switching => service.active = (op = "enable")
         /\ op \in Renewing => service.active /\ got \in {None, service.link}
         /\ op \in Switching \cup {"delete"} \/ (op = "renew" /\ got = None)
              => (row.there => LinkAgrees)

\* Whoever is alone is the only handler under way.
AloneBusy == \A t \in alone : Busy = {t}

Followed ==
  /\ AloneBusy
  /\ excuse # Overtaken =>
       /\ (\A t \in Tasks : ~Answered(t)) => Agreed
       /\ \A t \in alone : Prepared(t)

---------------------------------------------------------------------------
\* The usage has reached what these alerts are about, and their day has come.
Reached(alerts) ==
  /\ "80" \in alerts => service.used >= 1
  /\ "90" \in alerts => service.used >= 2
  /\ "expiry" \in alerts => service.until <= today

TellsDue(alerts) == (alerts \cap Due(service, today)) \ {"ended"} \subseteq told

\* Unless a renewal has its answer and has not written: what is flagged, and what a scan is
\* about to send or to flag, has come up; what is due of the flagged has been sent.
Alerted ==
  row.there /\ ~missed /\ (\A t \in Tasks : Answered(t) => task[t].op \notin Renewing) =>
    /\ Reached(row.flags) /\ TellsDue(row.flags)
    /\ scan.at = "send" => Reached(scan.todo)
    /\ scan.at = "flag" => /\ Reached(scan.todo) /\ Reached(scan.flags)
                           /\ \A a \in scan.flags : Reached(Next80(a)) /\ TellsDue(Next80(a))

IInv == TypeOK /\ Filled /\ Followed /\ Alerted

---------------------------------------------------------------------------
\* The row

RowType ==
  [there : BOOLEAN, deleted : BOOLEAN, link : Links \cup {Other},
   disabled : BOOLEAN, flags : SUBSET Alerts, until : Nat]

ServiceType ==
  [kind : {"marzban", "shahrah"}, there : BOOLEAN, link : Links,
   active : BOOLEAN, used : Levels, until : Nat]

TaskType ==
  [at : {"idle", "calling", "answered"},
   op : {"none", "link", "relink", "disable", "enable", "delete"} \cup Renewing,
   link : Links \cup {None, Other}, until : Nat, got : Links \cup {None}]

ScanType ==
  [at : {"idle", "fetch", "send", "flag", "archive"},
   link : Links \cup {None, Other}, flags : SUBSET Alerts, todo : SUBSET Alerts]

ExcuseType == {Overtaken} \cup SUBSET {"typed", "restored", "unswitched"}

Types ==
  /\ row \in RowType /\ service \in ServiceType /\ today \in 0..MaxDays
  /\ task \in [Tasks -> TaskType] /\ scan \in ScanType
  /\ asked \in BOOLEAN /\ told \subseteq Alerts /\ alone \subseteq Tasks
  /\ excuse \in ExcuseType /\ missed \in BOOLEAN
  /\ starts \in 0..MaxStarts /\ scans \in 0..MaxScans /\ trouble \in 0..MaxTrouble

LEMMA TypesAre == TypeOK <=> Types
  BY DEF TypeOK, Types, RowType, ServiceType, TaskType, ScanType, ExcuseType

LEMMA Constants ==
  /\ MaxLinks \in Nat /\ MaxDays \in Nat /\ MaxStarts \in Nat /\ MaxScans \in Nat
  /\ MaxTrouble \in Nat /\ None \notin Nat /\ Other \notin Nat /\ None # Other
  /\ \A n \in Levels : n \in Nat
  /\ 0 \in Levels /\ 0 \in Links /\ Links \subseteq Nat
  BY ServiceAssumption DEF ServiceAssumption, Links

\* What each write leaves in the row.
LEMMA UpdatedRow ==
  ASSUME row \in RowType, NEW link \in Links \cup {Other}, NEW until \in Nat
  PROVE  /\ UpdateConfig(link, until) \in RowType
         /\ UpdateConfig(link, until).there = row.there
         /\ row.there => LET r == UpdateConfig(link, until) IN
              /\ r.link = link /\ ~r.deleted /\ r.flags = row.flags \cap {"ended"}
              /\ r.disabled = row.disabled
  BY DEF UpdateConfig, Updated, RowType

LEMMA UpdatedLink ==
  ASSUME row \in RowType, NEW link \in Links \cup {Other}
  PROVE  /\ UpdateConfigLink(link) \in RowType
         /\ UpdateConfigLink(link).there = row.there
         /\ row.there => LET r == UpdateConfigLink(link) IN
              /\ r.link = link /\ r.deleted = row.deleted /\ r.flags = row.flags \cap {"ended"}
              /\ r.disabled = row.disabled
  BY DEF UpdateConfigLink, Updated, RowType

LEMMA UpdatedDeleted ==
  ASSUME row \in RowType, NEW deleted \in BOOLEAN
  PROVE  /\ SetConfigDeleted(deleted) \in RowType
         /\ SetConfigDeleted(deleted).there = row.there
         /\ row.there => LET r == SetConfigDeleted(deleted) IN
              /\ r.link = row.link /\ r.deleted = deleted /\ r.flags = row.flags
              /\ r.disabled = row.disabled
  BY DEF SetConfigDeleted, Updated, RowType

LEMMA UpdatedFlags ==
  ASSUME row \in RowType, NEW flags \in SUBSET Alerts
  PROVE  /\ SetConfigAlertSent(flags) \in RowType
         /\ SetConfigAlertSent(flags).there = row.there
         /\ row.there => LET r == SetConfigAlertSent(flags) IN
              /\ r.link = row.link /\ r.deleted = row.deleted /\ r.flags = row.flags \cup flags
              /\ r.disabled = row.disabled
  BY DEF SetConfigAlertSent, Updated, RowType

\* The process that dies leaves the row as it is, or with the flag of 90 alone.
LEMMA CrashRow ==
  ASSUME row \in RowType, Crash
  PROVE  /\ row' \in RowType /\ row'.there = row.there
         /\ row.there =>
              /\ row'.link = row.link /\ row'.deleted = row.deleted
              /\ row'.disabled = row.disabled
              /\ \/ row'.flags = row.flags
                 \/ /\ scan.at = "flag" /\ "90" \in scan.flags
                    /\ row'.flags = row.flags \cup {"90"}
  <1>1. \/ row' = row
        \/ /\ scan.at = "flag" /\ "90" \in scan.flags
           /\ row' = SetConfigAlertSent({"90"})
    BY DEF Crash
  <1>2. {"90"} \in SUBSET Alerts BY DEF Alerts
  <1>. QED BY <1>1, <1>2, UpdatedFlags

LEMMA WithSwitch ==
  ASSUME NEW r \in RowType, NEW disabled \in BOOLEAN
  PROVE  LET s == [r EXCEPT !.disabled = disabled] IN
         /\ s \in RowType /\ s.disabled = disabled
         /\ s.there = r.there /\ s.link = r.link /\ s.deleted = r.deleted /\ s.flags = r.flags
  BY DEF RowType

LEMMA UpdatedSwitch ==
  ASSUME row \in RowType, NEW disabled \in BOOLEAN
  PROVE  LET r == Updated([row EXCEPT !.disabled = disabled]) IN
         /\ r \in RowType /\ r.there = row.there
         /\ row.there => /\ r.link = row.link /\ r.deleted = row.deleted /\ r.flags = row.flags
                         /\ r.disabled = disabled
  BY DEF Updated, RowType

---------------------------------------------------------------------------
\* Every variable keeps its type

Ops == {"link", "relink", "disable", "enable", "delete"} \cup Renewing

\* Next by what a step does.
Begins(t) == \E op \in Ops : (op = "renewal" => service.kind # "shahrah") /\ Begin(t, op)

OnlyWrites ==
  \/ AdminServiceDelete \/ AdminServiceRestore \/ AdminServicePurge
  \/ AdminEditLink \/ DeliverRenewal

LEMMA NextParts ==
  ASSUME [Next]_vars
  PROVE  \/ \E t \in Tasks : Begins(t) \/ CallPanel(t) \/ CallFails(t) \/ AnswerLost(t) \/ Write(t)
         \/ OnlyWrites \/ AskLink \/ AdminEditLinkGone
         \/ ReadList \/ Fetch \/ SendAlert \/ FlagAlert \/ Archive
         \/ Use \/ DayPasses \/ Crash \/ UNCHANGED vars
  <1>1. ASSUME NEW t \in Tasks,
               \/ ByBuyer(t) \/ ByAdmin(t)
               \/ DeleteConfigApply(t) \/ AdminServiceDisable(t) \/ AdminServiceEnable(t)
        PROVE  Begins(t)
    BY <1>1, Zenon DEF ByBuyer, ByAdmin, UserChangeSublink, UserDisableSublink, UserEnableSublink,
         ApiServiceDelete, FulfillCustomRenew, AdminRegenerateLink, AdminServiceRenew,
         DeleteConfigApply, AdminServiceDisable, AdminServiceEnable, Begins, Ops, Renewing
  <1>. QED BY <1>1 DEF Next, OnlyWrites

Called(r, op, link, until) ==
  [r EXCEPT !.at = "calling", !.op = op, !.link = link, !.until = until]

LEMMA TaskCalled ==
  ASSUME NEW r \in TaskType, NEW op \in Ops, NEW link \in Links \cup {None, Other}, NEW until \in Nat,
         NEW new, new = Called(r, op, link, until)
  PROVE  /\ new \in TaskType /\ new.at = "calling" /\ new.op = op /\ new.link = link
         /\ new.got = r.got
  BY DEF TaskType, Ops, Called

LEMMA TaskBegun ==
  ASSUME Types, NEW t \in Tasks, NEW op \in Ops, Begin(t, op)
  PROVE  /\ task' \in [Tasks -> TaskType]
         /\ task'[t].at = "calling" /\ task'[t].op = op /\ task'[t].got = None
         /\ op = "renewal" => task'[t].link = row.link
         /\ \A u \in Tasks \ {t} : task'[u] = task[u]
  <1>. DEFINE link == IF op = "renewal" THEN row.link ELSE None
              until == IF op \in {"link", "renewal"} THEN row.until ELSE 0
              new == Called(NoTask, op, link, until)
  <1>1. row.link \in Links \cup {Other} /\ row.until \in Nat BY DEF Types, RowType
  <1>2. NoTask \in TaskType /\ NoTask.got = None BY Constants DEF NoTask, TaskType
  <1>3. link \in Links \cup {None, Other} /\ until \in Nat /\ (op = "renewal" => link = row.link)
    BY <1>1
  <1>4. task' = [task EXCEPT ![t] = new] BY DEF Begin, Called
  <1>. HIDE DEF link, until, new
  <1>5. new = Called(NoTask, op, link, until) BY DEF new
  <1>6. new \in TaskType BY <1>2, <1>3, <1>5, TaskCalled
  <1>7. new.at = "calling" /\ new.op = op /\ new.link = link BY <1>2, <1>3, <1>5, TaskCalled
  <1>8. new.got = NoTask.got BY <1>2, <1>3, <1>5, TaskCalled
  <1>. QED BY <1>2, <1>3, <1>4, <1>6, <1>7, <1>8 DEF Types

LEMMA BeginTypes ==
  ASSUME Types, NEW t \in Tasks, NEW op \in Ops, Begin(t, op) PROVE Types'
  <1>1. task' \in [Tasks -> TaskType] BY TaskBegun
  <1>2. starts \in Nat /\ starts < MaxStarts /\ starts' = starts + 1 BY DEF Begin, Types
  <1>3. starts' \in 0..MaxStarts BY <1>2, Constants
  <1>4. alone' \subseteq Tasks BY DEF Begin
  <1>5. UNCHANGED <<row, service, today, scan, asked, told, excuse, missed, scans, trouble>>
    BY DEF Begin
  <1>. QED BY <1>1, <1>3, <1>4, <1>5 DEF Types

\* What the panel does to the service, and what a handler knows of it.
LEMMA PanelActs ==
  ASSUME Types, NEW t \in Tasks, CallPanel(t)
  PROVE  /\ task[t].at = "calling" /\ service.there
         /\ service' \in ServiceType /\ told' = told \cap (Due(service, today)')
         /\ task' \in [Tasks -> TaskType] /\ \A u \in Tasks \ {t} : task'[u] = task[u]
         /\ task'[t].at = "answered" /\ task'[t].op = task[t].op /\ task'[t].link = task[t].link
         /\ task[t].op \in Ops
         /\ UNCHANGED <<row, today, scan, asked, alone, excuse, missed, bounds>>
  <1>1. task[t] \in TaskType /\ task \in [Tasks -> TaskType] /\ service \in ServiceType
         /\ today \in Nat
    BY DEF Types
  <1>2. CASE PanelRegenerates(t)
    <2>1. service.link + 1 \in Links
      BY <1>1, <1>2, Constants DEF PanelRegenerates, ServiceType, Links
    <2>2. service' = [service EXCEPT !.link = @ + 1] BY <1>2 DEF PanelRegenerates, Serves
    <2>3. service' \in ServiceType BY <1>1, <2>1, <2>2 DEF ServiceType
    <2>. QED BY <1>1, <1>2, <2>1, <2>3 DEF CallPanel, PanelRegenerates, Serves, TaskType, Ops
  <1>3. CASE PanelSwitches(t)
    <2>1. service' = [service EXCEPT !.active = (task[t].op = "enable")]
      BY <1>3 DEF PanelSwitches, Serves
    <2>2. service' \in ServiceType BY <1>1, <2>1 DEF ServiceType
    <2>. QED BY <1>1, <1>3, <2>2 DEF CallPanel, PanelSwitches, Serves, TaskType, Ops
  <1>4. CASE PanelDeletes(t)
    <2>1. service' = IF service.kind = "shahrah" THEN [service EXCEPT !.active = FALSE]
                     ELSE [service EXCEPT !.there = FALSE]
      BY <1>4 DEF PanelDeletes, Serves
    <2>2. service' \in ServiceType BY <1>1, <2>1 DEF ServiceType
    <2>. QED BY <1>1, <1>4, <2>2 DEF CallPanel, PanelDeletes, Serves, TaskType, Ops
  <1>5. CASE PanelRenews(t)
    <2>1. PICK used \in Levels, until \in {service.until, today, today + 1} :
            \E link \in IF service.kind = "shahrah" /\ service.link < MaxLinks
                        THEN {None, service.link + 1} ELSE {None, service.link} :
              /\ Serves([service EXCEPT !.used = used, !.active = TRUE, !.until = until,
                                   !.link = IF link = None THEN @ ELSE link])
              /\ task' = [task EXCEPT ![t].at = "answered", ![t].got = link]
      BY <1>5 DEF PanelRenews
    <2>2. PICK link \in IF service.kind = "shahrah" /\ service.link < MaxLinks
                        THEN {None, service.link + 1} ELSE {None, service.link} :
              /\ Serves([service EXCEPT !.used = used, !.active = TRUE, !.until = until,
                                   !.link = IF link = None THEN @ ELSE link])
              /\ task' = [task EXCEPT ![t].at = "answered", ![t].got = link]
      BY <2>1
    <2>3. link \in Links \cup {None}
      BY <1>1, <2>2, Constants DEF ServiceType, Links
    <2>4. used \in Levels /\ until \in Nat BY <1>1, Constants DEF ServiceType
    <2>5. service' \in ServiceType BY <1>1, <2>2, <2>3, <2>4 DEF Serves, ServiceType
    <2>6. told' = told \cap Due(service', today) BY <2>2 DEF Serves
    <2>7. UNCHANGED <<row, today, scan, asked, alone, excuse, missed, bounds>> BY DEF CallPanel
    <2>8. task[t].op \in Renewing /\ task[t].at = "calling" /\ service.there
      BY <1>5 DEF PanelRenews, CallPanel
    <2>. QED BY <1>1, <2>2, <2>3, <2>5, <2>6, <2>7, <2>8 DEF TaskType, Ops
  <1>. QED BY <1>2, <1>3, <1>4, <1>5 DEF CallPanel

LEMMA TaskFinished ==
  ASSUME Types, NEW t \in Tasks, Finishes(t)
  PROVE  /\ task' \in [Tasks -> TaskType] /\ task'[t] = NoTask
         /\ \A u \in Tasks \ {t} : task'[u] = task[u]
         /\ alone' = alone \ {t} /\ alone' \subseteq Tasks
  <1>1. NoTask \in TaskType BY Constants DEF NoTask, TaskType
  <1>. QED BY <1>1 DEF Finishes, Types

\* The writes of the handlers.
LEMMA LinkWritten ==
  ASSUME Types, Filled, NEW t \in Tasks, Answered(t), WriteLink(t) \/ WriteRelink(t)
  PROVE  /\ row' \in RowType /\ row'.there = row.there
         /\ row.there => /\ row'.link = task[t].got /\ row'.disabled = FALSE
                         /\ row'.flags = row.flags \cap {"ended"}
  <1>1. task[t].got \in Links /\ task[t].until \in Nat /\ row \in RowType
    BY DEF Types, Filled, TaskType, WriteLink, WriteRelink, Linking
  <1>2. CASE WriteLink(t)
    <2>. DEFINE r == UpdateConfig(task[t].got, task[t].until)
    <2>1. /\ r \in RowType /\ r.there = row.there
          /\ row.there => r.link = task[t].got /\ r.flags = row.flags \cap {"ended"}
      BY <1>1, UpdatedRow
    <2>2. row' = [r EXCEPT !.disabled = FALSE] BY <1>2 DEF WriteLink
    <2>. HIDE DEF r
    <2>. QED BY <2>1, <2>2, WithSwitch
  <1>3. CASE WriteRelink(t)
    <2>. DEFINE r == UpdateConfigLink(task[t].got)
    <2>1. /\ r \in RowType /\ r.there = row.there
          /\ row.there => r.link = task[t].got /\ r.flags = row.flags \cap {"ended"}
      BY <1>1, UpdatedLink
    <2>2. row' = [r EXCEPT !.disabled = FALSE] BY <1>3 DEF WriteRelink
    <2>. HIDE DEF r
    <2>. QED BY <2>1, <2>2, WithSwitch
  <1>. QED BY <1>2, <1>3

LEMMA SwitchWritten ==
  ASSUME Types, NEW t \in Tasks, WriteSwitch(t)
  PROVE  /\ row' \in RowType /\ row'.there = row.there
         /\ row.there => /\ row'.link = row.link /\ row'.deleted = row.deleted
                         /\ row'.flags = row.flags /\ row'.disabled = (task[t].op = "disable")
  <1>1. (task[t].op = "disable") \in BOOLEAN /\ row \in RowType BY DEF Types
  <1>2. row' = Updated([row EXCEPT !.disabled = (task[t].op = "disable")]) BY DEF WriteSwitch
  <1>. QED BY <1>1, <1>2, UpdatedSwitch

LEMMA DeletedWritten ==
  ASSUME Types, NEW t \in Tasks, WriteDeleted(t)
  PROVE  /\ row' \in RowType /\ row'.there = row.there
         /\ row.there => /\ row'.link = row.link /\ row'.deleted = TRUE
                         /\ row'.flags = row.flags /\ row'.disabled = row.disabled
  BY UpdatedDeleted DEF WriteDeleted, Types

LEMMA RenewWritten ==
  ASSUME Types, Filled, NEW t \in Tasks, WriteRenew(t)
  PROVE  /\ row' \in RowType /\ row'.there = row.there
         /\ row.there => /\ row'.disabled = FALSE /\ row'.deleted = row.deleted
                         /\ row'.link = IF task[t].got = None THEN row.link ELSE task[t].got
                         /\ task[t].got # None => row'.flags = row.flags \cap {"ended"}
  <1>. DEFINE got == task[t].got
              r == IF got = None THEN row ELSE UpdateConfigLink(got)
  <1>1. got \in Links \cup {None} /\ row \in RowType BY DEF Types, TaskType
  <1>2. row' = [r EXCEPT !.disabled = FALSE] BY DEF WriteRenew
  <1>. HIDE DEF got
  <1>3. /\ r \in RowType /\ r.there = row.there
        /\ row.there => /\ r.link = IF got = None THEN row.link ELSE got
                        /\ r.deleted = row.deleted
                        /\ got # None => r.flags = row.flags \cap {"ended"}
    <2>1. CASE got = None BY <1>1, <2>1
    <2>2. CASE got # None BY <1>1, <2>2, UpdatedLink
    <2>. QED BY <2>1, <2>2
  <1>. HIDE DEF r
  <1>. QED BY <1>2, <1>3, WithSwitch DEF got

LEMMA RenewalWritten ==
  ASSUME Types, Filled, NEW t \in Tasks, Answered(t), WriteRenewal(t)
  PROVE  /\ row' \in RowType /\ row'.there = row.there
         /\ row.there => /\ row'.link = Stored(t) /\ row'.disabled = row.disabled
                         /\ row'.flags = row.flags \cap {"ended"}
  <1>1. Stored(t) \in Links \cup {Other}
    BY DEF Stored, Types, TaskType, Filled, Answered, WriteRenewal
  <1>2. PICK until \in {service.until, task[t].until} : row' = UpdateConfig(Stored(t), until)
    BY DEF WriteRenewal
  <1>3. until \in Nat /\ row \in RowType BY DEF Types, ServiceType, TaskType
  <1>. QED BY <1>1, <1>2, <1>3, UpdatedRow

LEMMA SettledType ==
  ASSUME Types, NEW t, NEW why \in SUBSET {"typed", "restored", "unswitched"}
  PROVE  Settled(t, why) \in ExcuseType
  BY DEF Settled, ExcuseType

LEMMA ExcuseWritten ==
  ASSUME Types, NEW t \in Tasks, Write(t)
  PROVE  excuse' \in ExcuseType
  <1>1. excuse # Overtaken => excuse \in SUBSET {"typed", "restored", "unswitched"}
    BY DEF Types, ExcuseType
  <1>2. CASE WriteLink(t) \/ WriteRelink(t) BY <1>2, SettledType DEF WriteLink, WriteRelink
  <1>3. ASSUME NEW why, excuse' = Settled(t, why),
               excuse # Overtaken => why \in SUBSET {"typed", "restored", "unswitched"}
        PROVE  excuse' \in ExcuseType
    BY <1>3 DEF Settled, ExcuseType
  <1>4. CASE WriteSwitch(t) BY <1>1, <1>3, <1>4 DEF WriteSwitch
  <1>5. CASE WriteDeleted(t) BY <1>1, <1>3, <1>5 DEF WriteDeleted
  <1>6. CASE WriteRenew(t) BY <1>1, <1>3, <1>6 DEF WriteRenew
  <1>7. CASE WriteRenewal(t) BY <1>1, <1>3, <1>7 DEF WriteRenewal
  <1>. QED BY <1>2, <1>4, <1>5, <1>6, <1>7 DEF Write

LEMMA WriteTypes ==
  ASSUME Types, Filled, NEW t \in Tasks, Write(t) PROVE Types'
  <1>1. row' \in RowType
    BY LinkWritten, SwitchWritten, DeletedWritten, RenewWritten, RenewalWritten DEF Write, Answered
  <1>2. excuse' \in ExcuseType BY ExcuseWritten
  <1>3. missed' \in BOOLEAN
    <2>1. missed \in BOOLEAN BY DEF Types
    <2>2. Unread \in BOOLEAN BY DEF Unread
    <2>3. CASE WriteRenew(t)
      <3>1. missed' = (Unread \/ task[t].got = None) BY <2>3, Zenon DEF WriteRenew
      <3>. QED BY <3>1
    <2>4. CASE WriteRenewal(t)
      <3>1. missed' = Unread BY <2>4, Zenon DEF WriteRenewal
      <3>. QED BY <2>2, <3>1
    <2>5. CASE WriteLink(t) \/ WriteRelink(t) \/ WriteSwitch(t) \/ WriteDeleted(t)
      <3>1. missed' = missed BY <2>5, Zenon DEF WriteLink, WriteRelink, WriteSwitch, WriteDeleted
      <3>. QED BY <2>1, <3>1
    <2>. QED BY <2>3, <2>4, <2>5 DEF Write
  <1>4. task' \in [Tasks -> TaskType] /\ alone' \subseteq Tasks BY TaskFinished DEF Write
  <1>5. UNCHANGED <<service, today, scan, asked, told, bounds>> BY DEF Write
  <1>. QED BY <1>1, <1>2, <1>3, <1>4, <1>5 DEF Types, bounds

\* The writes of the other handlers: what becomes of the row, and which excuse it gives.
LEMMA OnlyWritten ==
  ASSUME Types, OnlyWrites
  PROVE  /\ row.there /\ row' \in RowType /\ excuse' \in ExcuseType
         /\ UNCHANGED <<service, today, task, scan, told, alone, missed, scans, trouble>>
         /\ asked' \in BOOLEAN /\ starts' \in 0..MaxStarts
         /\ excuse = Overtaken => excuse' = Overtaken
         /\ excuse # Overtaken => excuse \subseteq excuse' /\ excuse' # Overtaken
         /\ row'.there =>
              /\ row'.flags \in {row.flags, row.flags \cap {"ended"}}
              /\ row'.link # row.link /\ excuse # Overtaken
                   => row'.link = service.link \/ "typed" \in excuse'
              /\ row'.disabled # row.disabled /\ excuse # Overtaken => "unswitched" \in excuse'
              /\ row.deleted /\ ~row'.deleted /\ excuse # Overtaken => "restored" \in excuse'
  <1>0. /\ row \in RowType /\ service.link \in Links /\ today + 1 \in Nat
        /\ asked \in BOOLEAN /\ starts \in 0..MaxStarts /\ excuse \in ExcuseType
    BY DEF Types, ServiceType
  <1>1. ASSUME NEW r, NEW why \in SUBSET {"typed", "restored", "unswitched"}, Writes(r, why)
        PROVE  /\ row.there /\ row' = r /\ excuse' \in ExcuseType
               /\ UNCHANGED <<service, today, task, scan, told, alone, missed, scans, trouble>>
               /\ excuse = Overtaken => excuse' = Overtaken
               /\ excuse # Overtaken => /\ excuse \subseteq excuse' /\ why \subseteq excuse'
                                        /\ excuse' # Overtaken
    BY <1>0, <1>1 DEF Writes, ExcuseType, Overtaken
  <1>2. CASE AdminServiceDelete
    <2>1. Writes(SetConfigDeleted(TRUE), {}) /\ UNCHANGED <<asked, starts>>
      BY <1>2 DEF AdminServiceDelete
    <2>. QED BY <1>0, <1>1, <2>1, UpdatedDeleted
  <1>3. CASE AdminServiceRestore
    <2>1. Writes(SetConfigDeleted(FALSE), {"restored"}) /\ UNCHANGED <<asked, starts>>
      BY <1>3 DEF AdminServiceRestore
    <2>. QED BY <1>0, <1>1, <2>1, UpdatedDeleted
  <1>4. CASE AdminServicePurge
    <2>. DEFINE gone == [there |-> FALSE, deleted |-> TRUE, link |-> Other, disabled |-> FALSE,
                         flags |-> {}, until |-> 0]
    <2>1. Writes(gone, {}) /\ UNCHANGED <<asked, starts>> BY <1>4 DEF AdminServicePurge
    <2>2. gone \in RowType /\ gone.there = FALSE BY DEF RowType
    <2>. QED BY <1>0, <1>1, <2>1, <2>2
  <1>5. CASE AdminEditLink
    <2>1. PICK link \in {service.link, Other} :
            Writes([UpdateConfigLink(link) EXCEPT !.disabled = FALSE], {"typed", "unswitched"})
      BY <1>5 DEF AdminEditLink
    <2>. DEFINE r == UpdateConfigLink(link)
    <2>2. /\ r \in RowType /\ r.there = row.there
          /\ row.there => /\ r.link = link /\ r.deleted = row.deleted
                          /\ r.flags = row.flags \cap {"ended"}
      BY <1>0, UpdatedLink
    <2>. DEFINE s == [r EXCEPT !.disabled = FALSE]
    <2>3. /\ s \in RowType /\ s.there = r.there /\ s.link = r.link /\ s.deleted = r.deleted
          /\ s.flags = r.flags
      <3>. HIDE DEF r
      <3>. QED BY <2>2, WithSwitch
    <2>4. Writes(s, {"typed", "unswitched"}) BY <2>1
    <2>5. asked' \in BOOLEAN /\ starts' = starts BY <1>5 DEF AdminEditLink
    <2>. HIDE DEF r, s
    <2>. QED BY <1>0, <1>1, <2>2, <2>3, <2>4, <2>5
  <1>6. CASE DeliverRenewal
    <2>1. PICK link \in {service.link, Other} :
            Writes(UpdateConfig(link, today + 1), {"typed", "restored"})
      BY <1>6 DEF DeliverRenewal
    <2>. DEFINE r == UpdateConfig(link, today + 1)
    <2>2. /\ r \in RowType /\ r.there = row.there
          /\ row.there => /\ r.link = link /\ ~r.deleted /\ r.disabled = row.disabled
                          /\ r.flags = row.flags \cap {"ended"}
      BY <1>0, UpdatedRow
    <2>3. Writes(r, {"typed", "restored"}) BY <2>1
    <2>4. asked' \in BOOLEAN BY <1>0, <1>6 DEF DeliverRenewal
    <2>5. starts' \in 0..MaxStarts BY <1>0, <1>6, Constants DEF DeliverRenewal
    <2>. HIDE DEF r
    <2>. QED BY <1>0, <1>1, <2>2, <2>3, <2>4, <2>5
  <1>. QED BY <1>2, <1>3, <1>4, <1>5, <1>6 DEF OnlyWrites

LEMMA ScanTypes ==
  ASSUME Types, ReadList \/ Fetch \/ SendAlert \/ FlagAlert \/ Archive PROVE Types'
  <1>. USE DEF Types
  <1>1. ASSUME NEW todo \in SUBSET Alerts, ScanGoes(todo) PROVE scan' \in ScanType
    BY <1>1, Constants DEF ScanGoes, NoScan, ScanType
  <1>2. NoScan \in ScanType BY Constants DEF NoScan, ScanType
  <1>3. CASE ReadList
    <2>1. row.link \in Links \cup {Other} /\ row.flags \in SUBSET Alerts BY DEF RowType
    <2>2. scan' \in ScanType BY <1>3, <2>1, Constants DEF ReadList, NoScan, ScanType
    <2>3. scans' \in 0..MaxScans BY <1>3, Constants DEF ReadList
    <2>. QED BY <1>3, <2>2, <2>3 DEF ReadList
  <1>4. CASE Fetch
    <2>1. Due(service, today) \in SUBSET Alerts BY DEF Due
    <2>2. ToSend(Due(service, today), scan.flags) \in SUBSET Alerts BY <2>1 DEF ToSend
    <2>3. scan' \in ScanType BY <1>1, <1>4, <2>2 DEF Fetch
    <2>. QED BY <1>4, <2>3 DEF Fetch, bounds
  <1>5. CASE SendAlert
    <2>1. PICK a \in scan.todo :
            /\ told' = told \cup (Next80(a) \cap Due(service, today))
            /\ scan' = [scan EXCEPT !.at = "flag", !.flags = {a}]
      BY <1>5 DEF SendAlert
    <2>2. a \in Alerts BY DEF ScanType
    <2>3. scan' \in ScanType BY <2>1, <2>2 DEF ScanType
    <2>4. told' \subseteq Alerts BY <2>1 DEF Due
    <2>. QED BY <1>5, <2>3, <2>4 DEF SendAlert, bounds
  <1>6. CASE FlagAlert
    <2>. DEFINE flags == UNION {Next80(a) : a \in scan.flags}
    <2>1. flags \in SUBSET Alerts BY DEF ScanType, Next80, Alerts
    <2>2. row' = SetConfigAlertSent(flags) BY <1>6 DEF FlagAlert
    <2>. HIDE DEF flags
    <2>3. row' \in RowType BY <2>1, <2>2, UpdatedFlags
    <2>4. scan.todo \ scan.flags \in SUBSET Alerts BY DEF ScanType
    <2>5. scan' \in ScanType BY <1>1, <1>6, <2>4 DEF FlagAlert
    <2>. QED BY <1>6, <2>3, <2>5 DEF FlagAlert, bounds
  <1>7. CASE Archive
    <2>1. row' \in RowType BY <1>7, UpdatedDeleted DEF Archive
    <2>. QED BY <1>2, <1>7, <2>1 DEF Archive, bounds
  <1>. QED BY <1>3, <1>4, <1>5, <1>6, <1>7

LEMMA CrashTypes ==
  ASSUME Types, Crash PROVE Types'
  <1>1. NoTask \in TaskType /\ NoScan \in ScanType BY Constants DEF NoTask, TaskType, NoScan, ScanType
  <1>2. task' = [t \in Tasks |-> NoTask] /\ alone' = {} /\ scan' = NoScan BY DEF Crash
  <1>3. excuse' \in {excuse, Overtaken} BY DEF Crash
  <1>4. missed' \in BOOLEAN
    <2>1. missed' = (missed \/ \E t \in Tasks : task[t].at = "answered" /\ task[t].op \in Renewing)
      BY Zenon DEF Crash
    <2>. QED BY <2>1
  <1>5. trouble' \in 0..MaxTrouble BY Constants DEF Crash, Types
  <1>6. UNCHANGED <<service, today, asked, told, starts, scans>> BY DEF Crash
  <1>7. row' \in RowType BY CrashRow DEF Types
  <1>. QED BY <1>1, <1>2, <1>3, <1>4, <1>5, <1>6, <1>7 DEF Types, ExcuseType

LEMMA AnswerLostTypes ==
  ASSUME Types, NEW t \in Tasks, AnswerLost(t) PROVE Types'
  <1>1. task' \in [Tasks -> TaskType] /\ alone' \subseteq Tasks BY TaskFinished DEF AnswerLost
  <1>2. missed' \in BOOLEAN
    <2>1. missed' = (missed \/ task[t].op \in Renewing) BY Zenon DEF AnswerLost
    <2>. QED BY <2>1
  <1>3. trouble' \in 0..MaxTrouble BY Constants DEF AnswerLost, Types
  <1>4. excuse' \in ExcuseType BY DEF AnswerLost, ExcuseType
  <1>5. UNCHANGED <<row, service, today, scan, asked, told, starts, scans>> BY DEF AnswerLost
  <1>. QED BY <1>1, <1>2, <1>3, <1>4, <1>5 DEF Types

LEMMA TypesStep == ASSUME Types, Filled, [Next]_vars PROVE Types'
  <1>1. ASSUME NEW t \in Tasks, Begins(t) PROVE Types' BY <1>1, BeginTypes DEF Begins
  <1>2. ASSUME NEW t \in Tasks, CallPanel(t) PROVE Types'
    <2>1. told' \subseteq Alerts BY <1>2, PanelActs DEF Types
    <2>. QED BY <1>2, <2>1, PanelActs DEF Types, bounds
  <1>3. ASSUME NEW t \in Tasks, CallFails(t) PROVE Types'
    BY <1>3, TaskFinished DEF CallFails, Types, bounds
  <1>4. CASE OnlyWrites BY <1>4, OnlyWritten DEF Types
  <1>5. CASE AskLink BY <1>5, Constants DEF AskLink, Types
  <1>6. CASE AdminEditLinkGone BY <1>6 DEF AdminEditLinkGone, Types, bounds
  <1>7. CASE Use
    <2>1. PICK used \in Levels : Serves([service EXCEPT !.used = used]) BY <1>7 DEF Use
    <2>2. service' \in ServiceType BY <2>1 DEF Serves, Types, ServiceType
    <2>3. told' \subseteq Alerts BY <2>1 DEF Serves, Types
    <2>. QED BY <1>7, <2>2, <2>3 DEF Use, Types, bounds
  <1>8. CASE DayPasses
    <2>1. today' \in 0..MaxDays BY <1>8, Constants DEF DayPasses, Types
    <2>. QED BY <1>8, <2>1 DEF DayPasses, Types, bounds
  <1>9. CASE UNCHANGED vars BY <1>9 DEF vars, bounds, Types
  <1>. QED BY <1>1, <1>2, <1>3, <1>4, <1>5, <1>6, <1>7, <1>8, <1>9, NextParts,
              WriteTypes, AnswerLostTypes, CrashTypes, ScanTypes

\* Nothing but the tasks matters to Filled.
LEMMA FilledStep == ASSUME Types, Filled, [Next]_vars PROVE Filled'
  <1>. DEFINE Full(r) ==
         /\ r.at = "answered" => r.op \in Linking \cup Switching \cup Renewing \cup {"delete"}
         /\ r.at = "answered" /\ r.op \in Linking => r.got \in Links
         /\ r.at # "idle" /\ r.op = "renewal" => r.link # None
  <1>1. \A u \in Tasks : Full(task[u]) BY DEF Filled, Answered
  <1>2. Full(NoTask) BY DEF NoTask
  <1>3. (\A u \in Tasks : Full(task'[u])) => Filled' BY DEF Filled, Answered
  <1>4. ASSUME NEW t \in Tasks, \A u \in Tasks \ {t} : task'[u] = task[u], Full(task'[t])
        PROVE  Filled'
    <2>. HIDE DEF Full
    <2>. QED BY <1>1, <1>3, <1>4
  <1>5. ASSUME task' = task PROVE Filled'
    <2>. HIDE DEF Full
    <2>. QED BY <1>1, <1>3, <1>5
  <1>6. ASSUME NEW t \in Tasks, Begins(t) PROVE Filled'
    <2>1. PICK op \in Ops : Begin(t, op) BY <1>6 DEF Begins
    <2>2. row.link # None BY Constants DEF Types, RowType
    <2>3. Full(task'[t]) BY <2>1, <2>2, TaskBegun
    <2>. QED BY <1>4, <2>1, <2>3, TaskBegun
  <1>7. ASSUME NEW t \in Tasks, CallPanel(t) PROVE Filled'
    <2>1. task[t].op \in Ops /\ task'[t].at = "answered" /\ task'[t].op = task[t].op
          /\ task'[t].link = task[t].link /\ task[t].at = "calling"
          /\ \A u \in Tasks \ {t} : task'[u] = task[u]
      BY <1>7, PanelActs
    <2>2. task[t].op \in Linking => task'[t].got \in Links
      <3>. SUFFICES ASSUME task[t].op \in Linking PROVE task'[t].got \in Links
        OBVIOUS
      <3>1. PanelRegenerates(t)
        BY <1>7 DEF CallPanel, PanelSwitches, PanelDeletes, PanelRenews, Linking, Renewing
      <3>2. service.link \in Links /\ task[t] \in TaskType BY DEF Types, ServiceType
      <3>3. service.link + 1 \in Links BY <3>1, <3>2, Constants DEF PanelRegenerates, Links
      <3>4. task'[t].got = service.link + 1 BY <3>1 DEF PanelRegenerates, Types, TaskType
      <3>. QED BY <3>3, <3>4
    <2>3. Full(task[t]) BY <1>1
    <2>4. Full(task'[t]) BY <2>1, <2>2, <2>3 DEF Ops, Linking, Switching
    <2>. QED BY <1>4, <2>1, <2>4
  <1>8. ASSUME NEW t \in Tasks, CallFails(t) \/ AnswerLost(t) \/ Write(t) PROVE Filled'
    <2>1. Finishes(t) BY <1>8 DEF CallFails, AnswerLost, Write
    <2>. QED BY <1>2, <1>4, <2>1, TaskFinished
  <1>9. ASSUME Crash PROVE Filled'
    <2>1. \A u \in Tasks : task'[u] = NoTask BY <1>9 DEF Crash
    <2>. HIDE DEF Full
    <2>. QED BY <1>2, <1>3, <2>1
  <1>10. CASE OnlyWrites BY <1>5, <1>10, OnlyWritten
  <1>11. CASE \/ AskLink \/ AdminEditLinkGone \/ ReadList \/ Fetch \/ SendAlert \/ FlagAlert
              \/ Archive \/ Use \/ DayPasses \/ UNCHANGED vars
    BY <1>5, <1>11 DEF AskLink, AdminEditLinkGone, ReadList, Fetch, SendAlert, FlagAlert,
         Archive, Use, DayPasses, vars
  <1>. HIDE DEF Full
  <1>. QED BY <1>6, <1>7, <1>8, <1>9, <1>10, <1>11, NextParts

---------------------------------------------------------------------------
\* The row follows the panel

\* A step that begins and ends no handler, leaves the panel and gives its excuse.
LEMMA FollowedKept ==
  ASSUME Followed, task' = task, alone' = alone,
         service'.link = service.link, service'.there = service.there,
         service'.active = service.active,
         excuse' # Overtaken =>
           /\ excuse # Overtaken /\ excuse \subseteq excuse'
           /\ row'.there =>
                /\ row.there
                /\ row'.link # row.link => row'.link = service.link \/ "typed" \in excuse'
                /\ row'.disabled # row.disabled => "unswitched" \in excuse'
                /\ row.deleted /\ ~row'.deleted => "restored" \in excuse'
  PROVE  Followed'
  <1>1. AloneBusy' BY DEF Followed, AloneBusy, Busy
  <1>. SUFFICES ASSUME excuse' # Overtaken
                PROVE  /\ (\A t \in Tasks : ~Answered(t)') => Agreed'
                       /\ \A t \in alone' : Prepared(t)'
    BY <1>1 DEF Followed
  <1>2. ASSUME row'.there, LinkAgrees PROVE LinkAgrees' BY <1>2 DEF LinkAgrees
  <1>3. ASSUME row'.there, SwitchAgrees PROVE SwitchAgrees' BY <1>3 DEF SwitchAgrees
  <1>4. ASSUME row'.there, ~row'.deleted, ~row.deleted => Standing PROVE Standing'
    BY <1>4 DEF Standing
  <1>5. Agreed => Agreed' BY <1>2, <1>3, <1>4 DEF Agreed
  <1>6. (\A t \in Tasks : ~Answered(t)') => (\A t \in Tasks : ~Answered(t)) BY DEF Answered
  <1>7. ASSUME NEW t \in alone PROVE Prepared(t)'
    <2>1. Prepared(t) BY <1>7 DEF Followed
    <2>2. task'[t] = task[t] OBVIOUS
    <2>3. "typed" \in excuse => "typed" \in excuse' OBVIOUS
    <2>4. (row.there => LinkAgrees) => (row'.there => LinkAgrees') BY <1>2
    <2>. HIDE DEF LinkAgrees
    <2>. QED BY <2>1, <2>2, <2>3, <2>4 DEF Prepared, Answered
  <1>. QED BY <1>5, <1>6, <1>7 DEF Followed

LEMMA BeginFollowed ==
  ASSUME Types, Followed, NEW t \in Tasks, NEW op \in Ops, Begin(t, op) PROVE Followed'
  <1>1. /\ task'[t].at = "calling" /\ task'[t].op = op /\ (op = "renewal" => task'[t].link = row.link)
        /\ \A u \in Tasks \ {t} : task'[u] = task[u]
    BY TaskBegun
  <1>2. /\ t \notin Busy /\ row.there /\ alone' = IF Busy = {} THEN {t} ELSE {}
        /\ row' = row /\ service' = service /\ excuse' = excuse
    BY DEF Begin
  <1>3. AloneBusy'
    <2>1. Busy' = Busy \cup {t} BY <1>1 DEF Busy
    <2>. QED BY <1>2, <2>1 DEF AloneBusy
  <1>4. ASSUME \A u \in Tasks : ~Answered(u)' PROVE \A u \in Tasks : ~Answered(u)
    <2>1. ~Answered(t) BY <1>2 DEF Busy, Answered
    <2>. QED BY <1>1, <1>4, <2>1 DEF Answered
  <1>5. Agreed => Agreed' BY <1>2 DEF Agreed, LinkAgrees, SwitchAgrees, Standing
  <1>6. ASSUME excuse # Overtaken, NEW u \in alone' PROVE Prepared(u)'
    <2>1. u = t /\ Busy = {} BY <1>2, <1>6
    <2>2. \A v \in Tasks : ~Answered(v) BY <2>1 DEF Busy, Answered
    <2>3. LinkAgrees BY <1>2, <1>6, <2>2 DEF Followed, Agreed
    <2>. QED BY <1>1, <1>2, <2>1, <2>3 DEF Prepared, Answered, LinkAgrees
  <1>. QED BY <1>2, <1>3, <1>4, <1>5, <1>6 DEF Followed

\* What the panel has done for a handler that is alone.
LEMMA PanelFollowed ==
  ASSUME Types, Filled, Followed, NEW t \in Tasks, CallPanel(t) PROVE Followed'
  <1>1. /\ task[t].at = "calling" /\ service.there
        /\ service' \in ServiceType /\ \A u \in Tasks \ {t} : task'[u] = task[u]
        /\ task'[t].at = "answered" /\ task'[t].op = task[t].op /\ task'[t].link = task[t].link
        /\ UNCHANGED <<row, alone, excuse>>
    BY PanelActs
  <1>2. Busy' = Busy /\ t \in Busy BY <1>1 DEF Busy
  <1>3. AloneBusy' BY <1>1, <1>2 DEF Followed, AloneBusy
  <1>4. Answered(t)' BY <1>1 DEF Answered
  <1>. SUFFICES ASSUME excuse # Overtaken, NEW u \in alone PROVE Prepared(u)'
    BY <1>1, <1>3, <1>4 DEF Followed
  <1>5. u = t /\ Busy = {t} BY <1>2 DEF Followed, AloneBusy
  <1>6. \A v \in Tasks : ~Answered(v) BY <1>1, <1>5 DEF Busy, Answered
  <1>7. Agreed /\ Prepared(t) BY <1>5, <1>6 DEF Followed
  <1>8. task[t] \in TaskType /\ task \in [Tasks -> TaskType] /\ service \in ServiceType
    BY DEF Types
  <1>9. CASE PanelRegenerates(t)
    <2>1. task[t].op \in {"link", "relink"} /\ service' = [service EXCEPT !.link = @ + 1]
          /\ task' = [task EXCEPT ![t].at = "answered", ![t].got = service.link + 1]
      BY <1>9 DEF PanelRegenerates, Serves
    <2>2. service'.link = service.link + 1 /\ service'.there /\ task'[t].got = service.link + 1
      BY <1>1, <1>8, <2>1 DEF ServiceType, TaskType
    <2>. QED BY <1>1, <1>5, <2>1, <2>2 DEF Prepared, Answered, Linking, Switching, Renewing
  <1>10. CASE PanelSwitches(t)
    <2>1. task[t].op \in Switching /\ service' = [service EXCEPT !.active = (task[t].op = "enable")]
      BY <1>10 DEF PanelSwitches, Serves, Switching
    <2>2. service'.there = service.there /\ service'.link = service.link
          /\ service'.active = (task[t].op = "enable")
      BY <1>8, <2>1 DEF ServiceType
    <2>3. row.there => LinkAgrees' BY <1>1, <1>7, <2>2 DEF Agreed, LinkAgrees
    <2>. QED BY <1>1, <1>5, <2>1, <2>2, <2>3 DEF Prepared, Answered, Linking, Switching, Renewing
  <1>11. CASE PanelDeletes(t)
    <2>1. task[t].op = "delete"
          /\ service' = IF service.kind = "shahrah" THEN [service EXCEPT !.active = FALSE]
                        ELSE [service EXCEPT !.there = FALSE]
      BY <1>11 DEF PanelDeletes, Serves
    <2>2. service'.link = service.link /\ (~service.there => ~service'.there)
      BY <1>8, <2>1 DEF ServiceType
    <2>3. row.there => LinkAgrees' BY <1>1, <1>7, <2>2 DEF Agreed, LinkAgrees
    <2>. QED BY <1>1, <1>5, <2>1, <2>3 DEF Prepared, Answered, Linking, Switching, Renewing
  <1>12. CASE PanelRenews(t)
    <2>1. PICK used \in Levels, until \in {service.until, today, today + 1} :
            \E link \in IF service.kind = "shahrah" /\ service.link < MaxLinks
                        THEN {None, service.link + 1} ELSE {None, service.link} :
              /\ Serves([service EXCEPT !.used = used, !.active = TRUE, !.until = until,
                                   !.link = IF link = None THEN @ ELSE link])
              /\ task' = [task EXCEPT ![t].at = "answered", ![t].got = link]
      BY <1>12 DEF PanelRenews
    <2>2. PICK link \in IF service.kind = "shahrah" /\ service.link < MaxLinks
                        THEN {None, service.link + 1} ELSE {None, service.link} :
              /\ Serves([service EXCEPT !.used = used, !.active = TRUE, !.until = until,
                                   !.link = IF link = None THEN @ ELSE link])
              /\ task' = [task EXCEPT ![t].at = "answered", ![t].got = link]
      BY <2>1
    <2>3. task[t].op \in Renewing BY <1>12 DEF PanelRenews
    <2>4. /\ service'.there = service.there /\ service'.active
          /\ service'.link = IF link = None THEN service.link ELSE link
          /\ task'[t].got = link
      BY <1>8, <2>2 DEF Serves, ServiceType, TaskType
    <2>5. ASSUME link = None, row.there PROVE LinkAgrees'
      BY <1>1, <1>7, <2>4, <2>5 DEF Agreed, LinkAgrees
    <2>6. ASSUME task[t].op = "renewal", link = None
          PROVE  task[t].link = service'.link \/ "typed" \in excuse \/ ~service'.there
      BY <1>1, <1>7, <2>4, <2>6 DEF Prepared, Answered
    <2>. QED BY <1>1, <1>5, <2>3, <2>4, <2>5, <2>6
             DEF Prepared, Answered, Linking, Switching, Renewing
  <1>. QED BY <1>9, <1>10, <1>11, <1>12 DEF CallPanel

\* What a handler that was alone writes agrees with the panel.
LEMMA WriteFollowed ==
  ASSUME Types, Filled, Followed, NEW t \in Tasks, Write(t) PROVE Followed'
  <1>1. /\ task[t].at = "answered" /\ Finishes(t)
        /\ UNCHANGED <<service, today, scan, asked, told, bounds>>
    BY DEF Write
  <1>2. \A u \in Tasks \ {t} : task'[u] = task[u] BY <1>1, TaskFinished
  <1>3. alone' = {}
    <2>1. t \in Busy /\ alone' = alone \ {t} BY <1>1 DEF Busy, Finishes
    <2>. QED BY <2>1 DEF Followed, AloneBusy
  <1>. SUFFICES ASSUME excuse' # Overtaken PROVE Agreed'
    BY <1>3 DEF Followed, AloneBusy
  <1>4. t \in alone /\ excuse # Overtaken
    BY DEF Write, WriteLink, WriteRelink, WriteSwitch, WriteDeleted, WriteRenew, WriteRenewal, Settled
  <1>5. Prepared(t) /\ Answered(t) BY <1>1, <1>4 DEF Followed, Answered
  <1>6. ASSUME NEW why, excuse' = Settled(t, why) PROVE excuse' = why BY <1>4, <1>6 DEF Settled
  <1>. SUFFICES ASSUME row'.there PROVE LinkAgrees' /\ SwitchAgrees' /\ (~row'.deleted => Standing')
    BY DEF Agreed
  <1>7. CASE WriteLink(t) \/ WriteRelink(t)
    <2>1. /\ task[t].op \in Linking
          /\ excuse' = Settled(t, IF service.active THEN {} ELSE {"unswitched"})
      BY <1>7 DEF WriteLink, WriteRelink, Linking
    <2>2. service.there /\ task[t].got = service.link
      BY <1>5, <2>1 DEF Prepared, Linking
    <2>3. row'.link = task[t].got /\ row'.disabled = FALSE BY <1>5, <1>7, LinkWritten
    <2>4. ~service.active => "unswitched" \in excuse' BY <1>6, <2>1
    <2>. QED BY <1>1, <2>2, <2>3, <2>4 DEF LinkAgrees, SwitchAgrees, Standing
  <1>8. CASE WriteSwitch(t)
    <2>1. task[t].op \in Switching /\ excuse' = excuse \ {"unswitched"}
      BY <1>6, <1>8 DEF WriteSwitch, Switching
    <2>2. row.there /\ row'.link = row.link /\ row'.disabled = (task[t].op = "disable")
      BY <1>8, SwitchWritten
    <2>3. service.there /\ service.active = (task[t].op = "enable") /\ LinkAgrees
      BY <1>5, <2>1, <2>2 DEF Prepared, Switching
    <2>4. LinkAgrees' BY <1>1, <2>1, <2>2, <2>3 DEF LinkAgrees
    <2>5. row'.disabled # service.active BY <2>1, <2>2, <2>3 DEF Switching
    <2>. QED BY <1>1, <2>3, <2>4, <2>5 DEF SwitchAgrees, Standing
  <1>9. CASE WriteDeleted(t)
    <2>1. task[t].op = "delete" /\ excuse' = excuse \cup {"unswitched"}
      BY <1>6, <1>9 DEF WriteDeleted
    <2>2. row.there /\ row'.link = row.link /\ row'.deleted = TRUE BY <1>9, DeletedWritten
    <2>3. LinkAgrees BY <1>5, <2>1, <2>2 DEF Prepared
    <2>. QED BY <1>1, <2>1, <2>2, <2>3 DEF LinkAgrees, SwitchAgrees
  <1>10. CASE WriteRenew(t)
    <2>1. task[t].op = "renew" /\ excuse' = excuse BY <1>6, <1>10 DEF WriteRenew
    <2>2. /\ row.there /\ row'.disabled = FALSE
          /\ row'.link = IF task[t].got = None THEN row.link ELSE task[t].got
      BY <1>10, RenewWritten
    <2>3. /\ service.there /\ service.active /\ task[t].got \in {None, service.link}
          /\ task[t].got = None => LinkAgrees
      BY <1>5, <2>1, <2>2 DEF Prepared, Renewing
    <2>4. LinkAgrees' BY <1>1, <2>1, <2>2, <2>3 DEF LinkAgrees
    <2>. QED BY <1>1, <2>2, <2>3, <2>4 DEF SwitchAgrees, Standing
  <1>11. CASE WriteRenewal(t)
    <2>1. task[t].op = "renewal" /\ excuse' = excuse \cup {"unswitched"}
      BY <1>6, <1>11 DEF WriteRenewal
    <2>2. row'.link = Stored(t) BY <1>5, <1>11, RenewalWritten
    <2>3. /\ service.there /\ task[t].got \in {None, service.link}
          /\ task[t].got = None => task[t].link = service.link \/ "typed" \in excuse
      BY <1>5, <2>1 DEF Prepared, Renewing
    <2>. QED BY <1>1, <2>1, <2>2, <2>3 DEF LinkAgrees, SwitchAgrees, Standing, Stored
  <1>. QED BY <1>7, <1>8, <1>9, <1>10, <1>11 DEF Write

LEMMA FollowedStep == ASSUME Types, Filled, Followed, [Next]_vars PROVE Followed'
  <1>1. ASSUME NEW t \in Tasks, Begins(t) PROVE Followed' BY <1>1, BeginFollowed DEF Begins
  <1>2. ASSUME NEW t \in Tasks, CallFails(t) \/ AnswerLost(t) PROVE Followed'
    <2>1. task[t].at # "idle" /\ Finishes(t) /\ row' = row /\ service' = service
      BY <1>2 DEF CallFails, AnswerLost
    <2>2. alone' = {}
      <3>1. t \in Busy /\ alone' = alone \ {t} BY <2>1 DEF Busy, Finishes
      <3>. QED BY <3>1 DEF Followed, AloneBusy
    <2>3. CASE AnswerLost(t) BY <2>2, <2>3 DEF AnswerLost, Followed, AloneBusy
    <2>4. CASE CallFails(t)
      <3>1. ~Answered(t) /\ \A u \in Tasks \ {t} : task'[u] = task[u]
        BY <2>1, <2>4, TaskFinished DEF CallFails, Answered
      <3>2. (\A u \in Tasks : ~Answered(u)') => (\A u \in Tasks : ~Answered(u))
        BY <3>1 DEF Answered
      <3>3. excuse' = excuse BY <2>4 DEF CallFails
      <3>4. Agreed => Agreed' BY <2>1, <3>3 DEF Agreed, LinkAgrees, SwitchAgrees, Standing
      <3>. QED BY <2>2, <3>2, <3>3, <3>4 DEF Followed, AloneBusy
    <2>. QED BY <1>2, <2>3, <2>4
  <1>3. CASE Crash
    <2>1. /\ alone' = {} /\ service' = service /\ row'.there = row.there
          /\ row.there => /\ row'.link = row.link /\ row'.deleted = row.deleted
                          /\ row'.disabled = row.disabled
      BY <1>3, CrashRow DEF Crash, Types
    <2>2. excuse' # Overtaken => excuse' = excuse /\ \A t \in Tasks : ~Answered(t)
      BY <1>3 DEF Crash, Answered
    <2>3. excuse' = excuse /\ Agreed => Agreed'
      BY <2>1 DEF Agreed, LinkAgrees, SwitchAgrees, Standing
    <2>. QED BY <2>1, <2>2, <2>3 DEF Followed, AloneBusy
  <1>4. CASE OnlyWrites
    <2>1. /\ row.there
          /\ excuse = Overtaken => excuse' = Overtaken
          /\ excuse # Overtaken => excuse \subseteq excuse'
          /\ UNCHANGED <<service, today, task, scan, told, alone, missed, scans, trouble>>
          /\ row'.there =>
              /\ row'.link # row.link /\ excuse # Overtaken
                   => row'.link = service.link \/ "typed" \in excuse'
              /\ row'.disabled # row.disabled /\ excuse # Overtaken => "unswitched" \in excuse'
              /\ row.deleted /\ ~row'.deleted /\ excuse # Overtaken => "restored" \in excuse'
      BY <1>4, OnlyWritten
    <2>. QED BY <2>1, FollowedKept
  <1>5. ASSUME UNCHANGED <<row, task, alone, excuse>>,
               service'.link = service.link, service'.there = service.there,
               service'.active = service.active
        PROVE  Followed'
    BY <1>5, FollowedKept
  <1>6. CASE \/ AskLink \/ AdminEditLinkGone \/ ReadList \/ Fetch \/ SendAlert \/ DayPasses
             \/ UNCHANGED vars
    BY <1>5, <1>6 DEF AskLink, AdminEditLinkGone, ReadList, Fetch, SendAlert, DayPasses, vars
  <1>7. CASE Use
    <2>1. PICK used \in Levels : service' = [service EXCEPT !.used = used] BY <1>7 DEF Use, Serves
    <2>2. service \in ServiceType BY DEF Types
    <2>3. service'.link = service.link /\ service'.there = service.there
          /\ service'.active = service.active
      BY <2>1, <2>2 DEF ServiceType
    <2>. QED BY <1>5, <1>7, <2>3 DEF Use
  <1>8. CASE FlagAlert \/ Archive
    <2>1. UNCHANGED <<service, task, alone, excuse>> BY <1>8 DEF FlagAlert, Archive
    <2>2. row'.there => /\ row.there /\ row'.link = row.link /\ row'.disabled = row.disabled
                        /\ (row.deleted => row'.deleted)
      <3>1. CASE FlagAlert
        <4>. DEFINE flags == UNION {Next80(a) : a \in scan.flags}
        <4>1. flags \in SUBSET Alerts BY DEF Types, ScanType, Next80, Alerts
        <4>2. row' = SetConfigAlertSent(flags) BY <3>1 DEF FlagAlert
        <4>. HIDE DEF flags
        <4>. QED BY <4>1, <4>2, UpdatedFlags DEF Types
      <3>2. CASE Archive BY <3>2, UpdatedDeleted DEF Archive, Types
      <3>. QED BY <1>8, <3>1, <3>2
    <2>. QED BY <2>1, <2>2, FollowedKept
  <1>. QED BY <1>1, <1>2, <1>3, <1>4, <1>6, <1>7, <1>8, NextParts, PanelFollowed, WriteFollowed

---------------------------------------------------------------------------
\* What is flagged was sent

LEMMA ReachedStays ==
  ASSUME Types, NEW alerts, Reached(alerts),
         service'.used \in Nat, service'.used >= service.used,
         service'.until = service.until, today' \in Nat, today' >= today
  PROVE  Reached(alerts)'
  <1>1. service.used \in Nat /\ service.until \in Nat /\ today \in Nat
    BY Constants DEF Types, ServiceType
  <1>. QED BY <1>1 DEF Reached

\* Of what has come up nothing becomes due that was not.
LEMMA DueStays ==
  ASSUME Types, NEW alerts, alerts \subseteq Alerts, Reached(alerts), TellsDue(alerts),
         service'.there => service.there,
         service'.used \in Nat, service'.used >= service.used,
         service'.until = service.until, today' \in Nat, today' >= today,
         \/ told' = told \cap (Due(service, today)')
         \/ told \subseteq told' /\ UNCHANGED <<service, today>>
  PROVE  TellsDue(alerts)'
  <1>1. service.used \in Nat /\ service.until \in Nat /\ today \in Nat
    BY Constants DEF Types, ServiceType
  <1>2. ASSUME NEW a \in alerts, a \in Due(service, today)', a # "ended" PROVE a \in told'
    <2>1. a \in Due(service, today) BY <1>1, <1>2 DEF Due, Alerts, Reached
    <2>. QED BY <1>2, <2>1 DEF TellsDue
  <1>. QED BY <1>2 DEF TellsDue

\* No renewal is between the panel and its write.
Calm == \A t \in Tasks : Answered(t) => task[t].op \notin Renewing

\* The service grows older and more used, and may go.
Ages ==
  /\ service'.there => service.there
  /\ service'.used \in Nat /\ service'.used >= service.used
  /\ service'.until = service.until /\ today' \in Nat /\ today' >= today
  /\ \/ told' = told \cap (Due(service, today)')
     \/ told \subseteq told' /\ UNCHANGED <<service, today>>

LEMMA AgesSame ==
  ASSUME Types, UNCHANGED <<service, today>>, told \subseteq told' PROVE Ages
  <1>1. service.used \in Nat /\ today \in Nat BY Constants DEF Types, ServiceType
  <1>. QED BY <1>1 DEF Ages

\* A step that flags nothing and is not a renewal.
LEMMA AlertedKept ==
  ASSUME Types, Alerted, Ages, scan' = scan \/ scan'.at \notin {"send", "flag"},
         row'.there /\ ~missed' /\ Calm' =>
           row.there /\ ~missed /\ Calm /\ row'.flags \subseteq row.flags
  PROVE  Alerted'
  <1>. SUFFICES ASSUME row'.there, ~missed', Calm'
                PROVE  /\ Reached(row.flags)' /\ TellsDue(row.flags)'
                       /\ scan'.at = "send" => Reached(scan.todo)'
                       /\ scan'.at = "flag" =>
                            /\ Reached(scan.todo)' /\ Reached(scan.flags)'
                            /\ \A a \in scan'.flags : Reached(Next80(a))' /\ TellsDue(Next80(a))'
    BY DEF Alerted, Calm
  <1>1. row.there /\ ~missed /\ Calm /\ row'.flags \subseteq row.flags OBVIOUS
  <1>2. /\ Reached(row.flags) /\ TellsDue(row.flags)
        /\ scan.at = "send" => Reached(scan.todo)
        /\ scan.at = "flag" => /\ Reached(scan.todo) /\ Reached(scan.flags)
                               /\ \A a \in scan.flags : Reached(Next80(a)) /\ TellsDue(Next80(a))
    BY <1>1 DEF Alerted, Calm
  <1>3. ASSUME NEW alerts, Reached(alerts) PROVE Reached(alerts)'
    BY <1>3, ReachedStays DEF Ages
  <1>4. ASSUME NEW alerts, alerts \subseteq Alerts, Reached(alerts), TellsDue(alerts)
        PROVE  TellsDue(alerts)'
    BY <1>4, DueStays DEF Ages
  <1>5. row.flags \subseteq Alerts /\ \A a \in scan.flags : Next80(a) \subseteq Alerts
    BY DEF Types, RowType, ScanType, Next80, Alerts
  <1>6. Reached(row.flags)' /\ TellsDue(row.flags)'
    <2>. DEFINE old == row.flags
    <2>1. Reached(row'.flags) /\ TellsDue(row'.flags) BY <1>1, <1>2 DEF Reached, TellsDue
    <2>2. row'.flags \subseteq Alerts BY <1>1, <1>5
    <2>. QED BY <2>1, <2>2, <1>3, <1>4
  <1>7. scan'.at = "send" => Reached(scan.todo)' BY <1>2, <1>3
  <1>8. ASSUME scan'.at = "flag"
        PROVE  /\ Reached(scan.todo)' /\ Reached(scan.flags)'
               /\ \A a \in scan'.flags : Reached(Next80(a))' /\ TellsDue(Next80(a))'
    <2>1. scan' = scan BY <1>8
    <2>2. /\ Reached(scan.todo) /\ Reached(scan.flags)
          /\ \A a \in scan.flags : Reached(Next80(a)) /\ TellsDue(Next80(a))
      BY <1>2, <1>8, <2>1
    <2>3. Reached(scan.todo)' /\ Reached(scan.flags)' BY <1>3, <2>1, <2>2
    <2>4. ASSUME NEW a \in scan.flags PROVE Reached(Next80(a))' /\ TellsDue(Next80(a))'
      BY <1>3, <1>4, <1>5, <2>2
    <2>. QED BY <2>1, <2>3, <2>4
  <1>. QED BY <1>6, <1>7, <1>8

LEMMA WriteAlerted ==
  ASSUME Types, Filled, Alerted, NEW t \in Tasks, Write(t) PROVE Alerted'
  <1>1. /\ Answered(t) /\ Finishes(t)
        /\ UNCHANGED <<service, today, scan, told>>
    BY DEF Write, Answered
  <1>2. Ages BY <1>1, AgesSame
  <1>3. \A u \in Tasks \ {t} : task'[u] = task[u] BY <1>1, TaskFinished
  <1>4. ASSUME task[t].op \notin Renewing, Calm' PROVE Calm
    BY <1>3, <1>4 DEF Calm, Answered
  <1>5. ASSUME task[t].op \notin Renewing, missed' = missed, row'.there = row.there,
               row.there => row'.flags \subseteq row.flags
        PROVE  Alerted'
    <2>1. row'.there /\ ~missed' /\ Calm' => row.there /\ ~missed /\ Calm /\ row'.flags \subseteq row.flags
      BY <1>4, <1>5
    <2>. QED BY <1>1, <1>2, <2>1, AlertedKept
  <1>6. CASE WriteLink(t) \/ WriteRelink(t)
    <2>1. task[t].op \notin Renewing /\ missed' = missed BY <1>6 DEF WriteLink, WriteRelink, Renewing
    <2>. QED BY <1>1, <1>5, <1>6, <2>1, LinkWritten
  <1>7. CASE WriteSwitch(t)
    <2>1. task[t].op \notin Renewing /\ missed' = missed BY <1>7 DEF WriteSwitch, Renewing
    <2>. QED BY <1>5, <1>7, <2>1, SwitchWritten
  <1>8. CASE WriteDeleted(t)
    <2>1. task[t].op \notin Renewing /\ missed' = missed BY <1>8 DEF WriteDeleted, Renewing
    <2>. QED BY <1>5, <1>8, <2>1, DeletedWritten
  \* The flags are reset, and no scan holds what it fetched before.
  <1>9. ASSUME ~missed' => ~Unread /\ (row'.there => row'.flags \subseteq {"ended"})
        PROVE  Alerted'
    <2>1. ~missed' => scan'.at \notin {"send", "flag"} BY <1>1, <1>9 DEF Unread
    <2>2. ~missed' /\ row'.there => Reached(row.flags)' BY <1>9 DEF Reached
    <2>3. ~missed' /\ row'.there => TellsDue(row.flags)' BY <1>9 DEF TellsDue
    <2>. QED BY <2>1, <2>2, <2>3 DEF Alerted
  <1>10. CASE WriteRenew(t)
    <2>1. missed' = (Unread \/ task[t].got = None) BY <1>10, Zenon DEF WriteRenew
    <2>2. ~missed' => ~Unread /\ task[t].got # None BY <2>1
    <2>. QED BY <1>9, <1>10, <2>2, RenewWritten
  <1>11. CASE WriteRenewal(t)
    <2>1. missed' = Unread BY <1>11, Zenon DEF WriteRenewal
    <2>. QED BY <1>1, <1>9, <1>11, <2>1, RenewalWritten
  <1>. QED BY <1>6, <1>7, <1>8, <1>10, <1>11 DEF Write

LEMMA PanelAlerted ==
  ASSUME Types, Alerted, NEW t \in Tasks, CallPanel(t) PROVE Alerted'
  <1>1. /\ told' = told \cap (Due(service, today)')
        /\ \A u \in Tasks \ {t} : task'[u] = task[u]
        /\ task[t].at = "calling" /\ task'[t].at = "answered" /\ task'[t].op = task[t].op
        /\ UNCHANGED <<row, today, scan, missed>>
    BY PanelActs
  <1>2. CASE task[t].op \in Renewing
    <2>1. ~Calm' BY <1>1, <1>2 DEF Calm, Answered
    <2>. QED BY <2>1 DEF Alerted, Calm
  <1>3. CASE task[t].op \notin Renewing
    <2>1. service \in ServiceType /\ service.used \in Nat /\ today \in Nat
      BY Constants DEF Types, ServiceType
    <2>2. PanelRegenerates(t) \/ PanelSwitches(t) \/ PanelDeletes(t)
      BY <1>3 DEF CallPanel, PanelRenews
    <2>3. /\ service'.there => service.there
          /\ service'.used = service.used /\ service'.until = service.until
      BY <2>1, <2>2 DEF PanelRegenerates, PanelSwitches, PanelDeletes, Serves, ServiceType
    <2>4. Ages BY <1>1, <2>1, <2>3 DEF Ages
    <2>5. Calm' => Calm BY <1>1 DEF Calm, Answered
    <2>. QED BY <1>1, <2>4, <2>5, AlertedKept
  <1>. QED BY <1>2, <1>3

\* A scan sends what it found due and flags what it has sent.
LEMMA ScanAlerted ==
  ASSUME Types, Alerted, Fetch \/ SendAlert \/ FlagAlert PROVE Alerted'
  <1>1. UNCHANGED <<service, today, task, missed>> /\ told \subseteq told'
    BY DEF Fetch, SendAlert, FlagAlert
  <1>2. ASSUME NEW alerts PROVE Reached(alerts)' <=> Reached(alerts) BY <1>1 DEF Reached
  <1>3. ASSUME NEW alerts, TellsDue(alerts) PROVE TellsDue(alerts)' BY <1>1, <1>3 DEF TellsDue
  <1>4. Calm' <=> Calm BY <1>1 DEF Calm, Answered
  <1>. SUFFICES ASSUME row'.there, ~missed, Calm
                PROVE  /\ Reached(row.flags)' /\ TellsDue(row.flags)'
                       /\ scan'.at = "send" => Reached(scan.todo)'
                       /\ scan'.at = "flag" =>
                            /\ Reached(scan.todo)' /\ Reached(scan.flags)'
                            /\ \A a \in scan'.flags : Reached(Next80(a))' /\ TellsDue(Next80(a))'
    BY <1>1, <1>4 DEF Alerted, Calm
  <1>5. ASSUME row.there
        PROVE  /\ Reached(row.flags) /\ TellsDue(row.flags)
               /\ scan.at = "send" => Reached(scan.todo)
               /\ scan.at = "flag" =>
                    /\ Reached(scan.todo) /\ Reached(scan.flags)
                    /\ \A a \in scan.flags : Reached(Next80(a)) /\ TellsDue(Next80(a))
    BY <1>5 DEF Alerted, Calm
  <1>6. ASSUME NEW todo, ScanGoes(todo), Reached(todo)
        PROVE  /\ scan'.at # "flag"
               /\ scan'.at = "send" => Reached(scan.todo)'
    <2>1. scan' = IF todo = {} THEN [NoScan EXCEPT !.at = "archive"]
                  ELSE [NoScan EXCEPT !.at = "send", !.todo = todo]
      BY <1>6 DEF ScanGoes
    <2>2. scan'.at = "send" => scan'.todo = todo BY <2>1 DEF NoScan
    <2>3. scan'.at \in {"archive", "send"} BY <2>1 DEF NoScan
    <2>. QED BY <1>2, <1>6, <2>2, <2>3
  <1>7. CASE Fetch
    <2>1. row' = row BY <1>7 DEF Fetch
    <2>2. Reached(ToSend(Due(service, today), scan.flags)) /\ Reached({})
      BY Constants DEF Reached, ToSend, Due, Types, ServiceType
    <2>3. scan'.at # "flag" /\ (scan'.at = "send" => Reached(scan.todo)')
      BY <1>6, <1>7, <2>2 DEF Fetch
    <2>. QED BY <1>2, <1>3, <1>5, <2>1, <2>3
  <1>8. CASE SendAlert
    <2>1. PICK a \in scan.todo :
            /\ told' = told \cup (Next80(a) \cap Due(service, today))
            /\ scan' = [scan EXCEPT !.at = "flag", !.flags = {a}]
      BY <1>8 DEF SendAlert
    <2>2. scan.at = "send" /\ row' = row BY <1>8 DEF SendAlert
    <2>3. scan'.at = "flag" /\ scan'.flags = {a} /\ scan'.todo = scan.todo
      BY <2>1 DEF Types, ScanType
    <2>4. Reached(scan.todo) /\ Reached(row.flags) /\ TellsDue(row.flags) BY <1>5, <2>2
    <2>5. Reached({a}) BY <2>4 DEF Reached
    <2>6. Reached(Next80(a))
      <3>1. service.used \in Nat BY Constants DEF Types, ServiceType
      <3>. QED BY <2>4, <3>1 DEF Reached, Next80
    <2>7. TellsDue(Next80(a))' BY <1>1, <2>1 DEF TellsDue
    <2>8. Reached(row.flags)' /\ TellsDue(row.flags)' BY <1>2, <1>3, <2>2, <2>4
    <2>9. Reached(scan.todo)' /\ Reached(scan.flags)' BY <1>2, <2>3, <2>4, <2>5
    <2>10. Reached(Next80(a))' BY <1>2, <2>6
    <2>. QED BY <2>3, <2>7, <2>8, <2>9, <2>10
  <1>9. CASE FlagAlert
    <2>. DEFINE flags == UNION {Next80(a) : a \in scan.flags}
    <2>1. flags \in SUBSET Alerts BY DEF Types, ScanType, Next80, Alerts
    <2>2. scan.at = "flag" /\ row' = SetConfigAlertSent(flags) BY <1>9 DEF FlagAlert
    <2>. HIDE DEF flags
    <2>3. row.there /\ row'.flags = row.flags \cup flags BY <2>1, <2>2, UpdatedFlags DEF Types
    <2>4. /\ Reached(row.flags) /\ TellsDue(row.flags) /\ Reached(scan.todo)
          /\ \A a \in scan.flags : Reached(Next80(a)) /\ TellsDue(Next80(a))
      BY <1>5, <2>2, <2>3
    <2>5. Reached(flags) /\ TellsDue(flags) BY <2>4 DEF flags, Reached, TellsDue
    <2>6. Reached(row'.flags) /\ TellsDue(row'.flags) BY <2>3, <2>4, <2>5 DEF Reached, TellsDue
    <2>7. Reached(row.flags)' /\ TellsDue(row.flags)' BY <1>2, <1>3, <2>6
    <2>8. Reached(scan.todo \ scan.flags) BY <2>4 DEF Reached
    <2>9. scan'.at # "flag" /\ (scan'.at = "send" => Reached(scan.todo)')
      BY <1>6, <1>9, <2>8 DEF FlagAlert
    <2>. QED BY <2>7, <2>9
  <1>. QED BY <1>7, <1>8, <1>9

LEMMA AlertedStep == ASSUME Types, Filled, Alerted, [Next]_vars PROVE Alerted'
  <1>1. ASSUME UNCHANGED <<row, task, missed>>, Ages, scan' = scan \/ scan'.at \notin {"send", "flag"}
        PROVE  Alerted'
    <2>1. Calm' => Calm BY <1>1 DEF Calm, Answered
    <2>. QED BY <1>1, <2>1, AlertedKept
  <1>2. ASSUME NEW t \in Tasks, Begins(t) PROVE Alerted'
    <2>1. PICK op \in Ops : Begin(t, op) BY <1>2 DEF Begins
    <2>2. Ages BY <2>1, AgesSame DEF Begin
    <2>3. UNCHANGED <<row, scan, missed>> /\ task[t].at = "idle"
      BY <2>1 DEF Begin, Busy
    <2>4. \A u \in Tasks \ {t} : task'[u] = task[u] BY <2>1, TaskBegun
    <2>5. Calm' => Calm BY <2>3, <2>4 DEF Calm, Answered
    <2>. QED BY <2>2, <2>3, <2>5, AlertedKept
  <1>3. ASSUME NEW t \in Tasks, CallFails(t) \/ AnswerLost(t) PROVE Alerted'
    <2>1. Ages BY <1>3, AgesSame DEF CallFails, AnswerLost
    <2>2. UNCHANGED <<row, scan>> BY <1>3 DEF CallFails, AnswerLost
    <2>3. \A u \in Tasks \ {t} : task'[u] = task[u]
      BY <1>3, TaskFinished DEF CallFails, AnswerLost
    <2>4. ~missed' => ~missed /\ (Answered(t) => task[t].op \notin Renewing)
      <3>1. CASE CallFails(t) BY <3>1 DEF CallFails, Answered
      <3>2. CASE AnswerLost(t)
        <4>1. missed' = (missed \/ task[t].op \in Renewing) BY <3>2, Zenon DEF AnswerLost
        <4>. QED BY <4>1
      <3>. QED BY <1>3, <3>1, <3>2
    <2>5. ~missed' /\ Calm' => Calm BY <2>3, <2>4 DEF Calm, Answered
    <2>. QED BY <2>1, <2>2, <2>4, <2>5, AlertedKept
  <1>4. CASE Crash
    <2>1. UNCHANGED <<service, today, told>> /\ scan'.at \notin {"send", "flag"}
      BY <1>4 DEF Crash, NoScan
    <2>2. ~missed' => ~missed /\ Calm
      <3>1. missed' = (missed \/ \E t \in Tasks : task[t].at = "answered" /\ task[t].op \in Renewing)
        BY <1>4, Zenon DEF Crash
      <3>. QED BY <3>1 DEF Calm, Answered
    <2>3. ASSUME row'.there, ~missed' PROVE Reached(row'.flags) /\ TellsDue(row'.flags)
      <3>1. row.there /\ \/ row'.flags = row.flags
                         \/ /\ scan.at = "flag" /\ "90" \in scan.flags
                            /\ row'.flags = row.flags \cup {"90"}
        BY <1>4, <2>3, CrashRow DEF Types
      <3>2. /\ Reached(row.flags) /\ TellsDue(row.flags)
            /\ scan.at = "flag" =>
                 \A a \in scan.flags : Reached(Next80(a)) /\ TellsDue(Next80(a))
        BY <2>2, <2>3, <3>1 DEF Alerted, Calm
      <3>3. scan.at = "flag" /\ "90" \in scan.flags
              => Reached(Next80("90")) /\ TellsDue(Next80("90"))
        BY <3>2
      <3>4. scan.at = "flag" /\ "90" \in scan.flags => Reached({"90"}) /\ TellsDue({"90"})
        BY <3>3 DEF Next80, Reached, TellsDue
      <3>5. CASE row'.flags = row.flags BY <3>2, <3>5
      <3>6. CASE /\ scan.at = "flag" /\ "90" \in scan.flags
                 /\ row'.flags = row.flags \cup {"90"}
        BY <3>2, <3>4, <3>6 DEF Reached, TellsDue
      <3>. QED BY <3>1, <3>5, <3>6
    <2>4. ASSUME row'.there, ~missed' PROVE Reached(row.flags)' /\ TellsDue(row.flags)'
      BY <2>1, <2>3, <2>4 DEF Reached, TellsDue
    <2>. QED BY <2>1, <2>4 DEF Alerted
  <1>5. CASE OnlyWrites
    <2>1. /\ row.there
          /\ UNCHANGED <<service, today, task, scan, told, alone, missed, scans, trouble>>
          /\ row'.there => row'.flags \in {row.flags, row.flags \cap {"ended"}}
      BY <1>5, OnlyWritten
    <2>2. Ages BY <2>1, AgesSame
    <2>3. Calm' => Calm BY <2>1 DEF Calm, Answered
    <2>. QED BY <2>1, <2>2, <2>3, AlertedKept
  <1>6. CASE AskLink \/ AdminEditLinkGone \/ UNCHANGED vars
    <2>1. Ages BY <1>6, AgesSame DEF AskLink, AdminEditLinkGone, vars
    <2>. QED BY <1>1, <1>6, <2>1 DEF AskLink, AdminEditLinkGone, vars
  <1>7. CASE ReadList
    <2>1. Ages BY <1>7, AgesSame DEF ReadList
    <2>2. scan'.at \notin {"send", "flag"} BY <1>7 DEF ReadList, NoScan
    <2>. QED BY <1>1, <1>7, <2>1, <2>2 DEF ReadList
  <1>8. CASE Archive
    <2>1. Ages /\ task' = task /\ missed' = missed BY <1>8, AgesSame DEF Archive
    <2>2. scan'.at \notin {"send", "flag"} BY <1>8 DEF Archive, NoScan
    <2>3. row'.there => row.there /\ row'.flags = row.flags
      BY <1>8, UpdatedDeleted DEF Archive, Types
    <2>4. Calm' => Calm BY <2>1 DEF Calm, Answered
    <2>. QED BY <2>1, <2>2, <2>3, <2>4, AlertedKept
  <1>9. CASE Use
    <2>1. PICK used \in Levels : used > service.used /\ Serves([service EXCEPT !.used = used])
      BY <1>9 DEF Use
    <2>2. service' = [service EXCEPT !.used = used] /\ told' = told \cap Due(service', today)
      BY <2>1 DEF Serves
    <2>3. /\ service'.used = used /\ service'.there = service.there
          /\ service'.until = service.until
      BY <2>2 DEF Types, ServiceType
    <2>4. used \in Nat /\ service.used \in Nat /\ today \in Nat /\ today' = today
      BY <1>9, Constants DEF Use, Types, ServiceType
    <2>5. Ages BY <2>1, <2>2, <2>3, <2>4 DEF Ages
    <2>. QED BY <1>1, <1>9, <2>5 DEF Use
  <1>10. CASE DayPasses
    <2>1. service' = service /\ today' = today + 1 /\ told' = told \cap Due(service', today')
      BY <1>10 DEF DayPasses
    <2>2. service.used \in Nat /\ today \in Nat BY Constants DEF Types, ServiceType
    <2>3. Ages BY <2>1, <2>2 DEF Ages
    <2>. QED BY <1>1, <1>10, <2>3 DEF DayPasses
  <1>. QED BY <1>2, <1>3, <1>4, <1>5, <1>6, <1>7, <1>8, <1>9, <1>10, NextParts,
              PanelAlerted, WriteAlerted, ScanAlerted

---------------------------------------------------------------------------
LEMMA InitInv == Init => IInv
  <1>. SUFFICES ASSUME Init PROVE IInv
    OBVIOUS
  <1>1. \A t \in Tasks : task[t] = NoTask BY DEF Init
  <1>2. Types
    <2>1. NoTask \in TaskType /\ NoScan \in ScanType
      BY Constants DEF NoTask, TaskType, NoScan, ScanType
    <2>2. row \in RowType /\ service \in ServiceType /\ excuse \in ExcuseType
      BY Constants DEF Init, RowType, ServiceType, ExcuseType
    <2>3. 0 \in 0..MaxDays /\ 0 \in 0..MaxStarts /\ 0 \in 0..MaxScans /\ 0 \in 0..MaxTrouble
      BY Constants
    <2>4. task \in [Tasks -> TaskType] /\ scan \in ScanType BY <2>1 DEF Init
    <2>. QED BY <2>2, <2>3, <2>4 DEF Init, Types
  <1>3. Filled BY <1>1 DEF Filled, Answered, NoTask
  <1>4. Followed
    <2>1. Agreed BY DEF Init, Agreed, LinkAgrees, SwitchAgrees, Standing
    <2>2. alone = {} BY DEF Init
    <2>. QED BY <2>1, <2>2 DEF Followed, AloneBusy
  <1>5. Alerted
    <2>1. row.flags = {} /\ scan.at = "idle" BY DEF Init, NoScan
    <2>. QED BY <2>1 DEF Alerted, Reached, TellsDue
  <1>. QED BY <1>2, <1>3, <1>4, <1>5, TypesAre DEF IInv

LEMMA StepInv == IInv /\ [Next]_vars => IInv'
  <1>1. Types' => TypeOK' BY DEF TypeOK, Types, RowType, ServiceType, TaskType, ScanType, ExcuseType
  <1>. QED BY <1>1, TypesAre, TypesStep, FilledStep, FollowedStep, AlertedStep DEF IInv

LEMMA Invariance == Spec => []IInv
  BY InitInv, StepInv, PTL DEF Spec

\* For any handlers, days and faults the row, the panel and what the handlers remember keep
\* their types: no link or expiry is stored that no panel gave and nobody typed
\* (database.py:1082).
THEOREM TypeCorrect == Spec => []TypeOK
  BY Invariance, PTL DEF IInv

\* For any number of handlers about one service, whatever they await: with none of them between
\* the panel and its write, the row the buyer sees stands for the service as it is at the panel,
\* unless handlers overlapped or an answer was lost, the admin typed or restored, or a link
\* change, a deletion or a paid renewal left the switch (handlers/plans.py:1168,
\* handlers/admin.py:2522).
THEOREM RowFollows == Spec => []RowFollowsPanel
  <1>1. IInv => RowFollowsPanel
    <2>. SUFFICES ASSUME Followed, row.there, ~row.deleted, \A t \in Tasks : ~Answered(t),
                         excuse # Overtaken
                  PROVE  Standing /\ LinkAgrees /\ SwitchAgrees
      BY DEF IInv, RowFollowsPanel, Answered, Standing, LinkAgrees, SwitchAgrees
    <2>. QED BY DEF Followed, Agreed
  <1>. QED BY <1>1, Invariance, PTL

\* For any number of scans and handlers: a flagged alert that is due was sent since it became
\* due, except after a renewal whose write met a scan under way, brought no link or was lost
\* (alerts.py:74).
THEOREM FlagsToldAlways == Spec => []FlagsTold
  <1>1. IInv => FlagsTold
    <2>. SUFFICES ASSUME Alerted, row.there, ~missed, \A t \in Tasks : ~Answered(t)
                  PROVE  TellsDue(row.flags)
      BY DEF IInv, FlagsTold, Answered, TellsDue
    <2>. QED BY DEF Alerted
  <1>. QED BY <1>1, Invariance, PTL

=============================================================================
