----------------------------- MODULE BuyerServices -----------------------------
(***************************************************************************)
(* One service of a buyer: the user at the panel, the row of configs that  *)
(* stands for it in the shop, and the alerts about its usage and its end.  *)
(*                                                                         *)
(* Every handler reads the row, awaits the panel, and writes by id what    *)
(* follows from the row it read; meanwhile the loop and the threads of the *)
(* Mini App carry out other handlers about the same service, and the scan  *)
(* of alerts.py works through a list of rows it read before many awaits.   *)
(* The writes after an await are one step: the only write a thread can put *)
(* between them is set_config_deleted, whose effect is that of one before  *)
(* or after them.                                                          *)
(***************************************************************************)
EXTENDS Naturals, FiniteSets

CONSTANTS
  Tasks,       \* handlers that may await the panel at the same time
  None,        \* no link
  Other,       \* a link that is not one of the panel's
  Levels,      \* how much is used: 0, from 80, from 90 per cent, 3 is all of it
  MaxLinks,    \* bound: link changes at the panel
  MaxDays,     \* bound: days that pass
  MaxStarts,   \* bound: handlers begun
  MaxScans,    \* bound: scans begun
  MaxTrouble   \* bound: answers lost and crashes

ASSUME ServiceAssumption ==
  /\ {MaxLinks, MaxDays, MaxStarts, MaxScans, MaxTrouble} \subseteq Nat
  /\ Levels \subseteq 0..3 /\ 0 \in Levels
  /\ {None, Other} \cap Nat = {} /\ None # Other

Links == 0..MaxLinks
Alerts == {"80", "90", "expiry", "ended"}
Renewing == {"renew", "renewal"}  \* by the admin's button, and for a paid order

VARIABLES
  row,      \* configs: the row
  service,  \* the service at the panel
  today,    \* the day
  task,     \* the handlers under way
  scan,     \* _check_single_config for this row
  asked,    \* the admin's conversation waits for the link of this service
  told,     \* history: alerts sent since they became due
  alone,    \* history: tasks no other task has overlapped
  excuse,   \* history: why the row may differ from the panel
  missed,   \* history: a renewal whose alerts may be flagged already
  starts, scans, trouble

bounds == <<starts, scans, trouble>>
vars == <<row, service, today, task, scan, asked, told, alone, excuse, missed, bounds>>

NoTask == [at |-> "idle", op |-> "none", link |-> None, until |-> 0, got |-> None]
NoScan == [at |-> "idle", link |-> None, flags |-> {}, todo |-> {}]

Init ==
  /\ row = [there |-> TRUE, deleted |-> FALSE, link |-> 0, disabled |-> FALSE,
            flags |-> {}, until |-> 0]
  /\ service \in [kind : {"marzban", "shahrah"}, there : {TRUE}, link : {0},
                  active : {TRUE}, used : {0}, until : {0}]
  /\ today = 0
  /\ task = [t \in Tasks |-> NoTask] /\ scan = NoScan /\ asked = FALSE
  /\ told = {} /\ alone = {} /\ excuse = {} /\ missed = FALSE
  /\ starts = 0 /\ scans = 0 /\ trouble = 0

---------------------------------------------------------------------------
\* The service at the panel, as time passes and the buyer uses it

Due(s, day) ==
  {a \in Alerts :
     /\ s.there
     /\ \/ a = "80" /\ s.used >= 1
        \/ a = "90" /\ s.used >= 2
        \/ a = "expiry" /\ s.until = day
        \/ a = "ended" /\ (s.used = 3 \/ s.until < day)}

\* an alert that is not due any more has to be sent again
Serves(s) == service' = s /\ told' = told \cap Due(s, today)

\* bound: what happens at the panel after the row is purged is not looked at
Use ==
  /\ service.there /\ row.there
  /\ \E used \in Levels : used > service.used /\ Serves([service EXCEPT !.used = used])
  /\ UNCHANGED <<row, today, task, scan, asked, alone, excuse, missed, bounds>>

DayPasses ==
  /\ today < MaxDays /\ row.there
  /\ today' = today + 1
  /\ told' = told \cap Due(service, today + 1)
  /\ UNCHANGED <<row, service, task, scan, asked, alone, excuse, missed, bounds>>

---------------------------------------------------------------------------
\* The writes of database.py about one row; they do nothing once it is purged

Updated(r) == IF row.there THEN r ELSE row

\* Mutant: the flags stay as they are.
UpdateConfigKeeps(link, until) ==
  Updated([row EXCEPT !.link = link, !.until = until, !.deleted = FALSE])

\* update_config: the row comes back if it was deleted; alert_ended_sent is not reset
UpdateConfig(link, until) ==
  Updated([row EXCEPT !.link = link, !.until = until, !.deleted = FALSE,
                      !.flags = @ \cap {"ended"}])

\* Mutant: the link is not stored.
UpdateConfigLinkForgets(link) == Updated([row EXCEPT !.flags = @ \cap {"ended"}])

UpdateConfigLink(link) ==
  Updated([row EXCEPT !.link = link, !.flags = @ \cap {"ended"}])

SetConfigDeleted(deleted) == Updated([row EXCEPT !.deleted = deleted])
SetConfigAlertSent(flags) == Updated([row EXCEPT !.flags = @ \cup flags])

---------------------------------------------------------------------------
\* Handlers that await the panel

Busy == {t \in Tasks : task[t].at # "idle"}

\* what the handler uses of the row after the await is remembered
Begin(t, op) ==
  /\ t \notin Busy /\ row.there /\ starts < MaxStarts
  /\ task' = [task EXCEPT ![t] =
                 [NoTask EXCEPT !.at = "calling", !.op = op,
                    !.link = IF op = "renewal" THEN row.link ELSE None,
                    !.until = IF op \in {"link", "renewal"} THEN row.until ELSE 0]]
  /\ alone' = IF Busy = {} THEN {t} ELSE {}
  /\ starts' = starts + 1
  /\ UNCHANGED <<row, service, today, scan, asked, told, excuse, missed, scans, trouble>>

Own == ~row.deleted  \* the buyer's screens refuse a deleted row

UserChangeSublink(t) == Own /\ Begin(t, "link")
AdminRegenerateLink(t) == Begin(t, "relink")
UserDisableSublink(t) == Own /\ Begin(t, "disable")
UserEnableSublink(t) == Own /\ Begin(t, "enable")
AdminServiceDisable(t) == Begin(t, "disable")
AdminServiceEnable(t) == Begin(t, "enable")
\* the confirmation in the bot does not look at deleted; that of the Mini App does
DeleteConfigApply(t) == Begin(t, "delete")
ApiServiceDelete(t) == Own /\ Begin(t, "delete")
AdminServiceRenew(t) == Begin(t, "renew")
\* renew_start and the paid order do not look at deleted either
FulfillCustomRenew(t) == service.kind # "shahrah" /\ Begin(t, "renewal")

PanelRegenerates(t) ==
  /\ task[t].op \in {"link", "relink"}
  /\ service.kind # "shahrah" /\ service.link < MaxLinks
  /\ Serves([service EXCEPT !.link = @ + 1])
  /\ task' = [task EXCEPT ![t].at = "answered", ![t].got = service.link + 1]

PanelSwitches(t) ==
  /\ task[t].op \in {"disable", "enable"}
  /\ Serves([service EXCEPT !.active = (task[t].op = "enable")])
  /\ task' = [task EXCEPT ![t].at = "answered"]

\* shahrah cannot delete and disables
PanelDeletes(t) ==
  /\ task[t].op = "delete"
  /\ Serves(IF service.kind = "shahrah" THEN [service EXCEPT !.active = FALSE]
            ELSE [service EXCEPT !.there = FALSE])
  /\ task' = [task EXCEPT ![t].at = "answered"]

\* volume and days are added, or replaced by those of a mapped template, which may be less;
\* a panel of users answers with the link in force, shahrah with a new one, either with none
PanelRenews(t) ==
  /\ task[t].op \in Renewing
  /\ \E used \in Levels, until \in {service.until, today, today + 1} :
       \E link \in IF service.kind = "shahrah" /\ service.link < MaxLinks
                   THEN {None, service.link + 1} ELSE {None, service.link} :
         /\ Serves([service EXCEPT !.used = used, !.active = TRUE, !.until = until,
                                   !.link = IF link = None THEN @ ELSE link])
         /\ task' = [task EXCEPT ![t].at = "answered", ![t].got = link]

CallPanel(t) ==
  /\ task[t].at = "calling" /\ service.there
  /\ PanelRegenerates(t) \/ PanelSwitches(t) \/ PanelDeletes(t) \/ PanelRenews(t)
  /\ UNCHANGED <<row, today, scan, asked, alone, excuse, missed, bounds>>

Overtaken == {"overtaken"}

Finishes(t) == task' = [task EXCEPT ![t] = NoTask] /\ alone' = alone \ {t}

\* refused by the circuit breaker, by the adapter or by the panel, which did nothing
CallFails(t) ==
  /\ task[t].at = "calling"
  /\ Finishes(t)
  /\ UNCHANGED <<row, service, today, scan, asked, told, excuse, missed, bounds>>

\* the panel has acted; the answer is lost or read as an error, and nothing is written
AnswerLost(t) ==
  /\ task[t].at = "answered" /\ trouble < MaxTrouble
  /\ trouble' = trouble + 1
  /\ Finishes(t)
  /\ excuse' = Overtaken
  /\ missed' = (missed \/ task[t].op \in Renewing)
  /\ UNCHANGED <<row, service, today, scan, asked, told, starts, scans>>

Settled(t, why) == IF t \in alone /\ excuse # Overtaken THEN why ELSE Overtaken
\* the flags were reset while a scan still held what it had fetched before
Unread == scan.at \in {"send", "flag"}

\* user_change_sublink_confirm: link, then the whole row with the expiry it had read
WriteLink(t) ==
  /\ task[t].op = "link"
  /\ row' = [UpdateConfig(task[t].got, task[t].until) EXCEPT !.disabled = FALSE]
  /\ excuse' = Settled(t, IF service.active THEN {} ELSE {"unswitched"})
  /\ UNCHANGED missed

\* admin_service_regenerate_link
WriteRelink(t) ==
  /\ task[t].op = "relink"
  /\ row' = [UpdateConfigLink(task[t].got) EXCEPT !.disabled = FALSE]
  /\ excuse' = Settled(t, IF service.active THEN {} ELSE {"unswitched"})
  /\ UNCHANGED missed

\* set_config_link_disabled
WriteSwitch(t) ==
  /\ task[t].op \in {"disable", "enable"}
  /\ row' = Updated([row EXCEPT !.disabled = (task[t].op = "disable")])
  /\ excuse' = Settled(t, excuse \ {"unswitched"})
  /\ UNCHANGED missed

WriteDeleted(t) ==
  /\ task[t].op = "delete"
  /\ row' = SetConfigDeleted(TRUE)
  /\ excuse' = Settled(t, excuse \cup {"unswitched"})
  /\ UNCHANGED missed

\* admin_service_renew: only the link, and only when the answer had one
WriteRenew(t) ==
  LET got == task[t].got IN
  /\ task[t].op = "renew"
  /\ row' = [IF got = None THEN row ELSE UpdateConfigLink(got) EXCEPT !.disabled = FALSE]
  /\ excuse' = Settled(t, excuse)
  /\ missed' = (Unread \/ got = None)

\* Mutant: the answer's link is stored even when there is none.
StoredAnswer(t) == task[t].got

\* the link of the answer, or the one read at the start
Stored(t) == IF task[t].got = None THEN task[t].link ELSE task[t].got

\* _fulfill_custom_renew: the expiry of a second question to the panel, or the one read
\* at the start; sub_link_disabled stays
WriteRenewal(t) ==
  /\ task[t].op = "renewal"
  /\ \E until \in {service.until, task[t].until} :
       row' = UpdateConfig(Stored(t), until)
  /\ excuse' = Settled(t, excuse \cup {"unswitched"})
  /\ missed' = Unread

Write(t) ==
  /\ task[t].at = "answered"
  /\ \/ WriteLink(t) \/ WriteRelink(t) \/ WriteSwitch(t)
     \/ WriteDeleted(t) \/ WriteRenew(t) \/ WriteRenewal(t)
  /\ Finishes(t)
  /\ UNCHANGED <<service, today, scan, asked, told, bounds>>

---------------------------------------------------------------------------
\* Handlers that only write

Writes(r, why) ==
  /\ row.there /\ r # row
  /\ row' = r /\ excuse' = IF excuse = Overtaken THEN excuse ELSE excuse \cup why
  /\ UNCHANGED <<service, today, task, scan, told, alone, missed, scans, trouble>>

AdminServiceDelete ==
  Writes(SetConfigDeleted(TRUE), {}) /\ UNCHANGED <<asked, starts>>
\* admin_service_restore does not ask the panel
AdminServiceRestore ==
  Writes(SetConfigDeleted(FALSE), {"restored"}) /\ UNCHANGED <<asked, starts>>
AdminServicePurge ==
  Writes([there |-> FALSE, deleted |-> TRUE, link |-> Other, disabled |-> FALSE, flags |-> {},
          until |-> 0], {}) /\ UNCHANGED <<asked, starts>>

AskLink ==
  /\ ~asked /\ asked' = TRUE
  /\ starts < MaxStarts /\ starts' = starts + 1
  /\ UNCHANGED <<row, service, today, task, scan, told, alone, excuse, missed, scans, trouble>>

\* admin_service_edit_link_apply
AdminEditLink ==
  /\ asked /\ asked' = FALSE
  /\ \E link \in {service.link, Other} :
       Writes([UpdateConfigLink(link) EXCEPT !.disabled = FALSE],
              {"typed", "unswitched"})
  /\ UNCHANGED starts

\* admin_service_edit_link_apply, the service was purged meanwhile
AdminEditLinkGone ==
  /\ asked /\ ~row.there /\ asked' = FALSE
  /\ UNCHANGED <<row, service, today, task, scan, told, alone, excuse, missed, bounds>>

\* _finalize_send for the order of a renewal: a link typed by the admin
DeliverRenewal ==
  /\ \E link \in {service.link, Other} :
       Writes(UpdateConfig(link, today + 1), {"typed", "restored"})
  /\ starts < MaxStarts /\ starts' = starts + 1
  /\ UNCHANGED asked

---------------------------------------------------------------------------
\* check_usage_alerts and archive_expired_configs

ReadList ==
  /\ scan.at = "idle" /\ row.there /\ scans < MaxScans
  /\ scans' = scans + 1
  /\ scan' = IF row.deleted THEN [NoScan EXCEPT !.at = "archive"]
             ELSE [at |-> "fetch", link |-> row.link, flags |-> row.flags, todo |-> {}]
  /\ UNCHANGED <<row, service, today, task, asked, told, alone, excuse, missed, starts, trouble>>

ScanGoes(todo) ==
  scan' = IF todo = {} THEN [NoScan EXCEPT !.at = "archive"]
          ELSE [NoScan EXCEPT !.at = "send", !.todo = todo]

\* the alerts a scan sends: of 80 and 90 the higher one
ToSend(due, flags) ==
  {a \in due \ flags : a = "80" => "90" \notin due \ flags}

\* fetch_subscription_info with the link of the list: nothing unless it is in force
Fetch ==
  /\ scan.at = "fetch"
  /\ \/ ScanGoes(IF scan.link = service.link THEN ToSend(Due(service, today), scan.flags)
                 ELSE {})
     \/ ScanGoes({})
  /\ UNCHANGED <<row, service, today, task, asked, told, alone, excuse, missed, bounds>>

Next80(a) == IF a = "90" THEN {"80", "90"} ELSE {a}

\* usage first, then expiry, then ended; a send that raises counts as sent
SendAlert ==
  /\ scan.at = "send"
  /\ \E a \in scan.todo :
       /\ a = "expiry" => scan.todo \cap {"80", "90"} = {}
       /\ a = "ended" => scan.todo = {"ended"}
       /\ told' = told \cup (Next80(a) \cap Due(service, today))
       /\ scan' = [scan EXCEPT !.at = "flag", !.flags = {a}]
  /\ UNCHANGED <<row, service, today, task, asked, alone, excuse, missed, bounds>>

FlagAlert ==
  /\ scan.at = "flag"
  /\ row' = SetConfigAlertSent(UNION {Next80(a) : a \in scan.flags})
  /\ ScanGoes(scan.todo \ scan.flags)
  /\ UNCHANGED <<service, today, task, asked, told, alone, excuse, missed, bounds>>

\* archive_expired_configs, by the date in the row
Archive ==
  /\ scan.at = "archive"
  /\ row' = IF row.until < today THEN SetConfigDeleted(TRUE) ELSE row
  /\ scan' = NoScan
  /\ UNCHANGED <<service, today, task, asked, told, alone, excuse, missed, bounds>>

---------------------------------------------------------------------------
\* the process dies, perhaps between the two flags of an alert of 90 per cent;
\* the conversation is stored and survives
Crash ==
  /\ trouble < MaxTrouble
  /\ trouble' = trouble + 1
  /\ excuse' = IF \E t \in Tasks : task[t].at = "answered"
               THEN Overtaken ELSE excuse
  /\ missed' = (missed \/ \E t \in Tasks : task[t].at = "answered" /\ task[t].op \in Renewing)
  /\ task' = [t \in Tasks |-> NoTask] /\ alone' = {} /\ scan' = NoScan
  /\ row' \in {row} \cup
       (IF scan.at = "flag" /\ "90" \in scan.flags THEN {SetConfigAlertSent({"90"})} ELSE {})
  /\ UNCHANGED <<service, today, asked, told, starts, scans>>

ByBuyer(t) ==
  \/ UserChangeSublink(t) \/ UserDisableSublink(t) \/ UserEnableSublink(t)
  \/ ApiServiceDelete(t) \/ FulfillCustomRenew(t)

ByAdmin(t) ==
  AdminRegenerateLink(t) \/ AdminServiceRenew(t)

Next ==
  \/ \E t \in Tasks :
       \/ ByBuyer(t) \/ ByAdmin(t)
       \/ DeleteConfigApply(t) \/ AdminServiceDisable(t) \/ AdminServiceEnable(t)
       \/ CallPanel(t) \/ CallFails(t) \/ AnswerLost(t) \/ Write(t)
  \/ AdminServiceDelete \/ AdminServiceRestore \/ AdminServicePurge
  \/ AskLink \/ AdminEditLink \/ AdminEditLinkGone \/ DeliverRenewal
  \/ ReadList \/ Fetch \/ SendAlert \/ FlagAlert \/ Archive
  \/ Use \/ DayPasses \/ Crash

Spec == Init /\ [][Next]_vars

---------------------------------------------------------------------------
\* The variables hold what the table, the panel and the handlers can hold.
TypeOK ==
  /\ row \in [there : BOOLEAN, deleted : BOOLEAN, link : Links \cup {Other},
              disabled : BOOLEAN, flags : SUBSET Alerts, until : Nat]
  /\ service \in [kind : {"marzban", "shahrah"}, there : BOOLEAN, link : Links,
                  active : BOOLEAN, used : Levels, until : Nat]
  /\ today \in 0..MaxDays
  /\ task \in [Tasks -> [at : {"idle", "calling", "answered"},
                         op : {"none", "link", "relink", "disable", "enable", "delete"}
                              \cup Renewing,
                         link : Links \cup {None, Other}, until : Nat,
                         got : Links \cup {None}]]
  /\ scan \in [at : {"idle", "fetch", "send", "flag", "archive"},
               link : Links \cup {None, Other}, flags : SUBSET Alerts, todo : SUBSET Alerts]
  /\ asked \in BOOLEAN /\ told \subseteq Alerts /\ alone \subseteq Tasks
  /\ excuse \in {Overtaken} \cup SUBSET {"typed", "restored", "unswitched"}
  /\ missed \in BOOLEAN
  /\ starts \in 0..MaxStarts /\ scans \in 0..MaxScans /\ trouble \in 0..MaxTrouble

\* With no handler between the panel and its writes, a row the buyer sees stands for a
\* service that exists, has the link in force and the switch as it is at the panel -
\* unless two handlers overlapped, an answer was lost or the process died after the panel
\* had acted, the admin typed the link or restored the row, or (the switch alone) a link
\* change, a deletion or a paid renewal left sub_link_disabled to itself.
RowFollowsPanel ==
  /\ row.there /\ ~row.deleted
  /\ \A t \in Tasks : task[t].at # "answered"
  /\ excuse # Overtaken
  => /\ service.there \/ "restored" \in excuse
     /\ row.link = service.link \/ "typed" \in excuse \/ ~service.there
     /\ row.disabled # service.active \/ "unswitched" \in excuse \/ ~service.there

\* An alert that is due and marked as sent has been sent since it became due, however the
\* scan interleaves with renewals and link changes - unless a renewal reset the flags
\* while the scan held older usage, or did not reset them (no link in the answer, a lost
\* answer, a crash).  alert_ended_sent is left out: no renewal resets it.
FlagsTold ==
  /\ row.there /\ ~missed
  /\ \A t \in Tasks : task[t].at # "answered"
  => (row.flags \cap Due(service, today)) \ {"ended"} \subseteq told

=============================================================================
