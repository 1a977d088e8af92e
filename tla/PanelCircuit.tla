---------------------------- MODULE PanelCircuit ----------------------------
(***************************************************************************)
(* The circuit breaker around one VPN panel.  The columns of its row of    *)
(* panel_health are read and written in transactions of their own by every *)
(* coroutine and Flask thread that calls the panel; between them lies the  *)
(* request.  Which outcomes are written depends on the operation.          *)
(***************************************************************************)
EXTENDS Integers, FiniteSets

CONSTANTS
  Callers,     \* coroutines and threads that use the panel
  Ops,         \* operations of panels.py in use
  Threshold,   \* FAILURE_THRESHOLD
  Cooldown,    \* COOLDOWN_SECONDS, in ticks
  MaxFaults,   \* bound: database calls of the guard that raise
  MaxCrashes   \* bound: how often the process dies

(* "switch": disable_service, enable_service, create_service on Shahrah;   *)
(* "create": create_service elsewhere, renew_service; "snapshot":          *)
(* get_service_snapshot; "check": panel_health_check.                      *)
Kinds == {"switch", "create", "snapshot", "check"}

ASSUME CircuitAssumption ==
  /\ Ops \subseteq Kinds
  /\ Threshold \in Nat \ {0} /\ Cooldown \in Nat
  /\ MaxFaults \in Nat /\ MaxCrashes \in Nat

VARIABLES
  failures,   \* column failures, which is only compared with Threshold
  open,       \* column circuit_open
  age,        \* ticks since opened_at, at most Cooldown; Never for NULL
  probe,      \* column probe_claimed
  up,         \* the panel answers requests
  call,       \* what each caller does
  spent,      \* how much of each bound is used
  probing,    \* history: callers that claimed the probe of this open circuit
  stray       \* history: one that had not freed the probe of one that had

health == <<failures, open, age, probe>>
vars == <<health, up, call, spent, probing, stray>>

Never == -1
Places == {"idle", "guard", "claim", "out", "refused", "again"}

(* inner: the guard of get_panel_info inside panel_health_check; mute: the *)
(* guard raised and left no way to record; ok: what the panel answered.    *)
Call == [at : Places, op : Kinds, inner : BOOLEAN, mute : BOOLEAN, ok : BOOLEAN]
Idle == [at |-> "idle", op |-> "switch", inner |-> FALSE, mute |-> FALSE, ok |-> FALSE]

TypeOK ==
  /\ failures \in 0..Threshold
  /\ open \in BOOLEAN
  /\ age \in Never..Cooldown
  /\ probe \in BOOLEAN
  /\ up \in BOOLEAN
  /\ call \in [Callers -> Call]
  /\ spent \in [{"faults", "crashes"} -> Nat]
  /\ probing \subseteq Callers
  /\ stray \in BOOLEAN

Init ==
  /\ failures = 0 /\ open = FALSE /\ age = Never /\ probe = FALSE
  /\ up \in BOOLEAN
  /\ call = [c \in Callers |-> Idle]
  /\ spent = [b \in {"faults", "crashes"} |-> 0]
  /\ probing = {} /\ stray = FALSE

-----------------------------------------------------------------------------
Spend(b) ==
  /\ spent[b] < (IF b = "faults" THEN MaxFaults ELSE MaxCrashes)
  /\ spent' = [spent EXCEPT ![b] = @ + 1]

Tick ==
  /\ age \in 0..(Cooldown - 1)
  /\ age' = age + 1
  /\ UNCHANGED <<failures, open, probe, up, call, spent, probing, stray>>

Turn ==
  /\ up' = ~up
  /\ UNCHANGED <<health, call, spent, probing, stray>>

(* time.time() - float(opened_at or 0) >= COOLDOWN_SECONDS                 *)
Cooled == age \in {Never, Cooldown}

(* The guard lets c through: panel_health_check goes on to get_panel_info, *)
(* whose guard it passes as well; any other operation sends its request.   *)
Through(c) ==
  call' = IF call[c].op = "check" /\ ~call[c].inner
          THEN [call EXCEPT ![c].at = "guard", ![c].inner = TRUE]
          ELSE [call EXCEPT ![c].at = "out"]

(* It does not: the operation ends, or panel_health_check goes on with the *)
(* refusal as the answer of get_panel_info.                                *)
Refused(c) ==
  call' = IF call[c].inner THEN [call EXCEPT ![c].at = "refused"]
          ELSE [call EXCEPT ![c] = Idle]

Start(c, op) ==
  /\ call[c].at = "idle"
  /\ call' = [call EXCEPT ![c] = [Idle EXCEPT !.at = "guard", !.op = op]]
  /\ UNCHANGED <<health, up, spent, probing, stray>>

(* before_panel_call reads the row ...                                     *)
Guard(c) ==
  /\ call[c].at = "guard"
  /\ \/ ~open /\ Through(c)
     \/ open /\ ~Cooled /\ Refused(c)
     \/ open /\ Cooled /\ call' = [call EXCEPT ![c].at = "claim"]
  /\ UNCHANGED <<health, up, spent, probing, stray>>

(* (A claim that does not look at probe_claimed.)                          *)
ClaimAlways(c) ==
  /\ call[c].at = "claim"
  /\ Through(c)
  /\ probe' = TRUE
  /\ probing' = IF open THEN probing \cup {c} ELSE probing
  /\ UNCHANGED <<failures, open, age, up, spent, stray>>

(* ... and claims the probe of a circuit that was open and has cooled.     *)
Claim(c) ==
  /\ call[c].at = "claim"
  /\ IF probe
     THEN Refused(c) /\ UNCHANGED <<probe, probing>>
     ELSE /\ Through(c)
          /\ probe' = TRUE
          /\ probing' = IF open THEN probing \cup {c} ELSE probing
  /\ UNCHANGED <<failures, open, age, up, spent, stray>>

(* A database call of the guard raises: _panel_guard lets the call pass    *)
(* unrecorded, panel_health_check itself does not catch it.                *)
GuardRaises(c) ==
  /\ call[c].at \in {"guard", "claim"}
  /\ Spend("faults")
  /\ call' = IF call[c].op = "check" /\ ~call[c].inner
             THEN [call EXCEPT ![c] = Idle]
             ELSE [call EXCEPT ![c].at = "out", ![c].mute = TRUE]
  /\ UNCHANGED <<health, up, probing, stray>>

(* record_panel_health_result with a success that takes back one failure.  *)
RecordDecrements(c, ok) ==
  /\ failures' = IF ok THEN failures - 1 ELSE IF failures < Threshold THEN failures + 1 ELSE failures
  /\ open' = (failures' = Threshold)
  /\ age' = IF ok THEN Never ELSE IF age = Never /\ open' THEN 0 ELSE age
  /\ probe' = FALSE
  /\ probing' = probing \ {c}
  /\ stray' = stray

(* record_panel_health_result for the outcome of c: opened_at is kept while*)
(* the circuit stays open, and probe_claimed is reset whoever claimed it.  *)
Record(c, ok) ==
  /\ failures' = IF ok THEN 0 ELSE IF failures < Threshold THEN failures + 1 ELSE failures
  /\ open' = (failures' = Threshold)
  /\ age' = IF ok THEN Never ELSE IF age = Never /\ open' THEN 0 ELSE age
  /\ probe' = FALSE
  /\ IF open /\ open'
     THEN /\ probing' = probing \ {c}
          /\ stray' = (stray \/ (probing # {} /\ c \notin probing))
     ELSE probing' = {} /\ stray' = FALSE

(* c ends without having recorded anything.                                *)
Unrecorded(c) ==
  /\ probing' = probing \ {c}
  /\ UNCHANGED <<health, stray>>

(* The operations that record the outcome ok.                              *)
Records(op, ok) == op \in {"switch", "check"} \/ (op = "create" /\ ok)

(* The panel answers, or the request times out.                            *)
Answer(c) ==
  /\ call[c].at = "out"
  /\ IF Records(call[c].op, up) /\ ~call[c].mute THEN Record(c, up) ELSE Unrecorded(c)
  /\ call' = IF call[c].op = "check"
             THEN [call EXCEPT ![c].at = "again", ![c].ok = up]
             ELSE [call EXCEPT ![c] = Idle]
  /\ UNCHANGED <<up, spent>>

(* panel_health_check records what get_panel_info returned, a second time  *)
(* or, after a refusal, for the first.                                     *)
Conclude(c) ==
  /\ call[c].at \in {"refused", "again"}
  /\ Record(c, call[c].at = "again" /\ call[c].ok)
  /\ call' = [call EXCEPT ![c] = Idle]
  /\ UNCHANGED <<up, spent>>

(* The process dies; panel_health is in the database.                      *)
Crash ==
  /\ Spend("crashes")
  /\ call' = [c \in Callers |-> Idle]
  /\ probing' = {}
  /\ UNCHANGED <<health, up, stray>>

-----------------------------------------------------------------------------
Step(c) == Guard(c) \/ Claim(c) \/ Answer(c) \/ Conclude(c)

Next ==
  \/ Tick \/ Turn \/ Crash
  \/ \E c \in Callers : Step(c) \/ GuardRaises(c) \/ \E op \in Ops : Start(c, op)

Spec == Init /\ [][Next]_vars

-----------------------------------------------------------------------------
(* While the circuit is open at most one call probes the panel, unless a   *)
(* call that did not hold the probe has freed it by recording its outcome. *)
ProbeAlone ==
  open /\ ~stray => \A c, d \in probing : c = d

(* The circuit is open, its probe is claimed, and no call that could still *)
(* record an outcome is under way.                                         *)
LockedOut ==
  /\ open /\ probe
  /\ \A c \in Callers :
       \/ call[c].at = "idle"
       \/ call[c].at \in {"guard", "claim"} /\ ~call[c].inner
       \/ call[c].at = "out" /\ call[c].mute /\ call[c].op # "check"

(* That is for good: whatever is tried on the panel afterwards, health     *)
(* checks, time and restarts of the process included, nothing frees it.    *)
LockStays == [][LockedOut => LockedOut']_vars

=============================================================================
