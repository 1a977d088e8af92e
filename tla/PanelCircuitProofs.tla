------------------------- MODULE PanelCircuitProofs -------------------------
(***************************************************************************)
(* The circuit breaker for any number of callers, any threshold and any    *)
(* cooldown.  A probe is alone because it holds probe_claimed, which only  *)
(* a recorded outcome resets.                                              *)
(***************************************************************************)
EXTENDS PanelCircuit, TLAPS

(* The three columns agree: the circuit is open when and only when the     *)
(* failures have reached the threshold, and then it has an opening time.   *)
ColumnsAgree == (open <=> failures = Threshold) /\ (open <=> age # Never)

(* A call that probes an open circuit holds the claim.                     *)
ProbeHeld == open /\ ~stray /\ probing # {} => probe

IInv == TypeOK /\ ColumnsAgree /\ ProbeAlone /\ ProbeHeld

-----------------------------------------------------------------------------
(* The outcome of a call keeps the types and the agreement of the columns, *)
(* and leaves the probe to at most the caller that had it.                 *)
LEMMA RecordKeeps ==
  ASSUME IInv, NEW c \in Callers, NEW ok \in BOOLEAN, Record(c, ok)
  PROVE  /\ failures' \in 0..Threshold /\ open' \in BOOLEAN
         /\ age' \in Never..Cooldown /\ probe' \in BOOLEAN
         /\ probing' \subseteq Callers /\ stray' \in BOOLEAN
         /\ ColumnsAgree' /\ ProbeAlone' /\ ProbeHeld'
<1> USE CircuitAssumption DEF IInv, TypeOK, Record, Never
<1>1. failures' \in 0..Threshold /\ open' \in BOOLEAN /\ probe' \in BOOLEAN
  <2>1. failures' \in 0..Threshold
    OBVIOUS
  <2>2. open' \in BOOLEAN /\ probe' \in BOOLEAN
    BY Zenon
  <2> QED BY <2>1, <2>2
<1>2. age' \in Never..Cooldown
  OBVIOUS
<1>3. probing' \subseteq Callers /\ stray' \in BOOLEAN
  OBVIOUS
<1>4. ColumnsAgree'
  <2>1. open' <=> failures' = Threshold
    BY Zenon
  <2>2. CASE ok
    <3>1. failures' = 0 /\ age' = Never
      BY <2>2
    <3> QED BY <2>1, <3>1 DEF ColumnsAgree
  <2>3. CASE ~ok
    <3>1. age' = IF age = Never /\ open' THEN 0 ELSE age
      BY <2>3
    <3>2. open <=> age # Never
      BY DEF ColumnsAgree
    <3>3. open => open'
      BY <2>1, <2>3 DEF ColumnsAgree
    <3>4. open' <=> age' # Never
      BY <3>1, <3>2, <3>3, 0 # -1
    <3> QED BY <2>1, <3>4 DEF ColumnsAgree
  <2> QED BY <2>2, <2>3
<1>5. ProbeAlone' /\ ProbeHeld'
  <2>1. CASE open /\ open'
    <3>1. probing' = probing \ {c} /\ stray' = (stray \/ (probing # {} /\ c \notin probing))
      BY <2>1
    <3>2. ASSUME ~stray' PROVE probing' = {}
      <4>1. ~stray /\ (probing = {} \/ c \in probing)
        BY <3>1, <3>2
      <4>2. \A d \in probing : d = c
        BY <4>1, <2>1 DEF ProbeAlone
      <4> QED BY <4>2, <3>1
    <3> QED BY <3>2 DEF ProbeAlone, ProbeHeld
  <2>2. CASE ~(open /\ open')
    <3>1. probing' = {}
      BY <2>2
    <3> QED BY <3>1 DEF ProbeAlone, ProbeHeld
  <2> QED BY <2>1, <2>2
<1> QED BY <1>1, <1>2, <1>3, <1>4, <1>5

(* The claim and the end of a call that records nothing.                   *)
LEMMA ClaimKeeps ==
  ASSUME IInv, NEW c \in Callers, Claim(c)
  PROVE  IInv'
<1> USE DEF IInv, TypeOK, Claim
<1>1. TypeOK'
  <2>1. call' \in [Callers -> Call]
    <3>1. CASE Through(c)
      BY <3>1 DEF Through, Call, Places
    <3>2. CASE Refused(c)
      BY <3>2 DEF Refused, Call, Idle, Places, Kinds
    <3> QED BY <3>1, <3>2
  <2>2. probe' \in BOOLEAN /\ probing' \subseteq Callers
    BY Zenon
  <2> QED BY <2>1, <2>2
<1>2. ColumnsAgree'
  BY DEF ColumnsAgree, Never
<1>3. ProbeAlone' /\ ProbeHeld'
  <2>1. CASE probe
    BY <2>1 DEF ProbeAlone, ProbeHeld
  <2>2. CASE ~probe
    <3>1. probe' /\ open' = open /\ stray' = stray
      BY <2>2
    <3>2. open /\ ~stray => probing = {} /\ probing' = {c}
      BY <2>2 DEF ProbeHeld
    <3> QED BY <3>1, <3>2 DEF ProbeAlone, ProbeHeld
  <2> QED BY <2>1, <2>2
<1> QED BY <1>1, <1>2, <1>3

LEMMA UnrecordedKeeps ==
  ASSUME IInv, NEW c \in Callers, Unrecorded(c)
  PROVE  /\ UNCHANGED <<failures, open, age, probe, stray>> /\ probing' \subseteq Callers
         /\ ColumnsAgree' /\ ProbeAlone' /\ ProbeHeld'
BY DEF IInv, TypeOK, Unrecorded, health, ColumnsAgree, ProbeAlone, ProbeHeld, Never

-----------------------------------------------------------------------------
LEMMA Inductive == IInv /\ [Next]_vars => IInv'
<1> SUFFICES ASSUME IInv, [Next]_vars PROVE IInv'
  OBVIOUS
<1>1. CASE Tick
  BY <1>1, CircuitAssumption DEF IInv, TypeOK, Tick, Never, ColumnsAgree, ProbeAlone, ProbeHeld
<1>2. CASE Turn
  BY <1>2 DEF IInv, TypeOK, Turn, health, Never, ColumnsAgree, ProbeAlone, ProbeHeld
<1>3. CASE Crash
  <2>1. TypeOK'
    BY <1>3 DEF IInv, TypeOK, Crash, Spend, health, Idle, Call, Places, Kinds
  <2> QED BY <2>1, <1>3 DEF IInv, Crash, health, Never, ColumnsAgree, ProbeAlone, ProbeHeld
<1>4. ASSUME NEW c \in Callers, Guard(c) \/ GuardRaises(c) \/ \E op \in Ops : Start(c, op)
      PROVE  IInv'
  <2>1. UNCHANGED <<failures, open, age, probe, up, probing, stray>>
    BY <1>4 DEF Guard, GuardRaises, Start, health
  <2>2. TypeOK'
    <3> USE DEF IInv, TypeOK, Idle, Call, Places, Kinds
    <3>1. CASE Guard(c)
      <4>1. spent' = spent
        BY <3>1 DEF Guard
      <4>2. CASE Through(c)
        BY <2>1, <4>1, <4>2 DEF Through
      <4>3. CASE Refused(c)
        BY <2>1, <4>1, <4>3 DEF Refused
      <4>4. CASE call' = [call EXCEPT ![c].at = "claim"]
        BY <2>1, <4>1, <4>4
      <4> QED BY <3>1, <4>2, <4>3, <4>4 DEF Guard
    <3>2. CASE GuardRaises(c)
      <4>1. spent' \in [{"faults", "crashes"} -> Nat]
        BY <3>2 DEF GuardRaises, Spend
      <4>2. \/ call' = [call EXCEPT ![c] = Idle]
            \/ call' = [call EXCEPT ![c].at = "out", ![c].mute = TRUE]
        BY <3>2 DEF GuardRaises
      <4>3. call' \in [Callers -> Call]
        <5>1. CASE call' = [call EXCEPT ![c] = Idle]
          BY <5>1
        <5>2. CASE call' = [call EXCEPT ![c].at = "out", ![c].mute = TRUE]
          <6>1. [call[c] EXCEPT !.at = "out", !.mute = TRUE] \in Call
            OBVIOUS
          <6>2. call' = [call EXCEPT ![c] = [call[c] EXCEPT !.at = "out", !.mute = TRUE]]
            BY <5>2
          <6> QED BY <6>1, <6>2
        <5> QED BY <4>2, <5>1, <5>2
      <4> QED BY <2>1, <4>1, <4>3
    <3>3. ASSUME NEW op \in Ops, Start(c, op) PROVE TypeOK'
      BY <2>1, <3>3, CircuitAssumption DEF Start
    <3> QED BY <1>4, <3>1, <3>2, <3>3
  <2> QED BY <2>1, <2>2 DEF IInv, Never, ColumnsAgree, ProbeAlone, ProbeHeld
<1>5. ASSUME NEW c \in Callers, Claim(c) PROVE IInv'
  BY <1>5, ClaimKeeps
<1>6. ASSUME NEW c \in Callers, Answer(c) PROVE IInv'
  <2> USE <1>6 DEF Answer
  <2>1. call' \in [Callers -> Call] /\ UNCHANGED <<up, spent>>
    BY DEF IInv, TypeOK, Idle, Call, Places, Kinds
  <2>2. CASE Record(c, up)
    <3>1. up \in BOOLEAN
      BY DEF IInv, TypeOK
    <3> QED BY <2>1, <2>2, <3>1, RecordKeeps DEF IInv, TypeOK
  <2>3. CASE Unrecorded(c)
    BY <2>1, <2>3, UnrecordedKeeps DEF IInv, TypeOK
  <2> QED BY <2>2, <2>3
<1>7. ASSUME NEW c \in Callers, Conclude(c) PROVE IInv'
  <2> DEFINE ok == call[c].at = "again" /\ call[c].ok
  <2>1. call' \in [Callers -> Call] /\ UNCHANGED <<up, spent>>
    BY <1>7 DEF Conclude, IInv, TypeOK, Idle, Call, Places, Kinds
  <2>2. ok \in BOOLEAN /\ Record(c, ok)
    BY <1>7 DEF Conclude
  <2> HIDE DEF ok
  <2> QED BY <2>1, <2>2, RecordKeeps DEF IInv, TypeOK
<1>8. CASE UNCHANGED vars
  BY <1>8 DEF IInv, TypeOK, vars, health, Never, ColumnsAgree, ProbeAlone, ProbeHeld
<1> QED BY <1>1, <1>2, <1>3, <1>4, <1>5, <1>6, <1>7, <1>8 DEF Next, Step

THEOREM Invariance == Spec => []IInv
<1>1. Init => IInv
  <2> SUFFICES ASSUME Init PROVE IInv
    OBVIOUS
  <2>1. TypeOK
    <3>1. call \in [Callers -> Call] /\ spent \in [{"faults", "crashes"} -> Nat]
      BY DEF Init, Idle, Call, Places, Kinds
    <3>2. failures \in 0..Threshold /\ age \in Never..Cooldown /\ up \in BOOLEAN
      BY CircuitAssumption DEF Init, Never
    <3>3. open \in BOOLEAN /\ probe \in BOOLEAN /\ stray \in BOOLEAN /\ probing \subseteq Callers
      BY DEF Init
    <3> QED BY <3>1, <3>2, <3>3 DEF TypeOK
  <2>2. ColumnsAgree /\ ProbeAlone /\ ProbeHeld
    BY CircuitAssumption DEF Init, Never, ColumnsAgree, ProbeAlone, ProbeHeld
  <2> QED BY <2>1, <2>2 DEF IInv
<1> QED BY <1>1, Inductive, PTL DEF Spec

(* The row of panel_health and the calls keep their types.                 *)
THEOREM TypeCorrect == Spec => []TypeOK
<1>1. IInv => TypeOK
  BY DEF IInv
<1> QED BY <1>1, Invariance, PTL

(* circuit_open, failures and opened_at never contradict each other.       *)
THEOREM ColumnsConsistent == Spec => []ColumnsAgree
<1>1. IInv => ColumnsAgree
  BY DEF IInv
<1> QED BY <1>1, Invariance, PTL

(* Two calls probe an open circuit at once only after a call without the   *)
(* claim has reset it.                                                     *)
THEOREM OneProbeUnlessStray == Spec => []ProbeAlone
<1>1. IInv => ProbeAlone
  BY DEF IInv
<1> QED BY <1>1, Invariance, PTL

-----------------------------------------------------------------------------
(* No step leads out of a lock-out.                                        *)
LEMMA LockStep == TypeOK /\ LockedOut /\ [Next]_vars => LockedOut'
<1> SUFFICES ASSUME TypeOK, LockedOut, [Next]_vars PROVE LockedOut'
  OBVIOUS
<1> USE DEF LockedOut
<1>1. CASE Tick \/ Turn \/ UNCHANGED vars
  BY <1>1 DEF Tick, Turn, vars, health
<1>2. CASE Crash
  BY <1>2 DEF Crash, health, Idle
<1>3. ASSUME NEW c \in Callers, Guard(c) PROVE LockedOut'
  <2>1. open' /\ probe' /\ open /\ probe
    BY <1>3 DEF Guard, health
  <2>2. call[c].at = "guard" /\ ~call[c].inner
    BY <1>3 DEF Guard
  <2>3. \/ call' = [call EXCEPT ![c] = Idle]
        \/ call' = [call EXCEPT ![c].at = "claim"]
    BY <1>3, <2>2 DEF Guard, Refused
  <2> QED BY <2>1, <2>2, <2>3 DEF TypeOK, Call, Idle
<1>4. ASSUME NEW c \in Callers, Claim(c) PROVE LockedOut'
  <2>1. call[c].at = "claim" /\ ~call[c].inner
    BY <1>4 DEF Claim
  <2>2. call' = [call EXCEPT ![c] = Idle] /\ UNCHANGED <<open, probe>>
    BY <1>4, <2>1 DEF Claim, Refused
  <2> QED BY <2>1, <2>2 DEF TypeOK, Call, Idle
<1>5. ASSUME NEW c \in Callers, Answer(c) PROVE LockedOut'
  <2>1. call[c].at = "out" /\ call[c].mute /\ call[c].op # "check"
    BY <1>5 DEF Answer
  <2>2. call' = [call EXCEPT ![c] = Idle] /\ Unrecorded(c)
    BY <1>5, <2>1 DEF Answer
  <2> QED BY <2>2 DEF Unrecorded, health, TypeOK, Call, Idle
<1>6. ASSUME NEW c \in Callers, Conclude(c) PROVE LockedOut'
  BY <1>6 DEF Conclude
<1>7. ASSUME NEW c \in Callers, GuardRaises(c) PROVE LockedOut'
  <2>1. call[c].at \in {"guard", "claim"} /\ ~call[c].inner
    BY <1>7 DEF GuardRaises
  <2>2. UNCHANGED <<open, probe>>
    BY <1>7 DEF GuardRaises, health
  <2>3. \/ call' = [call EXCEPT ![c] = Idle]
        \/ /\ call[c].op # "check"
           /\ call' = [call EXCEPT ![c].at = "out", ![c].mute = TRUE]
    BY <1>7, <2>1 DEF GuardRaises
  <2> QED BY <2>1, <2>2, <2>3 DEF TypeOK, Call, Idle
<1>8. ASSUME NEW c \in Callers, NEW op \in Ops, Start(c, op) PROVE LockedOut'
  BY <1>8 DEF Start, health, TypeOK, Call, Idle
<1> QED BY <1>1, <1>2, <1>3, <1>4, <1>5, <1>6, <1>7, <1>8 DEF Next, Step

(* Once the probe is claimed by a call that is gone, the panel is never    *)
(* used again, whatever happens.                                           *)
THEOREM LockedForGood == Spec => LockStays
<1>1. TypeOK /\ [Next]_vars => [LockedOut => LockedOut']_vars
  BY LockStep DEF vars
<1> QED BY <1>1, TypeCorrect, PTL DEF Spec, LockStays

=============================================================================
