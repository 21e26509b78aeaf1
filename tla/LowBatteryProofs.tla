-------------------------- MODULE LowBatteryProofs --------------------------
(***************************************************************************)
(* Proofs about low_bat_check, for every range of battery levels and every *)
(* bound on wrong readings.                                                *)
(***************************************************************************)
EXTENDS LowBattery, TLAPS

USE BoundsAssumption
USE DEF THRESHOLD_PERCENT_LOW_BAT, THRESHOLD_PERCENT_EXTREMELY_LOW_BAT, MAX_LOW_BAT_COUNT

\* The percentage that is shown is one.
LEMMA RescaledRange == ASSUME NEW p \in Nat PROVE Rescaled(p) \in 0..100
BY DEF Rescaled

\* What the detection makes of the status and the count.
LEMMA DetectedCases ==
    ASSUME TypeOK, NEW p \in Nat
    PROVE  /\ Detected(p).status \in {0, 1}
           /\ Detected(p).count \in {0, low_bat_count}
           /\ ~usb /\ p \in 1..5 => Detected(p) = [status |-> 1, count |-> low_bat_count]
           /\ ~usb /\ p = 0 => Detected(p) = [status |-> low_bat_status, count |-> low_bat_count]
           /\ usb \/ p > 5 =>
                \/ low_bat_status = 1 /\ Detected(p) = [status |-> 0, count |-> 0]
                \/ low_bat_status = 0 /\ Detected(p) = [status |-> 0, count |-> low_bat_count]
BY DEF TypeOK, Detected

\* What one turn does to the status and the count, with the daemon running.
LEMMA TurnStep ==
    ASSUME IInv, NEW p \in Nat, Turn(p)
    PROVE  /\ low_bat_status' \in {0, 1} /\ icon' = low_bat_status' /\ shown' \in 0..100
           /\ low_bat_count' \in 0..MAX_LOW_BAT_COUNT /\ running' \in BOOLEAN
           /\ low_bat_status' = 0 => low_bat_count' = 0
           /\ running' <=> low_bat_count' < MAX_LOW_BAT_COUNT
           /\ ~usb /\ p \in 1..2 => low_bat_count' = low_bat_count + 1
           /\ ~usb /\ p = 0 => low_bat_count' \in {low_bat_count, low_bat_count + 1}
           /\ usb \/ p > 2 => low_bat_count' \in {0, low_bat_count}
<1>1. shown' \in 0..100
  BY RescaledRange DEF Turn
<1>2. low_bat_count \in 0..4 /\ (low_bat_status = 0 => low_bat_count = 0)
  BY DEF IInv, TypeOK, CountRight, Turn
<1> DEFINE d == Detected(p)
<1>3. low_bat_status' = d.status /\ icon' = d.status /\ running' = ~Exhausted(p)
      /\ low_bat_count' = IF d.status = 1 /\ p <= 2 THEN d.count + 1 ELSE d.count
  BY DEF Turn, Counted
<1>4. running' \in BOOLEAN
  BY <1>3, Zenon
<1>5. Exhausted(p) <=> d.status = 1 /\ low_bat_count' >= 5
  BY DEF Exhausted, Turn
<1>6. running' <=> ~(d.status = 1 /\ low_bat_count' >= 5)
  BY <1>3, <1>5, Zenon
<1>7. TypeOK
  BY DEF IInv
<1> HIDE DEF d
<1>8. /\ d.status \in {0, 1} /\ d.count \in {0, low_bat_count}
      /\ ~usb /\ p \in 1..5 => d.status = 1 /\ d.count = low_bat_count
      /\ ~usb /\ p = 0 => d.status = low_bat_status /\ d.count = low_bat_count
      /\ usb \/ p > 5 => d.status = 0 /\ (d.count = 0 \/ (low_bat_status = 0 /\ d.count = low_bat_count))
  BY <1>7, DetectedCases DEF d
<1>9. low_bat_count' \in 0..5 /\ (low_bat_status' = 0 => low_bat_count' = 0)
  BY <1>2, <1>3, <1>8
<1>10. running' <=> low_bat_count' < 5
  BY <1>3, <1>6, <1>8, <1>9
<1>11. /\ ~usb /\ p \in 1..2 => low_bat_count' = low_bat_count + 1
       /\ ~usb /\ p = 0 => low_bat_count' \in {low_bat_count, low_bat_count + 1}
       /\ usb \/ p > 2 => low_bat_count' \in {0, low_bat_count}
  BY <1>2, <1>3, <1>8
<1> QED
  BY <1>1, <1>3, <1>4, <1>8, <1>9, <1>10, <1>11

LEMMA InitRight == Init => IInv
<1> SUFFICES ASSUME Init PROVE IInv
  OBVIOUS
<1>1. running \in BOOLEAN /\ extreme \in BOOLEAN
  BY Zenon DEF Init
<1> QED
  BY <1>1 DEF Init, IInv, TypeOK, CountRight, Levels

\* Every step keeps the count right.
LEMMA StepRight == IInv /\ [Next]_vars => IInv'
<1> SUFFICES ASSUME IInv, [Next]_vars PROVE IInv'
  OBVIOUS
<1> USE DEF battery, Levels
<1>1. CASE Check
  <2>1. level \in Nat /\ Turn(level)
    BY <1>1 DEF Check, IInv, TypeOK
  <2>2. extreme' \in BOOLEAN
    <3>1. extreme' = (extreme \/ ExtremelyLow(level))
      BY <1>1 DEF Check
    <3> QED
      BY <3>1, Zenon
  <2>3. ~extreme' => ~extreme /\ (usb \/ level > 2)
    <3>1. ~extreme' => ~extreme /\ ~ExtremelyLow(level)
      BY <1>1, Zenon DEF Check
    <3> QED
      BY <2>1, <3>1 DEF ExtremelyLow
  <2>4. TypeOK'
    BY <1>1, <2>1, <2>2, TurnStep DEF IInv, TypeOK, Check
  <2>5. streak' <= low_bat_count'
    BY <1>1, <2>1, <2>4, TurnStep DEF IInv, TypeOK, CountRight, Check, ExtremelyLow
  <2>6. ~extreme' => low_bat_count' <= glitches'
    BY <1>1, <2>1, <2>3, TurnStep DEF IInv, TypeOK, CountRight, Check
  <2> QED
    BY <2>1, <2>4, <2>5, <2>6, TurnStep DEF IInv, CountRight
<1>2. CASE CheckGlitch
  <2>1. Turn(0)
    BY <1>2 DEF CheckGlitch
  <2>2. TypeOK'
    BY <1>2, <2>1, TurnStep DEF IInv, TypeOK, CheckGlitch
  <2>3. streak' <= low_bat_count'
    BY <1>2, <2>1, <2>2, TurnStep DEF IInv, TypeOK, CountRight, CheckGlitch
  <2>4. ~extreme' => low_bat_count' <= glitches'
    BY <1>2, <2>1, TurnStep DEF IInv, TypeOK, CountRight, CheckGlitch
  <2> QED
    BY <2>1, <2>2, <2>3, <2>4, TurnStep DEF IInv, CountRight
<1>3. CASE BatteryChanges
  BY <1>3 DEF BatteryChanges, IInv, TypeOK, CountRight, daemon
<1>4. CASE UNCHANGED vars
  BY <1>4 DEF vars, IInv, TypeOK, CountRight, daemon
<1> QED
  BY <1>1, <1>2, <1>3, <1>4 DEF Next

\* The count is right in every state of low_bat_check.
LEMMA AlwaysRight == Spec => []IInv
BY InitRight, StepRight, PTL DEF Spec

\* Types: in particular the count never passes MAX_LOW_BAT_COUNT, and the icon
\* always shows the status.
THEOREM TypeCorrect == Spec => []TypeOK
<1>1. IInv => TypeOK
  BY DEF IInv
<1> QED
  BY <1>1, AlwaysRight, PTL

\* Five right readings of an extremely low battery end the session of every
\* console, whatever the battery, the charger and the i2c bus do in between.
THEOREM ShutdownPrompt == Spec => []PromptShutdown
<1>1. IInv => PromptShutdown
  BY DEF IInv, TypeOK, CountRight, PromptShutdown
<1> QED
  BY <1>1, AlwaysRight, PTL

\* Fewer wrong readings than MAX_LOW_BAT_COUNT never shut the console down.
THEOREM ShutdownJustified ==
    ASSUME MaxGlitches < MAX_LOW_BAT_COUNT PROVE Spec => []NoSpuriousShutdown
<1>1. IInv => NoSpuriousShutdown
  BY DEF IInv, TypeOK, CountRight, NoSpuriousShutdown
<1> QED
  BY <1>1, AlwaysRight, PTL
=============================================================================
