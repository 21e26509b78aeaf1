----------------------------- MODULE LowBattery -----------------------------
(***************************************************************************)
(* low_bat_check: a loop that reads the battery level every two seconds,   *)
(* shows the low battery icon, and schedules a clean shutdown when the     *)
(* battery is extremely low.  A reading may be wrong: the i2c bus then     *)
(* delivers 0.                                                             *)
(***************************************************************************)
EXTENDS Naturals

CONSTANTS
    MaxLevel,       \* bound: the battery levels that are looked at, in percent
    MaxGlitches     \* bound: wrong readings in one session

ASSUME BoundsAssumption == MaxLevel \in Nat /\ MaxGlitches \in Nat

THRESHOLD_PERCENT_LOW_BAT == 5
THRESHOLD_PERCENT_EXTREMELY_LOW_BAT == 2
MAX_LOW_BAT_COUNT == 5

VARIABLES
    level,          \* the level of the battery
    usb,            \* the charger is present
    running,        \* the loop runs; it ends when it schedules the shutdown
    low_bat_status,
    low_bat_count,
    icon,           \* the low battery icon is shown
    shown,          \* /tmp/current_battery_percentage
    glitches,       \* wrong readings so far
    streak,         \* right readings of 1 or 2 percent on battery, with no charger
                    \* and no higher reading in between, up to MAX_LOW_BAT_COUNT
    extreme         \* the level on battery was really extremely low when read

battery == <<level, usb>>
daemon == <<running, low_bat_status, low_bat_count, icon, shown>>
vars == <<battery, daemon, glitches, streak, extreme>>

Levels == 0..MaxLevel

TypeOK ==
    /\ level \in Levels /\ usb \in BOOLEAN /\ running \in BOOLEAN
    /\ low_bat_status \in {0, 1} /\ low_bat_count \in 0..MAX_LOW_BAT_COUNT
    /\ icon = low_bat_status /\ shown \in 0..100
    /\ glitches \in 0..MaxGlitches /\ streak \in 0..MAX_LOW_BAT_COUNT /\ extreme \in BOOLEAN

\* The daemon starts; the percentage is written in its first turn.
Init ==
    /\ level \in Levels /\ usb \in BOOLEAN /\ running = TRUE
    /\ low_bat_status = 0 /\ low_bat_count = 0 /\ icon = 0 /\ shown = 0
    /\ glitches = 0 /\ streak = 0 /\ extreme = FALSE

-----------------------------------------------------------------------------

\* 120 percent of the reading, rounded, and at most 100.
Rescaled(percent) ==
    LET r == (percent * 120 + 50) \div 100 IN IF r < 100 THEN r ELSE 100

\* mutant: the status is reset at a low level as well
Detected_toggle(percent) ==
    IF ~usb /\ percent # 0 /\ percent <= THRESHOLD_PERCENT_LOW_BAT /\ low_bat_status = 0
    THEN [status |-> 1, count |-> low_bat_count]
    ELSE IF low_bat_status = 1
    THEN [status |-> 0, count |-> 0]
    ELSE [status |-> low_bat_status, count |-> low_bat_count]

\* The status and the count after the detection; a reading of 0 changes nothing.
Detected(percent) ==
    IF ~usb /\ percent # 0 /\ percent <= THRESHOLD_PERCENT_LOW_BAT /\ low_bat_status = 0
    THEN [status |-> 1, count |-> low_bat_count]
    ELSE IF /\ low_bat_status = 1
            /\ usb \/ percent > THRESHOLD_PERCENT_LOW_BAT
    THEN [status |-> 0, count |-> 0]
    ELSE [status |-> low_bat_status, count |-> low_bat_count]

\* mutant: the count goes on at every low level
Counted_low(percent) ==
    LET d == Detected(percent) IN
    IF d.status = 1 THEN d.count + 1 ELSE d.count

\* The count after one more extremely low reading.
Counted(percent) ==
    LET d == Detected(percent) IN
    IF d.status = 1 /\ percent <= THRESHOLD_PERCENT_EXTREMELY_LOW_BAT
    THEN d.count + 1 ELSE d.count

\* mutant: one reading too many
Exhausted_late(percent) ==
    Counted(percent) > MAX_LOW_BAT_COUNT

Exhausted(percent) ==
    Detected(percent).status = 1 /\ Counted(percent) >= MAX_LOW_BAT_COUNT

\* One turn of the loop with the given reading; the shutdown is scheduled and
\* the daemon ends when the battery is exhausted.
Turn(percent) ==
    /\ running
    /\ shown' = Rescaled(percent)
    /\ low_bat_status' = Detected(percent).status
    /\ icon' = Detected(percent).status
    /\ low_bat_count' = Counted(percent)
    /\ running' = ~Exhausted(percent)

ExtremelyLow(percent) == ~usb /\ percent <= THRESHOLD_PERCENT_EXTREMELY_LOW_BAT

\* A right reading.
Check ==
    /\ Turn(level)
    /\ streak' = IF ~ExtremelyLow(level) THEN 0
                 ELSE IF level = 0 \/ streak = MAX_LOW_BAT_COUNT THEN streak
                 ELSE streak + 1
    /\ extreme' = (extreme \/ ExtremelyLow(level))
    /\ UNCHANGED <<battery, glitches>>

\* A wrong reading.
CheckGlitch ==
    /\ glitches < MaxGlitches /\ glitches' = glitches + 1
    /\ Turn(0)
    /\ streak' = IF usb THEN 0 ELSE streak
    /\ UNCHANGED <<battery, extreme>>

\* The battery is used or charged, the charger plugged in or out.
BatteryChanges ==
    /\ running
    /\ level' \in Levels /\ usb' \in BOOLEAN
    /\ UNCHANGED <<daemon, glitches, streak, extreme>>

Next == Check \/ CheckGlitch \/ BatteryChanges

\* The daemon's loop goes on.
Spec == Init /\ [][Next]_vars /\ WF_vars(Check)

-----------------------------------------------------------------------------
(* Properties                                                              *)

\* "Value of 0 means wrong i2c reading" (low_bat_check:56): fewer wrong readings
\* than MAX_LOW_BAT_COUNT do not shut the console down, however they mix with
\* low levels and with charging; an extremely low level has really been read.
\* (The count is kept at levels of 3 to 5 percent, so wrong readings add up.)
NoSpuriousShutdown == ~running => extreme

\* Five readings of an extremely low battery, with wrong ones in between or not,
\* are enough: the console is shut down before it is read a sixth time.
PromptShutdown == streak >= MAX_LOW_BAT_COUNT => ~running

\* The inductive invariant behind both: the count is that of the readings that
\* were counted, and it is below the limit as long as the daemon runs.
CountRight ==
    /\ low_bat_status = 0 => low_bat_count = 0
    /\ streak <= low_bat_count
    /\ ~extreme => low_bat_count <= glitches
    /\ running <=> low_bat_count < MAX_LOW_BAT_COUNT

IInv == TypeOK /\ CountRight

\* A console that stays on an extremely low battery is shut down.
LowBatteryShutsDown == <>[](~usb /\ level \in 1..2) => <>(~running)
=============================================================================
