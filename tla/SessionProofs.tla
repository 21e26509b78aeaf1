--------------------------- MODULE SessionProofs ---------------------------
(***************************************************************************)
(* Proofs about Session.  For any number of shutdown requests, overlapping *)
(* or not, and of power cuts: a saved game is complete and on the card     *)
(* before its shutdown is announced, and its file is gone while it plays.  *)
(* When one shutdown is requested at a time and programs answer in the     *)
(* grace period (Timely): it is left half-written by power cuts alone, its *)
(* OPK is there when it is resumed, and the scripts implement SavedGame.   *)
(***************************************************************************)
EXTENDS Session, TLAPS

USE BoundsAssumption, ModeAssumption

-----------------------------------------------------------------------------
(* Types.                                                                  *)

\* Every step keeps the values of the variables in their types.
LEMMA TypeStep == TypeOK /\ [Next]_vars => TypeOK'
<1> SUFFICES ASSUME TypeOK, [Next]_vars PROVE TypeOK'
  OBVIOUS
<1> USE DEF Shell, powerVars, fileVars, frontVars
<1> DEFINE Flags == /\ power \in BOOLEAN /\ halting \in BOOLEAN /\ rebooting \in BOOLEAN
                    /\ disabled \in BOOLEAN /\ lock \in BOOLEAN
                    /\ lastOpk \in BOOLEAN /\ opk \in BOOLEAN /\ gameOpk \in BOOLEAN
<1>1. CASE Load_opk
  <2>1. Flags'
    BY <1>1, Zenon DEF Load_opk, TypeOK
  <2>2. QED
    BY <1>1, <2>1 DEF Load_opk, TypeOK, ShellSteps, Saves
<1>2. CASE Load_mv
  BY <1>2 DEF Load_mv, TypeOK, ShellSteps, Saves
<1>3. CASE Load_source
  <2>1. Flags'
    BY <1>3, Zenon DEF Load_source, TypeOK
  <2>2. QED
    BY <1>3, <2>1 DEF Load_source, TypeOK, ShellSteps, ProcSteps, Saves
<1>4. CASE Load_record \/ Load_wait \/ Load_erase \/ Load_rm \/ Load_tail
  <2>1. Flags'
    BY <1>4, Zenon DEF Load_record, Load_wait, Load_erase, Load_rm, Load_tail, TypeOK
  <2>2. CASE Load_record
    BY <2>1, <2>2 DEF Load_record, RecordPid, TypeOK, ShellSteps, Saves
  <2>3. CASE Load_wait
    BY <2>1, <2>3 DEF Load_wait, RecordPid, TypeOK, ShellSteps, Saves
  <2>4. CASE Load_erase
    BY <2>1, <2>4 DEF Load_erase, RecordPid, TypeOK, ShellSteps, Saves
  <2>5. CASE Load_rm
    BY <2>1, <2>5 DEF Load_rm, RecordPid, TypeOK, ShellSteps, Saves
  <2>6. CASE Load_tail
    BY <2>1, <2>6 DEF Load_tail, RecordPid, TypeOK, ShellSteps, Saves
  <2>7. QED
    BY <1>4, <2>2, <2>3, <2>4, <2>5, <2>6
<1>5. CASE Load_tailrm
  <2>1. Flags'
    BY <1>5, Zenon DEF Load_tailrm, TypeOK
  <2>2. QED
    BY <1>5, <2>1 DEF Load_tailrm, TypeOK, ShellSteps
<1>6. CASE Front_lock \/ Front_check \/ Front_preprm \/ Front_again
  <2>1. Flags'
    BY <1>6, Zenon DEF Front_lock, Front_check, Front_preprm, Front_again, TypeOK
  <2>2. QED
    BY <1>6, <2>1 DEF Front_lock, Front_check, Front_preprm, Front_again, TypeOK, ShellSteps
<1>7. CASE Front_prep \/ Front_record \/ Front_wait \/ Front_erase
  <2>1. Flags'
    BY <1>7, Zenon DEF Front_prep, Front_record, Front_wait, Front_erase, TypeOK
  <2>2. CASE Front_prep
    BY <2>1, <2>2 DEF Front_prep, RecordPid, TypeOK, ShellSteps
  <2>3. CASE Front_record
    BY <2>1, <2>3 DEF Front_record, RecordPid, TypeOK, ShellSteps
  <2>4. CASE Front_wait
    BY <2>1, <2>4 DEF Front_wait, RecordPid, TypeOK, ShellSteps
  <2>5. CASE Front_erase
    BY <2>1, <2>5 DEF Front_erase, RecordPid, TypeOK, ShellSteps
  <2>6. QED
    BY <1>7, <2>2, <2>3, <2>4, <2>5
<1>8. CASE Front_launch
  <2>1. Flags'
    BY <1>8, Zenon DEF Front_launch, TypeOK
  <2>2. QED
    BY <1>8, <2>1 DEF Front_launch, TypeOK, ShellSteps, ProcSteps
<1>9. CASE LauncherStep
  <2>1. Flags'
    BY <1>9, Zenon DEF LauncherStep, Launcher_record, Launcher_wait, Launcher_erase, TypeOK
  <2>2. CASE Launcher_record
    BY <2>1, <2>2 DEF Launcher_record, RecordPid, TypeOK, ProcSteps
  <2>3. CASE Launcher_wait
    BY <2>1, <2>3 DEF Launcher_wait, RecordPid, TypeOK, ProcSteps
  <2>4. CASE Launcher_erase
    BY <2>1, <2>4 DEF Launcher_erase, RecordPid, TypeOK, ProcSteps
  <2>5. QED
    BY <1>9, <2>2, <2>3, <2>4 DEF LauncherStep
<1>10. CASE SaveStep
  <2>1. Flags'
    BY <1>10, Zenon DEF SaveStep, Save_trunc, Save_trailer, TypeOK
  <2>2. CASE Save_trunc
    BY <2>1, <2>2 DEF Save_trunc, TypeOK, ProcSteps, Saves
  <2>3. CASE Save_trailer
    BY <2>1, <2>3 DEF Save_trailer, TypeOK, ProcSteps, Saves
  <2>4. QED
    BY <1>10, <2>2, <2>3 DEF SaveStep
<1>11. ASSUME NEW p \in {"fe", "gm"}, NowStep(p) PROVE TypeOK'
  <2>1. Flags'
    BY <1>11, Zenon DEF NowStep, Now_sync, Now_touch, Now_poweroff, TypeOK
  <2>2. CASE Now_sync(p)
    BY <2>1, <2>2 DEF Now_sync, Synced, TypeOK, ProcSteps
  <2>3. CASE Now_touch(p)
    BY <2>1, <2>3 DEF Now_touch, Synced, TypeOK, ProcSteps
  <2>4. CASE Now_poweroff(p)
    BY <2>1, <2>4 DEF Now_poweroff, Synced, TypeOK, ProcSteps
  <2>5. QED
    BY <1>11, <2>2, <2>3, <2>4 DEF NowStep
<1>12. ASSUME NEW i \in Scheds, ScheduleStep(i) \/ Schedule(i) PROVE TypeOK'
  <2>1. Flags'
    BY <1>12, Zenon DEF ScheduleStep, Schedule, Schedule_warn, Schedule_expire,
       Schedule_sync, Schedule_touch, Schedule_poweroff, TypeOK
  <2>2. CASE Schedule(i)
    BY <2>1, <2>2 DEF Schedule, Synced, TypeOK, ProcSteps, SchedSteps
  <2>3. CASE Schedule_warn(i)
    <3>1. sched' \in [Scheds -> SchedSteps]
      BY <2>3 DEF Schedule_warn, TypeOK, SchedSteps
    <3>2. proc' \in [{"fe", "gm"} -> ProcSteps]
      BY <2>3 DEF Schedule_warn, TypeOK, ProcSteps
    <3>3. usr1' \subseteq {"fe", "gm"}
      BY <2>3 DEF Schedule_warn, TypeOK
    <3>4. QED
      BY <2>1, <2>3, <3>1, <3>2, <3>3 DEF Schedule_warn, TypeOK
  <2>4. CASE Schedule_expire(i)
    BY <2>1, <2>4 DEF Schedule_expire, Synced, TypeOK, ProcSteps, SchedSteps
  <2>5. CASE Schedule_sync(i)
    BY <2>1, <2>5 DEF Schedule_sync, Synced, TypeOK, ProcSteps, SchedSteps
  <2>6. CASE Schedule_touch(i)
    BY <2>1, <2>6 DEF Schedule_touch, Synced, TypeOK, ProcSteps, SchedSteps
  <2>7. CASE Schedule_poweroff(i)
    BY <2>1, <2>7 DEF Schedule_poweroff, Synced, TypeOK, ProcSteps, SchedSteps
  <2>8. QED
    BY <1>12, <2>2, <2>3, <2>4, <2>5, <2>6, <2>7 DEF ScheduleStep
<1>13. ASSUME NEW f \in {"known", "none"}, SetFrontend(f) PROVE TypeOK'
  <2>1. Flags'
    BY <1>13, Zenon DEF SetFrontend, TypeOK
  <2>2. QED
    BY <1>13, <2>1 DEF SetFrontend, TypeOK, ProcSteps
<1>14. ASSUME NEW isOpk \in BOOLEAN, LaunchGame(isOpk) PROVE TypeOK'
  <2>1. Flags'
    BY <1>14, Zenon DEF LaunchGame, TypeOK
  <2>2. QED
    BY <1>14, <2>1 DEF LaunchGame, TypeOK, ProcSteps
<1>15. ASSUME NEW p \in {"fe", "gm"}, Quit(p) \/ ShutDown(p) \/ Handle(p) PROVE TypeOK'
  <2>1. Flags'
    BY <1>15, Zenon DEF Quit, ShutDown, Handle, TypeOK
  <2>2. CASE Quit(p)
    BY <2>1, <2>2 DEF Quit, TypeOK, ProcSteps, SchedSteps
  <2>3. CASE ShutDown(p)
    BY <2>1, <2>3 DEF ShutDown, TypeOK, ProcSteps, SchedSteps
  <2>4. CASE Handle(p)
    BY <2>1, <2>4 DEF Handle, TypeOK, ProcSteps, SchedSteps
  <2>5. QED
    BY <1>15, <2>2, <2>3, <2>4
<1>16. CASE PowerOff \/ PowerCut
  <2>1. Flags'
    BY <1>16, Zenon DEF PowerOff, PowerCut, SessionEnds, TypeOK
  <2>2. QED
    BY <1>16, <2>1 DEF PowerOff, PowerCut, SessionEnds, Synced, TypeOK, ShellSteps,
       ProcSteps, SchedSteps, Saves
<1>17. CASE PowerOn \/ Writeback
  <2>1. Flags'
    BY <1>17, Zenon DEF PowerOn, Writeback, TypeOK
  <2>2. CASE PowerOn
    BY <2>1, <2>2 DEF PowerOn, Synced, TypeOK
  <2>3. CASE Writeback
    BY <2>1, <2>3 DEF Writeback, Synced, TypeOK
  <2>4. QED
    BY <1>17, <2>2, <2>3
<1>18. CASE UNCHANGED vars
  BY <1>18 DEF vars, TypeOK
<1>19. QED
  BY <1>1, <1>2, <1>3, <1>4, <1>5, <1>6, <1>7, <1>8, <1>9, <1>10, <1>11, <1>12, <1>13, <1>14,
     <1>15, <1>16, <1>17, <1>18 DEF Next, ShellStep, UserStep

\* A console that starts for the first time has values in their types.
LEMMA InitTyped == Init => TypeOK
<1> SUFFICES ASSUME Init PROVE TypeOK
  OBVIOUS
<1>1. /\ power \in BOOLEAN /\ halting \in BOOLEAN /\ rebooting \in BOOLEAN
      /\ disabled \in BOOLEAN /\ lock \in BOOLEAN
      /\ lastOpk \in BOOLEAN /\ opk \in BOOLEAN /\ gameOpk \in BOOLEAN
  BY Zenon DEF Init
<1>2. QED
  BY <1>1 DEF Init, TypeOK, ShellSteps, ProcSteps, SchedSteps, Saves

\* Types, for any number of requests and power cuts.
THEOREM TypeCorrect == Spec => []TypeOK
BY InitTyped, TypeStep, PTL DEF Spec

-----------------------------------------------------------------------------
(* The saved game is durable, and resumed once.                            *)

Programs == {"fe", "gm"}

\* A program that is shutting the console down.
Saving == {"trunc", "trailer", "sync", "touch", "poweroff"}

\* What the game in the process "gm" saves.
SavedAs == IF gameOpk THEN "opk" ELSE "plain"

\* The login shell waits for the frontend it has started, and a game runs under
\* the frontend or, resumed, under instant_play load.
UnderShell ==
    /\ proc["fe"] # "none" => shell \in {"frecord", "fwait"}
    /\ proc["gm"] # "none" => proc["fe"] = "wait" \/ shell \in {"record", "wait", "fgwait"}
    /\ launcher # "none" => proc["fe"] = "wait"
    /\ launcher = "erase" => proc["gm"] = "none"

\* The saved game is complete when its process syncs, and on the card afterwards.
SavedFirst ==
    /\ proc["gm"] \in {"sync", "touch", "poweroff"} => instant = SavedAs
    /\ proc["gm"] \in {"touch", "poweroff"} => disk.instant = SavedAs

\* The file is gone before the game runs and until the game saves again.
MovedFirst ==
    /\ shell = "source" => instant = "none"
    /\ shell \in {"record", "wait"} /\ proc["gm"] \in {"run", "trunc"} => instant = "none"

IInv == TypeOK /\ UnderShell /\ SavedFirst /\ MovedFirst

\* Every step keeps the invariant.
LEMMA SavedStep == IInv /\ [Next]_vars => IInv'
<1> SUFFICES ASSUME IInv, [Next]_vars PROVE IInv'
  OBVIOUS
<1>t. TypeOK /\ TypeOK'
  BY TypeStep DEF IInv
<1> USE DEF Shell, powerVars, fileVars, frontVars, IInv, Programs, UnderShell, SavedFirst,
   MovedFirst, SavedAs
<1>0. /\ proc \in [Programs -> ProcSteps]
      /\ instant \in Saves /\ shell \in ShellSteps
  BY <1>t DEF TypeOK, Programs
<1>1. CASE Load_opk
  BY <1>1, <1>0, <1>t DEF Load_opk
<1>2. CASE Load_mv
  BY <1>2, <1>0, <1>t DEF Load_mv
<1>3. CASE Load_source
  BY <1>3, <1>0, <1>t DEF Load_source
<1>4. CASE Load_record \/ Load_wait \/ Load_erase
  BY <1>4, <1>0, <1>t DEF Load_record, Load_wait, Load_erase, RecordPid
<1>5. CASE Load_rm \/ Load_tail \/ Load_tailrm
  BY <1>5, <1>0, <1>t DEF Load_rm, Load_tail, Load_tailrm
<1>6. CASE Front_lock \/ Front_check \/ Front_prep \/ Front_preprm
  BY <1>6, <1>0, <1>t DEF Front_lock, Front_check, Front_prep, Front_preprm
<1>7. CASE Front_launch
  BY <1>7, <1>0, <1>t DEF Front_launch
<1>8. CASE Front_record \/ Front_wait \/ Front_erase \/ Front_again
  BY <1>8, <1>0, <1>t DEF Front_record, Front_wait, Front_erase, Front_again, RecordPid
<1>9. CASE Launcher_record \/ Launcher_wait \/ Launcher_erase
  BY <1>9, <1>0, <1>t DEF Launcher_record, Launcher_wait, Launcher_erase, RecordPid
<1>10. CASE Save_trunc \/ Save_trailer
  BY <1>10, <1>0, <1>t DEF Save_trunc, Save_trailer
<1>11. ASSUME NEW p \in Programs, Now_sync(p) \/ Now_touch(p) \/ Now_poweroff(p) PROVE IInv'
  BY <1>11, <1>0, <1>t DEF Now_sync, Now_touch, Now_poweroff, Synced
<1>12. ASSUME NEW i \in Scheds,
                   Schedule(i) \/ Schedule_warn(i) \/ Schedule_expire(i)
                   \/ Schedule_sync(i) \/ Schedule_touch(i) \/ Schedule_poweroff(i)
      PROVE IInv'
  BY <1>12, <1>0, <1>t DEF Schedule, Schedule_warn, Schedule_expire, Schedule_sync,
     Schedule_touch, Schedule_poweroff, Synced
<1>13. ASSUME NEW f \in {"known", "none"}, SetFrontend(f) PROVE IInv'
  BY <1>13, <1>0, <1>t DEF SetFrontend
<1>14. ASSUME NEW isOpk \in BOOLEAN, LaunchGame(isOpk) PROVE IInv'
  BY <1>14, <1>0, <1>t DEF LaunchGame
<1>15. ASSUME NEW p \in Programs, Quit(p) \/ ShutDown(p) \/ Handle(p) PROVE IInv'
  BY <1>15, <1>0, <1>t DEF Quit, ShutDown, Handle
<1>16. CASE PowerOff \/ PowerCut
  BY <1>16, <1>0, <1>t DEF PowerOff, PowerCut, SessionEnds, Synced
<1>17. CASE PowerOn \/ Writeback
  BY <1>17, <1>0, <1>t DEF PowerOn, Writeback, Synced
<1>18. CASE UNCHANGED vars
  BY <1>18, <1>0, <1>t DEF vars
<1>19. QED
  BY <1>1, <1>2, <1>3, <1>4, <1>5, <1>6, <1>7, <1>8, <1>9, <1>10, <1>11, <1>12, <1>13,
     <1>14, <1>15, <1>16, <1>17, <1>18
     DEF Next, ShellStep, LauncherStep, SaveStep, NowStep, ScheduleStep, UserStep, Programs

\* Before the shutdown is announced the saved game is on the card, and a game
\* that is resumed has lost the file it came from, whatever requests overlap,
\* whoever answers late, and wherever the power is cut.
THEOREM SavedGameDurable == Spec => [](DurableSave /\ NoResumeLoop)
<1>1. Init => IInv
  <2>1. Init => UnderShell /\ SavedFirst /\ MovedFirst
    BY DEF Init, UnderShell, SavedFirst, MovedFirst
  <2>2. QED
    BY <2>1, InitTyped DEF IInv
<1>2. IInv => DurableSave /\ NoResumeLoop
  BY DEF IInv, SavedFirst, MovedFirst, SavedAs, DurableSave, NoResumeLoop
<1>3. QED
  BY <1>1, <1>2, SavedStep, PTL DEF Spec

-----------------------------------------------------------------------------
(* Timely answers: the saved game can be resumed.                          *)

\* One shutdown at a time, and answers in the grace period.
Timely == ~Overlap /\ ~Late

\* One process shuts the console down, and none begins to once that is announced.
OneShutdown ==
    /\ \A i, j \in Scheds : sched[i] # "idle" /\ sched[j] # "idle" => i = j
    /\ \A p \in Programs : proc[p] \in Saving => \A i \in Scheds : sched[i] = "idle"
    /\ \A p \in Programs : proc[p] \in Saving \ {"poweroff"} => ~rebooting /\ ~halting
    /\ \A p \in Programs : proc[p] = "poweroff" => rebooting
    /\ \A i \in Scheds : sched[i] = "poweroff" => rebooting
    /\ halting => rebooting

\* A file is half-written only while its game writes it, or after a power cut,
\* until the login shell looks at it.
WholeFile ==
    /\ proc["gm"] = "trailer" => instant = "torn"
    /\ instant = "torn" => proc["gm"] = "trailer" \/ shell \in {"opk", "mv"}
    /\ ~power => shell = "opk"
    /\ cuts = 0 => /\ instant = "torn" => proc["gm"] = "trailer"
                   /\ resume # "torn"
                   /\ ~power => disk.instant # "torn"

\* A game that has been saved is followed by the end of the session: its OPK is
\* not forgotten, and no other game is saved.
SavedLast ==
    /\ shell \in {"tailrm", "preprm"} => instant # "opk"
    /\ shell \notin {"opk", "mv"} /\ instant # "none" =>
           rebooting \/ proc["gm"] \in {"trailer", "sync", "touch", "poweroff"}

\* Without a power cut last_opk names the OPK of the game that runs, is saved,
\* or is being resumed.
OpkNamed ==
    /\ shell = "mv" => opk = lastOpk
    /\ cuts = 0 =>
         /\ OpkKept /\ OpkMountedForResume
         /\ proc["gm"] \in {"run", "trunc", "trailer"} /\ gameOpk => lastOpk
         /\ shell = "source" /\ resume = "opk" => lastOpk

TimelyInv == OneShutdown /\ WholeFile /\ SavedLast /\ OpkNamed

\* Every step keeps one shutdown at a time.
LEMMA OneStep ==
    ASSUME Timely PROVE IInv /\ OneShutdown /\ [Next]_vars => OneShutdown'
<1> SUFFICES ASSUME IInv, OneShutdown, [Next]_vars PROVE OneShutdown'
  OBVIOUS
<1>t. TypeOK /\ TypeOK'
  BY TypeStep DEF IInv
<1> USE DEF Shell, powerVars, fileVars, frontVars, Timely, Programs, Saving, IInv,
   UnderShell, OneShutdown
<1>0. /\ proc \in [Programs -> ProcSteps]
      /\ sched \in [Scheds -> SchedSteps]
  BY <1>t DEF TypeOK, Programs
<1>1. CASE Load_opk
  BY <1>1, <1>0, <1>t DEF Load_opk
<1>2. CASE Load_mv
  BY <1>2, <1>0, <1>t DEF Load_mv
<1>3. CASE Load_source
  BY <1>3, <1>0, <1>t DEF Load_source
<1>4. CASE Load_record \/ Load_wait \/ Load_erase
  BY <1>4, <1>0, <1>t DEF Load_record, Load_wait, Load_erase, RecordPid
<1>5. CASE Load_rm \/ Load_tail \/ Load_tailrm
  BY <1>5, <1>0, <1>t DEF Load_rm, Load_tail, Load_tailrm
<1>6. CASE Front_lock \/ Front_check \/ Front_prep \/ Front_preprm
  BY <1>6, <1>0, <1>t DEF Front_lock, Front_check, Front_prep, Front_preprm
<1>7. CASE Front_launch
  BY <1>7, <1>0, <1>t DEF Front_launch
<1>8. CASE Front_record \/ Front_wait \/ Front_erase \/ Front_again
  BY <1>8, <1>0, <1>t DEF Front_record, Front_wait, Front_erase, Front_again, RecordPid
<1>9. CASE Launcher_record \/ Launcher_wait \/ Launcher_erase
  BY <1>9, <1>0, <1>t DEF Launcher_record, Launcher_wait, Launcher_erase, RecordPid
<1>10. CASE Save_trunc \/ Save_trailer
  BY <1>10, <1>0, <1>t DEF Save_trunc, Save_trailer
<1>11. ASSUME NEW p \in Programs, Now_sync(p) \/ Now_touch(p) \/ Now_poweroff(p) PROVE OneShutdown'
  BY <1>11, <1>0, <1>t DEF Now_sync, Now_touch, Now_poweroff, Synced
<1>12. ASSUME NEW i \in Scheds,
                   Schedule(i) \/ Schedule_warn(i) \/ Schedule_expire(i)
                   \/ Schedule_sync(i) \/ Schedule_touch(i) \/ Schedule_poweroff(i)
      PROVE OneShutdown'
  BY <1>12, <1>0, <1>t DEF ShutdownPending, Schedule, Schedule_warn, Schedule_expire,
     Schedule_sync, Schedule_touch, Schedule_poweroff, Synced
<1>13. ASSUME NEW f \in {"known", "none"}, SetFrontend(f) PROVE OneShutdown'
  BY <1>13, <1>0, <1>t DEF SetFrontend
<1>14. ASSUME NEW isOpk \in BOOLEAN, LaunchGame(isOpk) PROVE OneShutdown'
  BY <1>14, <1>0, <1>t DEF LaunchGame
<1>15. ASSUME NEW p \in Programs, Quit(p) \/ ShutDown(p) \/ Handle(p) PROVE OneShutdown'
  BY <1>15, <1>0, <1>t DEF ShutdownPending, InGracePeriod, Quit, ShutDown, Handle
<1>16. CASE PowerOff \/ PowerCut
  BY <1>16, <1>0, <1>t DEF PowerOff, PowerCut, SessionEnds, Synced
<1>17. CASE PowerOn \/ Writeback
  BY <1>17, <1>0, <1>t DEF PowerOn, Writeback, Synced
<1>18. CASE UNCHANGED vars
  BY <1>18, <1>0, <1>t DEF vars
<1>19. QED
  BY <1>1, <1>2, <1>3, <1>4, <1>5, <1>6, <1>7, <1>8, <1>9, <1>10, <1>11, <1>12, <1>13,
     <1>14, <1>15, <1>16, <1>17, <1>18
     DEF Next, ShellStep, LauncherStep, SaveStep, NowStep, ScheduleStep, UserStep, Programs

\* Every step keeps files whole.
LEMMA WholeStep ==
    ASSUME Timely PROVE IInv /\ OneShutdown /\ WholeFile /\ [Next]_vars => WholeFile'
<1> SUFFICES ASSUME IInv, OneShutdown, WholeFile, [Next]_vars PROVE WholeFile'
  OBVIOUS
<1>t. TypeOK /\ TypeOK'
  BY TypeStep DEF IInv
<1> USE DEF Shell, powerVars, fileVars, frontVars, Timely, Programs, Saving, IInv,
   UnderShell, OneShutdown, WholeFile
<1>0. /\ proc \in [Programs -> ProcSteps]
      /\ sched \in [Scheds -> SchedSteps]
      /\ instant \in Saves /\ disk \in [instant : Saves, lastOpk : BOOLEAN]
  BY <1>t DEF TypeOK, Programs
<1>1. CASE Load_opk
  BY <1>1, <1>0, <1>t DEF Load_opk
<1>2. CASE Load_mv
  BY <1>2, <1>0, <1>t DEF Load_mv
<1>3. CASE Load_source
  BY <1>3, <1>0, <1>t DEF Load_source
<1>4. CASE Load_record \/ Load_wait \/ Load_erase
  BY <1>4, <1>0, <1>t DEF Load_record, Load_wait, Load_erase, RecordPid
<1>5. CASE Load_rm \/ Load_tail \/ Load_tailrm
  BY <1>5, <1>0, <1>t DEF Load_rm, Load_tail, Load_tailrm
<1>6. CASE Front_lock \/ Front_check \/ Front_prep \/ Front_preprm
  BY <1>6, <1>0, <1>t DEF Front_lock, Front_check, Front_prep, Front_preprm
<1>7. CASE Front_launch
  BY <1>7, <1>0, <1>t DEF Front_launch
<1>8. CASE Front_record \/ Front_wait \/ Front_erase \/ Front_again
  BY <1>8, <1>0, <1>t DEF Front_record, Front_wait, Front_erase, Front_again, RecordPid
<1>9. CASE Launcher_record \/ Launcher_wait \/ Launcher_erase
  BY <1>9, <1>0, <1>t DEF Launcher_record, Launcher_wait, Launcher_erase, RecordPid
<1>10. CASE Save_trunc \/ Save_trailer
  BY <1>10, <1>0, <1>t DEF Save_trunc, Save_trailer
<1>11. ASSUME NEW p \in Programs, Now_sync(p) \/ Now_touch(p) \/ Now_poweroff(p) PROVE WholeFile'
  BY <1>11, <1>0, <1>t DEF Now_sync, Now_touch, Now_poweroff, Synced
<1>12. ASSUME NEW i \in Scheds,
                   Schedule(i) \/ Schedule_warn(i) \/ Schedule_expire(i)
                   \/ Schedule_sync(i) \/ Schedule_touch(i) \/ Schedule_poweroff(i)
      PROVE WholeFile'
  BY <1>12, <1>0, <1>t DEF Schedule, Schedule_warn, Schedule_expire, Schedule_sync,
     Schedule_touch, Schedule_poweroff, Synced
<1>13. ASSUME NEW f \in {"known", "none"}, SetFrontend(f) PROVE WholeFile'
  BY <1>13, <1>0, <1>t DEF SetFrontend
<1>14. ASSUME NEW isOpk \in BOOLEAN, LaunchGame(isOpk) PROVE WholeFile'
  BY <1>14, <1>0, <1>t DEF LaunchGame
<1>15. ASSUME NEW p \in Programs, Quit(p) \/ ShutDown(p) \/ Handle(p) PROVE WholeFile'
  BY <1>15, <1>0, <1>t DEF Quit, ShutDown, Handle
<1>16. CASE PowerOff \/ PowerCut
  <2>1. cuts \in Nat /\ (PowerCut => cuts' # 0)
    BY <1>t DEF PowerCut, TypeOK
  <2>2. QED
    BY <1>16, <2>1, <1>0, <1>t DEF PowerOff, PowerCut, SessionEnds, Synced
<1>17. CASE PowerOn \/ Writeback
  BY <1>17, <1>0, <1>t DEF PowerOn, Writeback, Synced
<1>18. CASE UNCHANGED vars
  BY <1>18, <1>0, <1>t DEF vars
<1>19. QED
  BY <1>1, <1>2, <1>3, <1>4, <1>5, <1>6, <1>7, <1>8, <1>9, <1>10, <1>11, <1>12, <1>13,
     <1>14, <1>15, <1>16, <1>17, <1>18
     DEF Next, ShellStep, LauncherStep, SaveStep, NowStep, ScheduleStep, UserStep, Programs

\* Every step keeps a saved game the last of its session.
LEMMA LastStep ==
    ASSUME Timely PROVE IInv /\ OneShutdown /\ WholeFile /\ SavedLast /\ [Next]_vars => SavedLast'
<1> SUFFICES ASSUME IInv, OneShutdown, WholeFile, SavedLast, [Next]_vars PROVE SavedLast'
  OBVIOUS
<1>t. TypeOK /\ TypeOK'
  BY TypeStep DEF IInv
<1> USE DEF Shell, powerVars, fileVars, frontVars, Timely, Programs, Saving, IInv,
   UnderShell, OneShutdown, WholeFile, SavedLast, SavedFirst, SavedAs
<1>0. /\ proc \in [Programs -> ProcSteps]
      /\ sched \in [Scheds -> SchedSteps]
      /\ instant \in Saves
  BY <1>t DEF TypeOK, Programs
<1>1. CASE Load_opk
  BY <1>1, <1>0, <1>t DEF Load_opk
<1>2. CASE Load_mv
  BY <1>2, <1>0, <1>t DEF Load_mv
<1>3. CASE Load_source
  BY <1>3, <1>0, <1>t DEF Load_source
<1>4. CASE Load_record \/ Load_wait \/ Load_erase
  BY <1>4, <1>0, <1>t DEF Load_record, Load_wait, Load_erase, RecordPid
<1>5. CASE Load_rm \/ Load_tail \/ Load_tailrm
  BY <1>5, <1>0, <1>t DEF Load_rm, Load_tail, Load_tailrm
<1>6. CASE Front_lock \/ Front_check \/ Front_prep \/ Front_preprm
  BY <1>6, <1>0, <1>t DEF Front_lock, Front_check, Front_prep, Front_preprm
<1>7. CASE Front_launch
  BY <1>7, <1>0, <1>t DEF Front_launch
<1>8. CASE Front_record \/ Front_wait \/ Front_erase \/ Front_again
  BY <1>8, <1>0, <1>t DEF Front_record, Front_wait, Front_erase, Front_again, RecordPid
<1>9. CASE Launcher_record \/ Launcher_wait \/ Launcher_erase
  BY <1>9, <1>0, <1>t DEF Launcher_record, Launcher_wait, Launcher_erase, RecordPid
<1>10. CASE Save_trunc \/ Save_trailer
  BY <1>10, <1>0, <1>t DEF Save_trunc, Save_trailer
<1>11. ASSUME NEW p \in Programs, Now_sync(p) \/ Now_touch(p) \/ Now_poweroff(p) PROVE SavedLast'
  BY <1>11, <1>0, <1>t DEF Now_sync, Now_touch, Now_poweroff, Synced
<1>12. ASSUME NEW i \in Scheds,
                   Schedule(i) \/ Schedule_warn(i) \/ Schedule_expire(i)
                   \/ Schedule_sync(i) \/ Schedule_touch(i) \/ Schedule_poweroff(i)
      PROVE SavedLast'
  BY <1>12, <1>0, <1>t DEF Schedule, Schedule_warn, Schedule_expire, Schedule_sync,
     Schedule_touch, Schedule_poweroff, Synced
<1>13. ASSUME NEW f \in {"known", "none"}, SetFrontend(f) PROVE SavedLast'
  BY <1>13, <1>0, <1>t DEF SetFrontend
<1>14. ASSUME NEW isOpk \in BOOLEAN, LaunchGame(isOpk) PROVE SavedLast'
  BY <1>14, <1>0, <1>t DEF LaunchGame
<1>15. ASSUME NEW p \in Programs, Quit(p) \/ ShutDown(p) \/ Handle(p) PROVE SavedLast'
  BY <1>15, <1>0, <1>t DEF Quit, ShutDown, Handle
<1>16. CASE PowerOff \/ PowerCut
  BY <1>16, <1>0, <1>t DEF PowerOff, PowerCut, SessionEnds, Synced
<1>17. CASE PowerOn \/ Writeback
  BY <1>17, <1>0, <1>t DEF PowerOn, Writeback, Synced
<1>18. CASE UNCHANGED vars
  BY <1>18, <1>0, <1>t DEF vars
<1>19. QED
  BY <1>1, <1>2, <1>3, <1>4, <1>5, <1>6, <1>7, <1>8, <1>9, <1>10, <1>11, <1>12, <1>13,
     <1>14, <1>15, <1>16, <1>17, <1>18
     DEF Next, ShellStep, LauncherStep, SaveStep, NowStep, ScheduleStep, UserStep, Programs

\* Every step keeps the OPK of the saved game named.
LEMMA NamedStep ==
    ASSUME Timely PROVE IInv /\ TimelyInv /\ [Next]_vars => OpkNamed'
<1> SUFFICES ASSUME IInv, TimelyInv, [Next]_vars PROVE OpkNamed'
  OBVIOUS
<1>t. TypeOK /\ TypeOK'
  BY TypeStep DEF IInv
<1> USE DEF Shell, powerVars, fileVars, frontVars, Timely, Programs, Saving, IInv,
   UnderShell, TimelyInv, OneShutdown, WholeFile, SavedLast, OpkNamed, OpkKept,
   OpkMountedForResume, SavedFirst, SavedAs
<1>0. /\ proc \in [Programs -> ProcSteps]
      /\ sched \in [Scheds -> SchedSteps]
      /\ instant \in Saves
  BY <1>t DEF TypeOK, Programs
<1>1. CASE Load_opk
  BY <1>1, <1>0, <1>t DEF Load_opk
<1>2. CASE Load_mv
  BY <1>2, <1>0, <1>t DEF Load_mv
<1>3. CASE Load_source
  BY <1>3, <1>0, <1>t DEF Load_source
<1>4. CASE Load_record \/ Load_wait \/ Load_erase
  BY <1>4, <1>0, <1>t DEF Load_record, Load_wait, Load_erase, RecordPid
<1>5. CASE Load_rm \/ Load_tail \/ Load_tailrm
  BY <1>5, <1>0, <1>t DEF Load_rm, Load_tail, Load_tailrm
<1>6. CASE Front_lock \/ Front_check \/ Front_prep \/ Front_preprm
  BY <1>6, <1>0, <1>t DEF Front_lock, Front_check, Front_prep, Front_preprm
<1>7. CASE Front_launch
  BY <1>7, <1>0, <1>t DEF Front_launch
<1>8. CASE Front_record \/ Front_wait \/ Front_erase \/ Front_again
  BY <1>8, <1>0, <1>t DEF Front_record, Front_wait, Front_erase, Front_again, RecordPid
<1>9. CASE Launcher_record \/ Launcher_wait \/ Launcher_erase
  BY <1>9, <1>0, <1>t DEF Launcher_record, Launcher_wait, Launcher_erase, RecordPid
<1>10. CASE Save_trunc \/ Save_trailer
  BY <1>10, <1>0, <1>t DEF Save_trunc, Save_trailer
<1>11. ASSUME NEW p \in Programs, Now_sync(p) \/ Now_touch(p) \/ Now_poweroff(p) PROVE OpkNamed'
  BY <1>11, <1>0, <1>t DEF Now_sync, Now_touch, Now_poweroff, Synced
<1>12. ASSUME NEW i \in Scheds,
                   Schedule(i) \/ Schedule_warn(i) \/ Schedule_expire(i)
                   \/ Schedule_sync(i) \/ Schedule_touch(i) \/ Schedule_poweroff(i)
      PROVE OpkNamed'
  BY <1>12, <1>0, <1>t DEF Schedule, Schedule_warn, Schedule_expire, Schedule_sync,
     Schedule_touch, Schedule_poweroff, Synced
<1>13. ASSUME NEW f \in {"known", "none"}, SetFrontend(f) PROVE OpkNamed'
  BY <1>13, <1>0, <1>t DEF SetFrontend
<1>14. ASSUME NEW isOpk \in BOOLEAN, LaunchGame(isOpk) PROVE OpkNamed'
  BY <1>14, <1>0, <1>t DEF LaunchGame
<1>15. ASSUME NEW p \in Programs, Quit(p) \/ ShutDown(p) \/ Handle(p) PROVE OpkNamed'
  BY <1>15, <1>0, <1>t DEF Quit, ShutDown, Handle
<1>16. CASE PowerOff \/ PowerCut
  <2>1. cuts \in Nat /\ (PowerCut => cuts' # 0)
    BY <1>t DEF PowerCut, TypeOK
  <2>2. QED
    BY <1>16, <2>1, <1>0, <1>t DEF PowerOff, PowerCut, SessionEnds, Synced
<1>17. CASE PowerOn \/ Writeback
  BY <1>17, <1>0, <1>t DEF PowerOn, Writeback, Synced
<1>18. CASE UNCHANGED vars
  BY <1>18, <1>0, <1>t DEF vars
<1>19. QED
  BY <1>1, <1>2, <1>3, <1>4, <1>5, <1>6, <1>7, <1>8, <1>9, <1>10, <1>11, <1>12, <1>13,
     <1>14, <1>15, <1>16, <1>17, <1>18
     DEF Next, ShellStep, LauncherStep, SaveStep, NowStep, ScheduleStep, UserStep, Programs

\* The invariant holds of a console that starts for the first time, and every step
\* keeps it.
LEMMA TimelyHolds == ASSUME Timely PROVE Spec => [](IInv /\ TimelyInv)
<1>1. Init => IInv /\ TimelyInv
  <2>1. Init => UnderShell /\ SavedFirst /\ MovedFirst
    BY DEF Init, UnderShell, SavedFirst, MovedFirst
  <2>2. Init => TimelyInv
    BY DEF Init, TimelyInv, OneShutdown, WholeFile, SavedLast, OpkNamed, OpkKept,
       OpkMountedForResume, Programs, Saving
  <2>3. QED
    BY <2>1, <2>2, InitTyped DEF IInv
<1>2. IInv /\ TimelyInv /\ [Next]_vars => IInv' /\ TimelyInv'
  BY SavedStep, OneStep, WholeStep, LastStep, NamedStep DEF TimelyInv
<1>3. QED
  BY <1>1, <1>2, PTL DEF Spec

\* With one shutdown at a time answered in time, a saved game is resumed once, is
\* never left half-written by a shutdown, and before any power cut its OPK is there.
THEOREM SavedGameResumed == ASSUME Timely PROVE Spec => []ResumedOnce
<1>1. IInv /\ TimelyInv => ResumedOnce
  BY DEF IInv, MovedFirst, TimelyInv, WholeFile, OpkNamed, ResumedOnce, NoResumeLoop, NoTornSave
<1>2. QED
  BY <1>1, TimelyHolds, PTL

-----------------------------------------------------------------------------
(* The scripts implement SavedGame.                                        *)

\* The start of the first session is one of SavedGame.
LEMMA RefInit == Init => Promise!Init
BY DEF Init, Promise!Init, Playing

\* Every step is one of SavedGame, or leaves what SavedGame sees.
LEMMA RefStep ==
    ASSUME Timely PROVE IInv /\ TimelyInv /\ [Next]_vars => [Promise!Next]_(Promise!vars)
<1> SUFFICES ASSUME IInv, TimelyInv, [Next]_vars PROVE [Promise!Next]_(Promise!vars)
  OBVIOUS
<1>t. TypeOK /\ TypeOK'
  BY TypeStep DEF IInv
<1> USE DEF Shell, powerVars, fileVars, frontVars, Playing
<1>0. /\ proc \in [Programs -> ProcSteps] /\ sched \in [Scheds -> SchedSteps]
      /\ instant \in Saves /\ resume \in Saves /\ shell \in ShellSteps
      /\ disk \in [instant : Saves, lastOpk : BOOLEAN]
  BY <1>t DEF TypeOK, Programs
\* No game plays unless the frontend waits for it or it has been resumed.
<1>a. /\ proc["fe"] # "none" => shell \in {"frecord", "fwait"}
      /\ proc["gm"] # "none" => shell \in {"frecord", "fwait", "record", "wait", "fgwait"}
      /\ proc["gm"] # "none" => proc["fe"] \in {"none", "wait"}
  BY <1>0 DEF IInv, UnderShell
<1>1. CASE Load_opk
  BY <1>1, <1>0 DEF Load_opk, Promise!vars
<1>2. CASE Load_mv
  <2>1. Promise!Take
    BY <1>2, <1>0, <1>a DEF Load_mv, Promise!Take
  <2>2. QED
    BY <2>1 DEF Promise!Next
<1>3. CASE Load_source
  <2>1. /\ shell = "source" /\ shell' \notin {"opk", "mv", "source"}
        /\ resume # "none" /\ Playing = "none"
        /\ UNCHANGED <<power, rebooting, instant, lastOpk, disk>>
    BY <1>3, <1>0, <1>a DEF Load_source
  <2>2. CASE resume = "torn"
    <3>1. Playing' \in {"plain", "opk", "none"}
      BY Zenon
    <3>2. Promise!Resume
      BY <2>1, <2>2, <3>1 DEF Promise!Resume
    <3>3. QED
      BY <3>2 DEF Promise!Next
  <2>3. CASE resume \in {"plain", "opk"}
    <3>1. proc'["gm"] = "run"
      BY <1>3, <2>3, <1>0 DEF Load_source, Programs
    <3>2. gameOpk' = (resume = "opk")
      <4>1. resume # "torn"
        BY <2>3
      <4>2. QED
        BY <1>3, <4>1, Zenon DEF Load_source
    <3>3. Playing' = resume
      BY <2>3, <3>1, <3>2
    <3>4. Promise!Resume
      BY <2>1, <2>3, <3>3 DEF Promise!Resume
    <3>5. QED
      BY <3>4 DEF Promise!Next
  <2>4. QED
    BY <2>1, <2>2, <2>3, <1>0 DEF Saves
<1>4. CASE Load_record \/ Load_wait \/ Load_erase \/ Load_rm \/ Load_tail
  BY <1>4, <1>0 DEF Load_record, Load_wait, Load_erase, Load_rm, Load_tail, Promise!vars
<1>5. CASE Load_tailrm \/ Front_preprm
  <2>1. Promise!Forget
    BY <1>5, <1>0, <1>a DEF Load_tailrm, Front_preprm, Promise!Forget, TimelyInv, SavedLast
  <2>2. QED
    BY <2>1 DEF Promise!Next
<1>6. CASE Front_lock \/ Front_check \/ Front_prep \/ Front_launch
  <2>1. CASE Front_lock
    BY <2>1 DEF Front_lock, Promise!vars
  <2>2. CASE Front_check
    BY <2>2 DEF Front_check, Promise!vars
  <2>3. CASE Front_prep
    BY <2>3 DEF Front_prep, Promise!vars
  <2>4. CASE Front_launch
    <3>1. proc'["gm"] = proc["gm"]
      BY <2>4, <1>0 DEF Front_launch, Programs
    <3>2. QED
      BY <2>4, <3>1 DEF Front_launch, Promise!vars
  <2>5. QED
    BY <1>6, <2>1, <2>2, <2>3, <2>4
<1>7. CASE Front_record \/ Front_wait \/ Front_erase \/ Front_again
  <2>1. CASE Front_record
    BY <2>1 DEF Front_record, Promise!vars
  <2>2. CASE Front_wait
    BY <2>2 DEF Front_wait, Promise!vars
  <2>3. CASE Front_erase
    BY <2>3 DEF Front_erase, Promise!vars
  <2>4. CASE Front_again
    BY <2>4 DEF Front_again, Promise!vars
  <2>5. QED
    BY <1>7, <2>1, <2>2, <2>3, <2>4
<1>8. CASE LauncherStep
  <2>1. CASE Launcher_record
    BY <2>1 DEF Launcher_record, Promise!vars
  <2>2. CASE Launcher_wait
    BY <2>2 DEF Launcher_wait, Promise!vars
  <2>3. CASE Launcher_erase
    BY <2>3, <1>0 DEF Launcher_erase, Promise!vars
  <2>4. QED
    BY <1>8, <2>1, <2>2, <2>3 DEF LauncherStep
<1>9. CASE Save_trunc
  <2>1. instant = "none" /\ ~rebooting
    BY <1>9, <1>0, <1>a DEF Save_trunc, TimelyInv, SavedLast, OneShutdown, Saving, Programs
  <2>2. Promise!BeginSave
    BY <1>9, <2>1, <1>0, <1>a DEF Save_trunc, Promise!BeginSave
  <2>3. QED
    BY <2>2 DEF Promise!Next
<1>10. CASE Save_trailer
  <2>1. instant = "torn"
    BY <1>10 DEF Save_trailer, TimelyInv, WholeFile
  <2>2. Playing # "none" /\ instant' = Playing /\ Playing' = "none"
    <3>1. proc["gm"] = "trailer" /\ proc'["gm"] = "sync"
      BY <1>10, <1>0 DEF Save_trailer, Programs
    <3>2. instant' = IF gameOpk THEN "opk" ELSE "plain"
      BY <1>10 DEF Save_trailer
    <3>3. QED
      BY <3>1, <3>2
  <2>3. Promise!EndSave
    BY <1>10, <2>1, <2>2 DEF Save_trailer, Promise!EndSave
  <2>4. QED
    BY <2>3 DEF Promise!Next
<1>11. ASSUME NEW p \in Programs, Now_sync(p)
       PROVE Promise!Next
  BY <1>11, <1>0 DEF Now_sync, Synced, Programs, Promise!Write, Promise!Next
<1>12. ASSUME NEW p \in Programs, Now_touch(p)
       PROVE Promise!Next
  \* What has been saved is what the game in this process has saved.
  <2>1. ~rebooting /\ (instant = "none" \/ (instant # "torn" /\ disk.instant = instant))
    BY <1>12, <1>0, <1>a DEF Now_touch, IInv, SavedFirst, SavedAs, TimelyInv, SavedLast,
       OneShutdown, Saving, Programs
  <2>2. Promise!Announce
    BY <1>12, <2>1, <1>0 DEF Now_touch, Programs, Promise!Announce
  <2>3. QED
    BY <2>2 DEF Promise!Next
<1>13. ASSUME NEW p \in Programs, Now_poweroff(p)
       PROVE UNCHANGED Promise!vars
  BY <1>13, <1>0 DEF Now_poweroff, Programs, Promise!vars
<1>14. ASSUME NEW i \in Scheds, Schedule(i) \/ Schedule_expire(i) \/ Schedule_poweroff(i)
       PROVE UNCHANGED Promise!vars
  BY <1>14, <1>0 DEF Schedule, Schedule_expire, Schedule_poweroff, Promise!vars
<1>15. ASSUME NEW i \in Scheds, Schedule_warn(i)
       PROVE UNCHANGED Promise!vars
  \* The signal ends nobody: no program shuts the console down as well.
  <2>1. \A p \in Programs : proc[p] \in {"none", "run", "wait"}
    BY <1>15, <1>0 DEF Schedule_warn, TimelyInv, OneShutdown, Saving, ProcSteps
  <2>2. UNCHANGED proc
    BY <1>15, <2>1 DEF Schedule_warn, Programs
  <2>3. QED
    BY <1>15, <2>2 DEF Schedule_warn, Promise!vars
<1>16. ASSUME NEW i \in Scheds, Schedule_sync(i)
       PROVE Promise!Next
  BY <1>16, <1>0 DEF Schedule_sync, Synced, Promise!Write, Promise!Next
<1>17. ASSUME NEW i \in Scheds, Schedule_touch(i)
       PROVE [Promise!Next]_(Promise!vars)
  <2>1. CASE rebooting
    BY <1>17, <2>1 DEF Schedule_touch, Promise!vars
  <2>2. CASE ~rebooting
    <3>1. instant = "none" \/ shell \in {"opk", "mv"}
      BY <1>17, <2>2, <1>0 DEF Schedule_touch, TimelyInv, SavedLast, OneShutdown, Saving,
         Programs
    <3>2. Promise!Announce
      BY <1>17, <2>2, <3>1, <1>0 DEF Schedule_touch, Promise!Announce
    <3>3. QED
      BY <3>2 DEF Promise!Next
  <2>3. QED
    BY <2>1, <2>2
<1>18. ASSUME NEW f \in {"known", "none"}, SetFrontend(f)
       PROVE UNCHANGED Promise!vars
  BY <1>18, <1>0 DEF SetFrontend, Promise!vars, Programs
<1>19. ASSUME NEW isOpk \in BOOLEAN, LaunchGame(isOpk)
       PROVE Promise!Next
  <2>1. shell \in {"frecord", "fwait"} /\ (instant = "none" \/ rebooting)
    BY <1>19, <1>0, <1>a DEF LaunchGame, TimelyInv, SavedLast
  <2>2. Promise!Start(IF isOpk THEN "opk" ELSE "plain")
    BY <1>19, <2>1, <1>0, <1>t DEF LaunchGame, TypeOK, Programs, Promise!Start
  <2>3. QED
    BY <2>2 DEF Promise!Next
<1>20. ASSUME NEW p \in Programs, Quit(p)
       PROVE [Promise!Next]_(Promise!vars)
  <2>1. CASE p = "fe"
    BY <1>20, <2>1, <1>0 DEF Quit, Programs, Promise!vars
  <2>2. CASE p = "gm"
    <3>1. instant # "torn"
      BY <1>20, <2>2, <1>a DEF Quit, TimelyInv, WholeFile
    <3>2. Promise!Leave
      BY <1>20, <2>2, <3>1, <1>0, <1>a DEF Quit, Programs, Promise!Leave
    <3>3. QED
      BY <3>2 DEF Promise!Next
  <2>3. QED
    BY <2>1, <2>2 DEF Programs
<1>21. ASSUME NEW p \in Programs, ShutDown(p) \/ Handle(p)
       PROVE UNCHANGED Promise!vars
  BY <1>21, <1>0 DEF ShutDown, Handle, Programs, Promise!vars
<1>22. CASE PowerOff
  <2>1. rebooting /\ (instant = "torn" => shell \in {"opk", "mv"})
    BY <1>22, <1>0 DEF PowerOff, TimelyInv, OneShutdown, WholeFile, Saving, Programs
  <2>2. Promise!SwitchOff
    BY <1>22, <2>1 DEF PowerOff, SessionEnds, Synced, Promise!SwitchOff, Promise!Off
  <2>3. QED
    BY <2>2 DEF Promise!Next
<1>23. CASE PowerCut
  <2>1. Promise!Cut
    BY <1>23 DEF PowerCut, SessionEnds, Promise!Cut, Promise!Off
  <2>2. QED
    BY <2>1 DEF Promise!Next
<1>24. CASE PowerOn
  BY <1>24 DEF PowerOn, Promise!SwitchOn, Promise!Next
<1>25. CASE Writeback
  BY <1>25 DEF Writeback, Synced, Promise!Write, Promise!Next
<1>26. CASE UNCHANGED vars
  BY <1>26 DEF vars, Promise!vars
<1>27. QED
  BY <1>1, <1>2, <1>3, <1>4, <1>5, <1>6, <1>7, <1>8, <1>9, <1>10, <1>11, <1>12, <1>13,
     <1>14, <1>15, <1>16, <1>17, <1>18, <1>19, <1>20, <1>21, <1>22, <1>23, <1>24, <1>25,
     <1>26
     DEF Next, ShellStep, SaveStep, NowStep, ScheduleStep, UserStep, Programs

\* With one shutdown at a time answered in time, the scripts implement SavedGame for
\* any number of shutdowns and power cuts: the game that plays is on the card before
\* the end is announced, and the next start takes it before anything else runs.
THEOREM Refinement == ASSUME Timely PROVE Spec => ImplementsSavedGame
<1>1. IInv /\ TimelyInv /\ [Next]_vars => [Promise!Next]_(Promise!vars)
  BY RefStep
<1>2. QED
  BY <1>1, RefInit, TimelyHolds, PTL DEF Spec, ImplementsSavedGame, Promise!Spec

=============================================================================
