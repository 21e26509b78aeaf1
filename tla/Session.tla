------------------------------ MODULE Session ------------------------------
(***************************************************************************)
(* One power-on session of the console, and the next: the login shell      *)
(* (.profile) resumes the game that was saved at the last shutdown         *)
(* (instant_play load) and then runs the frontend loop (frontend init);    *)
(* launchers start games and record their pid; powerdown schedule warns    *)
(* the recorded process with USR1, waits for a grace period and powers     *)
(* off, unless the process cancels it (powerdown handle), saves its game   *)
(* (instant_play save) and powers off itself.                              *)
(*                                                                         *)
(* Processes: the login shell, the frontend "fe", the game "gm" and its    *)
(* launcher, and the "powerdown schedule" processes.  A game that saves    *)
(* execs instant_play, which execs powerdown: it stays the same process.   *)
(* Files on /mnt live in the page cache until a sync, an unmount or a      *)
(* writeback brings them to the card; a power cut keeps any mixture.       *)
(***************************************************************************)
EXTENDS Naturals, FiniteSets

CONSTANTS
    Scheds,         \* "powerdown schedule" processes that may run at a time
    MaxCuts,        \* bound: power cuts (the battery is pulled or empty)
    MaxRequests,    \* bound: shutdowns scheduled while the console is on
    Overlap,        \* a shutdown may be requested while another one is under way
    Late            \* a program may answer USR1 after the grace period

ASSUME SchedsAssumption == IsFiniteSet(Scheds)
ASSUME BoundsAssumption == MaxCuts \in Nat /\ MaxRequests \in Nat
ASSUME ModeAssumption == Overlap \in BOOLEAN /\ Late \in BOOLEAN

VARIABLES
    power,          \* the console is powered
    halting,        \* init runs its shutdown actions
    rebooting,      \* /run/rebooting exists
    shell,          \* next step of the login shell
    proc,           \* state of the frontend and of the game process
    launcher,       \* next step of the launcher script of the game
    pidFile,        \* whose pid is in /var/run/funkey.pid
    usr1,           \* processes with an unanswered USR1
    sched,          \* next step of each "powerdown schedule" process
    frontend,       \* content of $HOME/.frontend: gmenu2x or retrofe, none, anything else
    disabled,       \* /mnt/disable_frontend exists
    lock,           \* /var/lock/frontend.lock exists
    instant,        \* /mnt/instant_play as the processes see it
    resume,         \* /mnt/resume_play as the processes see it
    lastOpk,        \* /mnt/last_opk as the processes see it
    opk,            \* an OPK is mounted on /opk
    gameOpk,        \* the game process comes from an OPK
    disk,           \* instant_play and last_opk as they are on the card
    requests,       \* shutdowns scheduled since the console is on
    cuts            \* power cuts so far

fileVars == <<instant, resume, lastOpk, opk, disk>>
frontVars == <<frontend, disabled, lock>>
powerVars == <<power, halting, rebooting, requests, cuts>>
vars == <<powerVars, shell, proc, launcher, pidFile, usr1, sched, frontVars,
          fileVars, gameOpk>>

Saves == {"none", "torn", "plain", "opk"}
ProcSteps == {"none", "run", "wait", "trunc", "trailer",
              "sync", "touch", "poweroff"}
ShellSteps == {"opk", "mv", "source", "record", "wait", "fgwait", "erase", "rm",
               "tail", "tailrm", "lock", "check", "prep", "preprm", "launch",
               "frecord", "fwait", "ferase", "again", "done"}
SchedSteps == {"idle", "warn", "sleep", "sync", "touch", "poweroff"}

TypeOK ==
    /\ power \in BOOLEAN /\ halting \in BOOLEAN /\ rebooting \in BOOLEAN
    /\ shell \in ShellSteps
    /\ proc \in [{"fe", "gm"} -> ProcSteps]
    /\ launcher \in {"none", "record", "wait", "erase"}
    /\ pidFile \in {"none", "fe", "gm", "stale"}
    /\ usr1 \subseteq {"fe", "gm"}
    /\ sched \in [Scheds -> SchedSteps]
    /\ frontend \in {"known", "none", "unknown"}
    /\ disabled \in BOOLEAN /\ lock \in BOOLEAN
    /\ instant \in Saves /\ resume \in Saves
    /\ lastOpk \in BOOLEAN /\ opk \in BOOLEAN /\ gameOpk \in BOOLEAN
    /\ disk \in [instant : Saves, lastOpk : BOOLEAN]
    /\ requests \in 0..MaxRequests /\ cuts \in 0..MaxCuts

\* A console that starts for the first time: no game has been saved.
Init ==
    /\ power = TRUE /\ halting = FALSE /\ rebooting = FALSE
    /\ shell = "opk"
    /\ proc = [p \in {"fe", "gm"} |-> "none"]
    /\ launcher = "none" /\ pidFile = "none" /\ usr1 = {}
    /\ sched = [i \in Scheds |-> "idle"]
    /\ frontend \in {"known", "none", "unknown"}
    /\ disabled \in BOOLEAN /\ lock = FALSE
    /\ instant = "none" /\ resume = "none" /\ lastOpk = FALSE
    /\ opk = FALSE /\ gameOpk = FALSE
    /\ disk = [instant |-> "none", lastOpk |-> FALSE]
    /\ requests = 0 /\ cuts = 0

-----------------------------------------------------------------------------
(* Shorthands.                                                             *)

Shell(from, to) == power /\ shell = from /\ shell' = to

\* "pid record": the pid is written whether or not the process is still alive.
RecordPid(p) == pidFile' = IF proc[p] = "none" THEN "stale" ELSE p

\* A shutdown is requested or under way.
ShutdownPending ==
    \/ rebooting \/ halting
    \/ \E i \in Scheds : sched[i] # "idle"
    \/ \E p \in {"fe", "gm"} : proc[p] \notin {"none", "run", "wait"}

-----------------------------------------------------------------------------
(* instant_play load                                                       *)

Load_opk ==
    /\ Shell("opk", "mv")
    /\ opk' = lastOpk
    /\ resume' = "none"
    /\ UNCHANGED <<powerVars, proc, launcher, pidFile, usr1, sched, frontVars,
                   instant, lastOpk, disk, gameOpk>>

Load_mv ==
    /\ \/ /\ instant # "none" /\ Shell("mv", "source")
          /\ resume' = instant /\ instant' = "none"
       \/ instant = "none" /\ Shell("mv", "tail") /\ UNCHANGED <<instant, resume>>
    /\ UNCHANGED <<powerVars, proc, launcher, pidFile, usr1, sched, frontVars,
                   lastOpk, opk, disk, gameOpk>>

\* mutant: a syntax error in the file also ends the login shell's profile
Load_source_exit ==
    /\ \/ /\ resume \in {"plain", "opk"} /\ Shell("source", "record")
          /\ proc' = [proc EXCEPT !["gm"] = "run"]
          /\ gameOpk' = (resume = "opk")
       \/ /\ resume = "torn" /\ Shell("source", "done")
          /\ UNCHANGED <<proc, gameOpk>>
    /\ UNCHANGED <<powerVars, launcher, pidFile, usr1, sched, frontVars, fileVars>>

\* A complete file starts the game in the background.  A torn one is empty, or
\* ends in the command without its "&", or stops the script with a syntax error.
Load_source ==
    /\ \/ /\ resume \in {"plain", "opk"} /\ Shell("source", "record")
          /\ proc' = [proc EXCEPT !["gm"] = "run"]
          /\ gameOpk' = (resume = "opk")
       \/ /\ resume = "torn" /\ Shell("source", "fgwait")
          /\ proc' = [proc EXCEPT !["gm"] = "run"]
          /\ gameOpk' \in BOOLEAN
       \/ /\ resume = "torn" /\ (Shell("source", "rm") \/ Shell("source", "lock"))
          /\ UNCHANGED <<proc, gameOpk>>
    /\ UNCHANGED <<powerVars, launcher, pidFile, usr1, sched, frontVars, fileVars>>

Load_record ==
    /\ Shell("record", "wait")
    /\ RecordPid("gm")
    /\ UNCHANGED <<powerVars, proc, launcher, usr1, sched, frontVars, fileVars, gameOpk>>

Load_wait ==
    /\ proc["gm"] = "none"
    /\ Shell("wait", "erase") \/ Shell("fgwait", "rm")
    /\ UNCHANGED <<powerVars, proc, launcher, pidFile, usr1, sched, frontVars,
                   fileVars, gameOpk>>

Load_erase ==
    /\ Shell("erase", "rm")
    /\ pidFile' = "none"
    /\ UNCHANGED <<powerVars, proc, launcher, usr1, sched, frontVars, fileVars, gameOpk>>

Load_rm ==
    /\ Shell("rm", "tail")
    /\ resume' = "none"
    /\ UNCHANGED <<powerVars, proc, launcher, pidFile, usr1, sched, frontVars,
                   instant, lastOpk, opk, disk, gameOpk>>

\* mutant: the OPK is forgotten although the console shuts down
Load_tail_norebooting ==
    /\ \/ lastOpk /\ Shell("tail", "tailrm")
       \/ ~lastOpk /\ Shell("tail", "lock")
    /\ UNCHANGED <<powerVars, proc, launcher, pidFile, usr1, sched, frontVars,
                   fileVars, gameOpk>>

Load_tail ==
    /\ \/ lastOpk /\ ~rebooting /\ Shell("tail", "tailrm")
       \/ ~(lastOpk /\ ~rebooting) /\ Shell("tail", "lock")
    /\ UNCHANGED <<powerVars, proc, launcher, pidFile, usr1, sched, frontVars,
                   fileVars, gameOpk>>

Load_tailrm ==
    /\ Shell("tailrm", "lock")
    /\ opk' = FALSE /\ lastOpk' = FALSE
    /\ UNCHANGED <<powerVars, proc, launcher, pidFile, usr1, sched, frontVars,
                   instant, resume, disk, gameOpk>>

-----------------------------------------------------------------------------
(* frontend init                                                           *)

Front_lock ==
    /\ \/ lock /\ Shell("lock", "done")
       \/ ~lock /\ Shell("lock", "check")
    /\ lock' = TRUE
    /\ UNCHANGED <<powerVars, proc, launcher, pidFile, usr1, sched, frontend, disabled,
                   fileVars, gameOpk>>

\* umount /opk is the first command of the branch that launches a frontend.
Front_check ==
    /\ \/ (disabled \/ rebooting) /\ Shell("check", "again") /\ UNCHANGED opk
       \/ ~(disabled \/ rebooting) /\ Shell("check", "prep") /\ opk' = FALSE
    /\ UNCHANGED <<powerVars, proc, launcher, pidFile, usr1, sched, frontVars,
                   instant, resume, lastOpk, disk, gameOpk>>

Front_prep ==
    /\ \/ lastOpk /\ ~rebooting /\ Shell("prep", "preprm")
       \/ ~(lastOpk /\ ~rebooting) /\ Shell("prep", "launch")
    /\ UNCHANGED <<powerVars, proc, launcher, pidFile, usr1, sched, frontVars,
                   fileVars, gameOpk>>

Front_preprm ==
    /\ Shell("preprm", "launch")
    /\ lastOpk' = FALSE
    /\ UNCHANGED <<powerVars, proc, launcher, pidFile, usr1, sched, frontVars,
                   instant, resume, opk, disk, gameOpk>>

\* An unknown name is replaced by gmenu2x with set_frontend, for the next turn.
Front_launch ==
    /\ Shell("launch", "frecord")
    /\ \/ /\ frontend = "known"
          /\ proc' = [proc EXCEPT !["fe"] = "run"]
          /\ UNCHANGED <<frontend, disabled>>
       \/ frontend = "none" /\ UNCHANGED <<proc, frontend, disabled>>
       \/ /\ frontend = "unknown" /\ frontend' = "known" /\ disabled' = FALSE
          /\ UNCHANGED proc
    /\ UNCHANGED <<powerVars, launcher, pidFile, usr1, sched, lock, fileVars, gameOpk>>

\* Without a new frontend "$!" is empty, or the pid of an earlier one.
Front_record ==
    /\ Shell("frecord", "fwait")
    /\ \/ RecordPid("fe")
       \/ proc["fe"] = "none" /\ UNCHANGED pidFile
    /\ UNCHANGED <<powerVars, proc, launcher, usr1, sched, frontVars, fileVars, gameOpk>>

Front_wait ==
    /\ proc["fe"] = "none"
    /\ Shell("fwait", "ferase")
    /\ UNCHANGED <<powerVars, proc, launcher, pidFile, usr1, sched, frontVars,
                   fileVars, gameOpk>>

Front_erase ==
    /\ Shell("ferase", "again")
    /\ pidFile' = "none"
    /\ UNCHANGED <<powerVars, proc, launcher, usr1, sched, frontVars, fileVars, gameOpk>>

Front_again ==
    /\ \/ rebooting /\ Shell("again", "done") /\ lock' = FALSE
       \/ ~rebooting /\ Shell("again", "check") /\ UNCHANGED lock
    /\ UNCHANGED <<powerVars, proc, launcher, pidFile, usr1, sched, frontend, disabled,
                   fileVars, gameOpk>>

\* frontend set, from the menu of the frontend or from a shell.
SetFrontend(f) ==
    /\ power /\ proc["fe"] \in {"none", "run"} /\ proc["gm"] = "none"
    /\ frontend' = f
    /\ disabled' = (f = "none")
    /\ proc' = [proc EXCEPT !["fe"] = IF frontend = "none" THEN @ ELSE "none"]
    /\ usr1' = IF proc'["fe"] = "none" THEN usr1 \ {"fe"} ELSE usr1
    /\ UNCHANGED <<powerVars, shell, launcher, pidFile, sched, lock, fileVars, gameOpk>>

-----------------------------------------------------------------------------
(* A game started from the frontend, by one of the launcher scripts.       *)

\* The frontend starts the launcher and waits for it; opkrun mounts an OPK
\* and remembers it in last_opk.
LaunchGame(isOpk) ==
    /\ power /\ proc["fe"] = "run" /\ proc["gm"] = "none"
    /\ proc' = [proc EXCEPT !["fe"] = "wait", !["gm"] = "run"]
    /\ launcher' = "record"
    /\ gameOpk' = isOpk
    /\ lastOpk' = (lastOpk \/ isOpk) /\ opk' = (opk \/ isOpk)
    /\ UNCHANGED <<powerVars, shell, pidFile, usr1, sched, frontVars, instant, resume, disk>>

Launcher_record ==
    /\ power /\ launcher = "record" /\ launcher' = "wait"
    /\ RecordPid("gm")
    /\ UNCHANGED <<powerVars, shell, proc, usr1, sched, frontVars, fileVars, gameOpk>>

Launcher_wait ==
    /\ power /\ launcher = "wait" /\ proc["gm"] = "none"
    /\ launcher' = "erase"
    /\ UNCHANGED <<powerVars, shell, proc, pidFile, usr1, sched, frontVars, fileVars, gameOpk>>

Launcher_erase ==
    /\ power /\ launcher = "erase" /\ launcher' = "none"
    /\ pidFile' = "none"
    /\ proc' = [proc EXCEPT !["fe"] = "run"]
    /\ UNCHANGED <<powerVars, shell, usr1, sched, frontVars, fileVars, gameOpk>>

-----------------------------------------------------------------------------
(* The programs: the user leaves them, or they shut the console down.      *)

Quit(p) ==
    /\ power /\ proc[p] = "run"
    /\ proc' = [proc EXCEPT ![p] = "none"]
    /\ usr1' = usr1 \ {p}
    /\ UNCHANGED <<powerVars, shell, launcher, pidFile, sched, frontVars, fileVars, gameOpk>>

\* The user asks for a shutdown in the menu of the program.
ShutDown(p) ==
    /\ power /\ proc[p] = "run"
    /\ Overlap \/ ~ShutdownPending
    /\ proc' = [proc EXCEPT ![p] = IF p = "gm" THEN "trunc" ELSE "sync"]
    /\ usr1' = usr1 \ {p}
    /\ UNCHANGED <<powerVars, shell, launcher, pidFile, sched, frontVars, fileVars, gameOpk>>

InGracePeriod ==
    /\ ~rebooting /\ ~halting
    /\ \A i \in Scheds : sched[i] \in {"idle", "warn", "sleep"}

\* mutant: the program acknowledges without "powerdown handle"
Handle_nokill(p) ==
    /\ power /\ proc[p] = "run" /\ p \in usr1
    /\ Late \/ InGracePeriod
    /\ usr1' = usr1 \ {p}
    /\ proc' = [proc EXCEPT ![p] = IF p = "gm" THEN "trunc" ELSE "sync"]
    /\ UNCHANGED <<powerVars, shell, launcher, pidFile, sched, frontVars, fileVars, gameOpk>>

\* powerdown handle: pkill kills every "powerdown schedule", at whatever step it is.
Handle(p) ==
    /\ power /\ proc[p] = "run" /\ p \in usr1
    /\ Late \/ InGracePeriod
    /\ usr1' = usr1 \ {p}
    /\ sched' = [i \in Scheds |-> "idle"]
    /\ proc' = [proc EXCEPT ![p] = IF p = "gm" THEN "trunc" ELSE "sync"]
    /\ UNCHANGED <<powerVars, shell, launcher, pidFile, frontVars, fileVars, gameOpk>>

-----------------------------------------------------------------------------
(* instant_play save and powerdown now, in the process of the program.     *)

Save_trunc ==
    /\ power /\ proc["gm"] = "trunc"
    /\ proc' = [proc EXCEPT !["gm"] = "trailer"]
    /\ instant' = "torn"
    /\ UNCHANGED <<powerVars, shell, launcher, pidFile, usr1, sched, frontVars,
                   resume, lastOpk, opk, disk, gameOpk>>

Save_trailer ==
    /\ power /\ proc["gm"] = "trailer"
    /\ proc' = [proc EXCEPT !["gm"] = "sync"]
    /\ instant' = IF gameOpk THEN "opk" ELSE "plain"
    /\ UNCHANGED <<powerVars, shell, launcher, pidFile, usr1, sched, frontVars,
                   resume, lastOpk, opk, disk, gameOpk>>

Synced == [instant |-> instant, lastOpk |-> lastOpk]

\* mutant: powerdown_now without sync
Now_sync_none(p) ==
    /\ power /\ proc[p] = "sync"
    /\ proc' = [proc EXCEPT ![p] = "touch"]
    /\ UNCHANGED <<powerVars, shell, launcher, pidFile, usr1, sched, frontVars,
                   fileVars, gameOpk>>

Now_sync(p) ==
    /\ power /\ proc[p] = "sync"
    /\ proc' = [proc EXCEPT ![p] = "touch"]
    /\ disk' = Synced
    /\ UNCHANGED <<powerVars, shell, launcher, pidFile, usr1, sched, frontVars,
                   instant, resume, lastOpk, opk, gameOpk>>

Now_touch(p) ==
    /\ power /\ proc[p] = "touch"
    /\ proc' = [proc EXCEPT ![p] = "poweroff"]
    /\ rebooting' = TRUE
    /\ UNCHANGED <<power, halting, requests, cuts, shell, launcher, pidFile, usr1, sched, frontVars,
                   fileVars, gameOpk>>

\* audio_amp off, ro, poweroff; the process ends.
Now_poweroff(p) ==
    /\ power /\ proc[p] = "poweroff"
    /\ proc' = [proc EXCEPT ![p] = "none"]
    /\ halting' = TRUE
    /\ UNCHANGED <<power, rebooting, requests, cuts, shell, launcher, pidFile, usr1, sched, frontVars,
                   fileVars, gameOpk>>

-----------------------------------------------------------------------------
(* powerdown schedule: the power button, the lid or low_bat_check.         *)

Schedule(i) ==
    /\ power /\ sched[i] = "idle"
    /\ Overlap \/ ~ShutdownPending
    /\ requests < MaxRequests /\ requests' = requests + 1
    /\ sched' = [sched EXCEPT ![i] = "warn"]
    /\ UNCHANGED <<power, halting, rebooting, cuts, shell, proc, launcher, pidFile, usr1, frontVars,
                   fileVars, gameOpk>>

\* kill -USR1: a program notes it; in a script that the program has exec'ed the
\* signal has its default action and ends the process.
Schedule_warn(i) ==
    /\ power /\ sched[i] = "warn"
    /\ sched' = [sched EXCEPT ![i] = "sleep"]
    /\ \/ /\ pidFile \in {"fe", "gm"} /\ proc[pidFile] \in {"run", "wait"}
          /\ usr1' = usr1 \cup {pidFile} /\ UNCHANGED proc
       \/ /\ pidFile \in {"fe", "gm"} /\ proc[pidFile] \notin {"none", "run", "wait"}
          /\ proc' = [proc EXCEPT ![pidFile] = "none"] /\ UNCHANGED usr1
       \/ /\ pidFile \in {"fe", "gm"} => proc[pidFile] = "none"
          /\ UNCHANGED <<proc, usr1>>
    /\ UNCHANGED <<powerVars, shell, launcher, pidFile, frontVars, fileVars, gameOpk>>

\* The grace period is over: powerdown_now in the process of the schedule.
Schedule_expire(i) ==
    /\ power /\ sched[i] = "sleep"
    /\ sched' = [sched EXCEPT ![i] = "sync"]
    /\ UNCHANGED <<powerVars, shell, proc, launcher, pidFile, usr1, frontVars,
                   fileVars, gameOpk>>

Schedule_sync(i) ==
    /\ power /\ sched[i] = "sync"
    /\ sched' = [sched EXCEPT ![i] = "touch"]
    /\ disk' = Synced
    /\ UNCHANGED <<powerVars, shell, proc, launcher, pidFile, usr1, frontVars,
                   instant, resume, lastOpk, opk, gameOpk>>

Schedule_touch(i) ==
    /\ power /\ sched[i] = "touch"
    /\ sched' = [sched EXCEPT ![i] = "poweroff"]
    /\ rebooting' = TRUE
    /\ UNCHANGED <<power, halting, requests, cuts, shell, proc, launcher, pidFile, usr1, frontVars,
                   fileVars, gameOpk>>

\* mutant: the script ends without poweroff
Schedule_poweroff_none(i) ==
    /\ power /\ sched[i] = "poweroff"
    /\ sched' = [sched EXCEPT ![i] = "idle"]
    /\ UNCHANGED <<powerVars, shell, proc, launcher, pidFile, usr1, frontVars,
                   fileVars, gameOpk>>

Schedule_poweroff(i) ==
    /\ power /\ sched[i] = "poweroff"
    /\ sched' = [sched EXCEPT ![i] = "idle"]
    /\ halting' = TRUE
    /\ UNCHANGED <<power, rebooting, requests, cuts, shell, proc, launcher, pidFile, usr1, frontVars,
                   fileVars, gameOpk>>

-----------------------------------------------------------------------------
(* Power.                                                                  *)

\* The processes and everything on a tmpfs are gone.
SessionEnds ==
    /\ power' = FALSE /\ halting' = FALSE /\ rebooting' = FALSE /\ requests' = 0
    /\ shell' = "opk"
    /\ proc' = [p \in {"fe", "gm"} |-> "none"]
    /\ launcher' = "none" /\ pidFile' = "none" /\ usr1' = {}
    /\ sched' = [i \in Scheds |-> "idle"]
    /\ lock' = FALSE /\ opk' = FALSE /\ gameOpk' = FALSE /\ resume' = "none"
    /\ UNCHANGED <<frontend, disabled>>

\* init has run its shutdown actions; unmounting /mnt writes everything back.
PowerOff ==
    /\ power /\ halting
    /\ SessionEnds
    /\ disk' = Synced
    /\ UNCHANGED <<instant, lastOpk, cuts>>

PowerCut ==
    /\ power /\ cuts < MaxCuts /\ cuts' = cuts + 1
    /\ SessionEnds
    /\ instant' \in {instant, disk.instant} /\ lastOpk' \in {lastOpk, disk.lastOpk}
    /\ disk' = [instant |-> instant', lastOpk |-> lastOpk']

PowerOn ==
    /\ ~power /\ power' = TRUE
    /\ UNCHANGED <<halting, rebooting, requests, cuts, shell, proc, launcher, pidFile, usr1, sched,
                   frontVars, fileVars, gameOpk>>

\* The kernel writes dirty pages back from time to time.
Writeback ==
    /\ power /\ disk # Synced /\ disk' = Synced
    /\ UNCHANGED <<powerVars, shell, proc, launcher, pidFile, usr1, sched, frontVars,
                   instant, resume, lastOpk, opk, gameOpk>>

-----------------------------------------------------------------------------

ShellStep ==
    \/ Load_opk \/ Load_mv \/ Load_source \/ Load_record \/ Load_wait
    \/ Load_erase \/ Load_rm \/ Load_tail \/ Load_tailrm
    \/ Front_lock \/ Front_check \/ Front_prep \/ Front_preprm \/ Front_launch
    \/ Front_record \/ Front_wait \/ Front_erase \/ Front_again

LauncherStep == Launcher_record \/ Launcher_wait \/ Launcher_erase

SaveStep == Save_trunc \/ Save_trailer

NowStep(p) == Now_sync(p) \/ Now_touch(p) \/ Now_poweroff(p)

ScheduleStep(i) ==
    \/ Schedule_warn(i) \/ Schedule_expire(i) \/ Schedule_sync(i)
    \/ Schedule_touch(i) \/ Schedule_poweroff(i)

UserStep ==
    \/ \E f \in {"known", "none"} : SetFrontend(f)
    \/ \E isOpk \in BOOLEAN : LaunchGame(isOpk)
    \/ \E p \in {"fe", "gm"} : Quit(p) \/ ShutDown(p) \/ Handle(p)
    \/ \E i \in Scheds : Schedule(i)

Next ==
    \/ ShellStep \/ LauncherStep \/ SaveStep
    \/ \E p \in {"fe", "gm"} : NowStep(p)
    \/ \E i \in Scheds : ScheduleStep(i)
    \/ UserStep
    \/ PowerOff \/ PowerCut \/ PowerOn \/ Writeback

\* Processes the kernel schedules make progress; the user, the programs before
\* they have decided, the battery and the power button owe nothing.
Fairness ==
    /\ WF_vars(ShellStep) /\ WF_vars(LauncherStep) /\ WF_vars(SaveStep)
    /\ \A p \in {"fe", "gm"} : WF_vars(NowStep(p))
    /\ \A i \in Scheds : WF_vars(ScheduleStep(i))
    /\ WF_vars(PowerOff)

Spec == Init /\ [][Next]_vars /\ Fairness

-----------------------------------------------------------------------------
(* Properties                                                              *)

\* A saved game is resumed once: while the resumed game plays, the file it was
\* resumed from is gone, so a game that brings the console down is not resumed
\* again at the next start (instant_play load moves the file before it runs it).
NoResumeLoop ==
    shell \in {"record", "wait"} /\ proc["gm"] = "run" => instant = "none"

\* A saved game that lives in an OPK can be resumed: last_opk names its OPK for
\* as long as the saved command exists, whatever the login shell, the frontend
\* loop and the launchers do while the console shuts down.
OpkKept == instant = "opk" => lastOpk

\* The resumed game finds its OPK mounted.
OpkMountedForResume == shell = "source" /\ resume = "opk" => opk

\* Before powerdown announces the shutdown the saved game is on the card.
DurableSave ==
    proc["gm"] \in {"touch", "poweroff"} =>
        disk.instant = (IF gameOpk THEN "opk" ELSE "plain")

\* "If the signal is caught, then it means the running FunKey process canceled
\* this shutdown and will handle it by itself" (powerdown:23): a shutdown by
\* command never leaves a half-written saved game behind.
NoTornSave == ~power /\ cuts = 0 => disk.instant # "torn"

\* A saved game is there to be resumed, whole, with its OPK, and once, unless
\* the power has been cut.
ResumedOnce ==
    TypeOK /\ NoResumeLoop /\ NoTornSave
    /\ (cuts = 0 => OpkKept /\ OpkMountedForResume)

\* A requested shutdown happens: once a powerdown is scheduled, or a program has
\* taken it over, the power goes off, however the grace period, the cancellation
\* and the saving of the game interleave.
ShutdownHappens == (power /\ ShutdownPending) ~> ~power

\* A console that is switched on gets to a program the user can use, or to the
\* state in which the user has disabled the frontend, or is shut down, also
\* after a power cut that has left a half-written saved game.
BootReachesProgram ==
    power ~> \/ ~power \/ ShutdownPending
             \/ proc["fe"] = "run" \/ proc["gm"] = "run"
             \/ disabled \/ frontend = "none"

\* The saved game as it passes from session to session.
Playing == IF proc["gm"] \in {"run", "trunc", "trailer"}
           THEN IF gameOpk THEN "opk" ELSE "plain"
           ELSE "none"

Promise ==
    INSTANCE SavedGame WITH
        Games <- {"plain", "opk"},
        on <- power,
        fresh <- (shell \in {"opk", "mv"}),
        announced <- rebooting,
        playing <- Playing,
        saved <- instant,
        taken <- IF shell = "source" THEN resume ELSE "none",
        known <- lastOpk,
        card <- [saved |-> disk.instant, known |-> disk.lastOpk]

\* The scripts keep what SavedGame promises, when one shutdown is under way at a
\* time and programs answer in time: a game is whole and on the card before the
\* end is announced, wherever the power is cut; the next start resumes it, and no
\* later one does unless a cut brings back what was on the card.
ImplementsSavedGame == Promise!Spec
=============================================================================
