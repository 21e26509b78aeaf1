--------------------------- MODULE FirmwareUpdate ---------------------------
(***************************************************************************)
(* The firmware update: an update file on the shared partition makes       *)
(* FunKey mark the Recovery partition bootable and restart                 *)
(* (recovery_mode); Recovery installs the file over the root partition of  *)
(* FunKey with swupdate and update_partition, erases it, marks the FunKey  *)
(* partition bootable and restarts (normal_mode).  The Recovery menu has   *)
(* an update of its own.                                                   *)
(*                                                                         *)
(* The scripts carry partition numbers: recovery_mode marks p1,            *)
(* normal_mode marks p2, sw-description and update_partition write p2,     *)
(* FunKey mounts p7 on /mnt and Recovery p4.  A card says where Recovery,  *)
(* FunKey and the shared partition are, and whether its boot loader        *)
(* follows the bootable mark.                                              *)
(***************************************************************************)
EXTENDS Naturals, FiniteSets

CONSTANTS
    Cards,      \* [recovery, funkey, share : partition numbers, byMark : BOOLEAN]
    MaxFiles,   \* bound: update files, handled in the order of their names
    Kinds,      \* what the user may copy: "good" or "bad_header" or "bad_payload"
    MaxFails,   \* bound: commands that fail
    MaxCuts     \* bound: power cuts

\* A boot loader that follows the mark boots p1 for Recovery, and FunKey is on
\* the p2 that normal_mode marks and the update writes (genimage-prod.cfg).
ASSUME CardsAssumption ==
    \A c \in Cards :
        /\ c \in [recovery : 1..7, funkey : 1..7, share : 1..7, byMark : BOOLEAN]
        /\ c.recovery # c.funkey
        /\ c.byMark => c.recovery = 1 /\ c.funkey = 2
ASSUME KindsAssumption == Kinds \subseteq {"good", "bad_header", "bad_payload"}
ASSUME BoundsAssumption == MaxFiles \in Nat /\ MaxFails \in Nat /\ MaxCuts \in Nat

VARIABLES
    card,       \* the card of the console
    pc,         \* what the console does: f_* in FunKey, r_* in Recovery
    mark,       \* the partition with the bootable mark
    rebooting,  \* reboot has been called, and init has not yet ended the session
    rootfs,     \* the root file system of FunKey
    files,      \* update files on the share: their kind or "none"
    todo,       \* update files of the loop over them that are still to do
    erase,      \* update files that update_partition has still to erase
    inMenu,     \* swupdate is run by the Recovery menu, not by S60recovery
    left,       \* how installations were left since FunKey was last complete
    fails, cuts \* failed commands and power cuts so far

vars == <<card, pc, mark, rebooting, rootfs, files, todo, erase, inMenu, left, fails, cuts>>

Files == 1..MaxFiles
Present == {f \in Files : files[f] # "none"}

\* The steps of an update, and those at which FunKey is being written.
Updating == {"r_next", "r_stream", "r_streamed", "r_resize", "r_resized", "r_erase",
             "r_failed", "r_restart"}
Writing == {"r_streamed", "r_resized"}

Pcs == {"off", "boot", "dead", "f_check", "f_idle", "r_start", "menu", "done"} \cup Updating

\* An installation was cut off, failed after it had begun to write, or was
\* overtaken by a restart, which the menu or S60recovery had called for.
Endings == {"cut", "failed", "menu_restart", "restart"}

TypeOK ==
    /\ card \in Cards /\ pc \in Pcs
    /\ mark \in {1, 2, card.funkey} /\ rebooting \in BOOLEAN
    /\ rootfs \in {"ok", "small", "torn"}
    /\ files \in [Files -> {"none", "good", "bad_header", "bad_payload"}]
    /\ todo \subseteq Files /\ erase \subseteq Files /\ inMenu \in BOOLEAN
    /\ left \subseteq Endings
    /\ fails \in 0..MaxFails /\ cuts \in 0..MaxCuts

\* A console that is set up and runs FunKey.
Init ==
    /\ card \in Cards /\ pc = "f_idle" /\ mark = card.funkey /\ rebooting = FALSE
    /\ rootfs = "ok" /\ files = [f \in Files |-> "none"] /\ todo = {} /\ erase = {}
    /\ inMenu = FALSE /\ left = {} /\ fails = 0 /\ cuts = 0

-----------------------------------------------------------------------------
(* The boot loader and the restart.                                        *)

\* A command fails.
Fail == fails < MaxFails /\ fails' = fails + 1

\* Fn and Start, when held, lead to Recovery.
BootPart(held) ==
    IF ~card.byMark THEN card.funkey
    ELSE IF held THEN 1
    ELSE mark

Boot ==
    /\ pc = "boot"
    /\ \E held \in BOOLEAN :
          pc' = CASE BootPart(held) = card.recovery -> "r_start"
                  [] BootPart(held) = card.funkey ->
                         IF rootfs = "torn" THEN "dead" ELSE "f_check"
                  [] OTHER -> "dead"
    /\ UNCHANGED <<card, mark, rebooting, rootfs, files, todo, erase, inMenu, left, fails, cuts>>

\* sfdisk -A and reboot, in recovery_mode and normal_mode, which do not look
\* whether sfdisk has failed.  reboot tells init and returns: the script that
\* called goes on until init kills it.
MarkAndReboot(part) ==
    /\ rebooting' = TRUE
    /\ \/ mark' = part /\ UNCHANGED fails
       \/ Fail /\ UNCHANGED mark

\* What is left of an installation that ends here, and how.
LeaveWriting(how) == left' = IF pc \in Writing THEN left \cup {how} ELSE left

Reboot ==
    /\ rebooting /\ rebooting' = FALSE
    /\ pc' = "boot" /\ todo' = {} /\ erase' = {} /\ inMenu' = FALSE
    /\ LeaveWriting(IF inMenu THEN "menu_restart" ELSE "restart")
    /\ UNCHANGED <<card, mark, rootfs, files, fails, cuts>>

-----------------------------------------------------------------------------
(* FunKey: mount_share, at the start and when the share is stopped.        *)

\* FunKey has p7 on its /mnt.  With two files the test of mount_share is a syntax
\* error, and fails.
UpdateFileFound == card.share = 7 /\ Cardinality(Present) = 1

RecoveryMode == MarkAndReboot(1)

CheckUpdate ==
    /\ pc = "f_check"
    /\ \/ UpdateFileFound /\ RecoveryMode /\ pc' = "done"
       \/ ~UpdateFileFound /\ pc' = "f_idle" /\ UNCHANGED <<mark, rebooting, fails>>
    /\ UNCHANGED <<card, rootfs, files, todo, erase, inMenu, left, cuts>>

\* share start, the host adds, replaces or removes a file or not, share stop.
UsbSession(f, k) ==
    /\ pc = "f_idle" /\ card.share = 7
    /\ files' = [files EXCEPT ![f] = k]
    /\ pc' = "f_check"
    /\ UNCHANGED <<card, mark, rebooting, rootfs, todo, erase, inMenu, left, fails, cuts>>

-----------------------------------------------------------------------------
(* Recovery: S60recovery                                                   *)

\* What Recovery sees of the update files on its /mnt, which is p4.
Visible == IF card.share = 4 THEN Present ELSE {}

\* Whether Fn and Start are held is read again: who has held them for the boot
\* loader only gets the automatic update, without a mark on Recovery.
StartRecovery ==
    /\ pc = "r_start"
    /\ \/ pc' = "menu" /\ UNCHANGED todo
       \/ Visible # {} /\ pc' = "r_next" /\ todo' = Visible
    /\ UNCHANGED <<card, mark, rebooting, rootfs, files, erase, inMenu, left, fails, cuts>>

\* The file swupdate is run on.
Current == CHOOSE f \in todo : \A g \in todo : f <= g

NormalMode == MarkAndReboot(2)

\* swupdate opens the file and reads sw-description; a file that an earlier
\* update has erased, or one with a bad header, is refused before p2 is touched,
\* and swupdate may fail on a good one.
NextUpdate ==
    /\ pc = "r_next"
    /\ \/ todo = {} /\ ~inMenu /\ NormalMode /\ pc' = "done" /\ UNCHANGED inMenu
       \/ /\ todo = {} /\ inMenu /\ pc' = "menu" /\ inMenu' = FALSE
          /\ UNCHANGED <<mark, rebooting, fails>>
       \/ /\ todo # {} /\ UNCHANGED <<mark, rebooting, inMenu>>
          /\ \/ /\ files[Current] \in {"none", "bad_header"}
                /\ pc' = "r_failed" /\ UNCHANGED fails
             \/ /\ files[Current] \in {"good", "bad_payload"}
                /\ \/ pc' = "r_stream" /\ UNCHANGED fails
                   \/ pc' = "r_failed" /\ Fail
    /\ UNCHANGED <<card, rootfs, files, todo, erase, left, cuts>>

\* mutant: the update file is erased before the image is complete
Stream_erase ==
    /\ pc = "r_stream" /\ pc' = "r_streamed"
    /\ \/ rootfs = "torn" /\ files' = [f \in Files |-> "none"] /\ UNCHANGED rootfs
       \/ rootfs # "torn" /\ rootfs' = "torn" /\ UNCHANGED files
    /\ UNCHANGED <<card, mark, rebooting, todo, erase, inMenu, left, fails, cuts>>

\* installed-directly: the image is written while it is read.
Stream ==
    /\ pc = "r_stream" /\ pc' = "r_streamed" /\ rootfs' = "torn"
    /\ UNCHANGED <<card, mark, rebooting, files, todo, erase, inMenu, left, fails, cuts>>

\* A corrupt payload is noticed when it is written; a good one may fail, too.
Streamed ==
    /\ pc = "r_streamed"
    /\ \/ /\ files[Current] = "good" /\ pc' = "r_resize"
          /\ rootfs' = "small" /\ left' = {} /\ UNCHANGED fails
       \/ /\ pc' = "r_failed" /\ LeaveWriting("failed") /\ UNCHANGED rootfs
          /\ IF files[Current] = "good" THEN Fail ELSE UNCHANGED fails
    /\ UNCHANGED <<card, mark, rebooting, files, todo, erase, inMenu, cuts>>

\* do_postinst: resize2fs works on p2, or refuses to ...
Resize ==
    /\ pc = "r_resize"
    /\ \/ pc' = "r_resized" /\ rootfs' = "torn" /\ UNCHANGED fails
       \/ pc' = "r_failed" /\ Fail /\ UNCHANGED rootfs
    /\ UNCHANGED <<card, mark, rebooting, files, todo, erase, inMenu, left, cuts>>

\* ... and is done, or fails half-way; the file system is mounted and unmounted
\* for a test, which may fail.
Resized ==
    /\ pc = "r_resized"
    /\ \/ /\ rootfs' = "ok" /\ left' = {}
          /\ \/ pc' = "r_erase" /\ erase' = Present /\ UNCHANGED fails
             \/ pc' = "r_failed" /\ Fail /\ UNCHANGED erase
       \/ pc' = "r_failed" /\ Fail /\ LeaveWriting("failed") /\ UNCHANGED <<rootfs, erase>>
    /\ UNCHANGED <<card, mark, rebooting, files, todo, inMenu, cuts>>

\* mutant: the update file survives the update
Erase_none ==
    /\ pc = "r_erase" /\ pc' = "r_next" /\ todo' = todo \ {Current} /\ erase' = {}
    /\ UNCHANGED <<card, mark, rebooting, rootfs, files, inMenu, left, fails, cuts>>

\* All update files are erased, one after the other; swupdate has succeeded,
\* whether they are gone or not.
Erase ==
    /\ pc = "r_erase"
    /\ \/ \E f \in erase :
             /\ \A g \in erase : f <= g
             /\ erase' = erase \ {f}
             /\ \/ files' = [files EXCEPT ![f] = "none"] /\ UNCHANGED fails
                \/ Fail /\ UNCHANGED files
             /\ UNCHANGED <<pc, todo>>
       \/ /\ erase = {} /\ pc' = "r_next" /\ todo' = todo \ {Current}
          /\ UNCHANGED <<files, erase, fails>>
    /\ UNCHANGED <<card, mark, rebooting, rootfs, inMenu, left, cuts>>

\* mutant: S60recovery restarts the console after each file, as the menu does
RemoveCorrupted_restart ==
    /\ pc = "r_failed" /\ pc' = "r_restart"
    /\ files' = [files EXCEPT ![Current] = "none"] /\ todo' = todo \ {Current}
    /\ UNCHANGED <<card, mark, rebooting, rootfs, erase, inMenu, left, fails, cuts>>

\* "CORRUPTED UPDATE FILE": swupdate has failed, at whatever stage.
RemoveCorrupted ==
    /\ pc = "r_failed" /\ pc' = IF inMenu THEN "r_restart" ELSE "r_next"
    /\ \/ files' = [files EXCEPT ![Current] = "none"] /\ UNCHANGED fails
       \/ Fail /\ UNCHANGED files
    /\ todo' = todo \ {Current}
    /\ UNCHANGED <<card, mark, rebooting, rootfs, erase, inMenu, left, cuts>>

\* The menu restarts the console, and goes on with the next file meanwhile.
RestartInLoop ==
    /\ pc = "r_restart" /\ NormalMode /\ pc' = "r_next"
    /\ UNCHANGED <<card, rootfs, files, todo, erase, inMenu, left, cuts>>

-----------------------------------------------------------------------------
(* The Recovery menu, the user and the power.                              *)

\* EXIT RECOVERY: the menu goes on until init kills it.
MenuExit ==
    /\ pc = "menu" /\ NormalMode
    /\ UNCHANGED <<card, pc, rootfs, files, todo, erase, inMenu, left, cuts>>

\* USB MOUNT, the host changes a file or not, USB UNMOUNT: the menu runs the
\* updates it then finds.
MenuUsb(f, k) ==
    /\ pc = "menu" /\ card.share = 4
    /\ files' = [files EXCEPT ![f] = k]
    /\ todo' = {g \in Files : files'[g] # "none"}
    /\ pc' = "r_next" /\ inMenu' = TRUE
    /\ UNCHANGED <<card, mark, rebooting, rootfs, erase, left, fails, cuts>>

\* USB FORMAT
MenuFormat ==
    /\ pc = "menu" /\ card.share = 4
    /\ files' = [f \in Files |-> "none"]
    /\ UNCHANGED <<card, pc, mark, rebooting, rootfs, todo, erase, inMenu, left, fails, cuts>>

\* The user changes a file in the card reader of another computer.
CardReader(f, k) ==
    /\ pc = "off" /\ files' = [files EXCEPT ![f] = k]
    /\ UNCHANGED <<card, pc, mark, rebooting, rootfs, todo, erase, inMenu, left, fails, cuts>>

PowerOff ==
    /\ pc \in {"f_idle", "menu", "dead"} /\ pc' = "off" /\ rebooting' = FALSE
    /\ UNCHANGED <<card, mark, rootfs, files, todo, erase, inMenu, left, fails, cuts>>

PowerCut ==
    /\ pc # "off" /\ cuts < MaxCuts
    /\ pc' = "off" /\ rebooting' = FALSE /\ cuts' = cuts + 1
    /\ LeaveWriting("cut")
    /\ UNCHANGED <<card, mark, rootfs, files, todo, erase, inMenu, fails>>

PowerOn ==
    /\ pc = "off" /\ pc' = "boot" /\ todo' = {} /\ erase' = {} /\ inMenu' = FALSE
    /\ UNCHANGED <<card, mark, rebooting, rootfs, files, left, fails, cuts>>

-----------------------------------------------------------------------------

RecoveryStep ==
    \/ StartRecovery \/ NextUpdate \/ Stream \/ Streamed \/ Resize \/ Resized
    \/ Erase \/ RemoveCorrupted \/ RestartInLoop

Next ==
    \/ Boot \/ CheckUpdate \/ RecoveryStep \/ Reboot
    \/ \E f \in Files, k \in Kinds \cup {"none"} :
          UsbSession(f, k) \/ MenuUsb(f, k) \/ CardReader(f, k)
    \/ MenuExit \/ MenuFormat
    \/ PowerOff \/ PowerCut \/ PowerOn

\* Boot loader, scripts and init run without the user; the user owes nothing.
Spec == Init /\ [][Next]_vars /\ WF_vars(Boot \/ CheckUpdate \/ RecoveryStep) /\ WF_vars(Reboot)

-----------------------------------------------------------------------------
(* Properties                                                              *)

\* The console is started with a half-written FunKey only after an installation
\* was cut off by the power, failed after it had begun to write, or was overtaken
\* by the restart that the loop of the Recovery menu calls for while it goes on
\* (menu:143).  The automatic update itself never restarts during one.
NeverBootsTorn == pc = "dead" => left \cap {"cut", "failed", "menu_restart"} # {}

\* While FunKey is half-written, the scripts of Recovery erase no good update file
\* but the one whose own installation has just failed for another reason than the
\* file (S60recovery:20-22): an installation that was interrupted can be repeated.
GoodFileKept ==
    [][\A f \in Files :
         pc \in Updating /\ files[f] = "good" /\ files'[f] = "none" =>
             rootfs # "torn" \/ (pc = "r_failed" /\ f = Current /\ fails > 0)]_vars

\* An automatic update that has a good file before it ends: with a complete FunKey
\* that runs and no update file, whatever the other files do to FunKey, unless the
\* power goes, the user enters the Recovery menu or a command fails.
AutomaticCompletes ==
    pc = "r_next" /\ ~inMenu /\ (\E f \in todo : files[f] = "good") ~>
        \/ pc \in {"off", "menu"}
        \/ pc = "f_idle" /\ Present = {}
        \/ pc \in {"f_idle", "dead"} /\ fails > 0

\* "The FunKey S console will automatically detect the firmware update file and
\* proceed with the update before returning to the retro game launcher screen
\* once finished" (README.md:179), unless the power goes or the user enters the
\* Recovery menu.
UpdateCompletes ==
    pc = "f_check" /\ UpdateFileFound ~>
        (pc = "f_idle" /\ Present = {}) \/ pc \in {"off", "menu"}
=============================================================================
