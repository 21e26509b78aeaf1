------------------------------- MODULE Share -------------------------------
(***************************************************************************)
(* The data partition (/dev/mmcblk0p7) is used from two sides: mounted on  *)
(* /mnt by the console, or exported as a mass storage LUN to a USB host.   *)
(* The scripts share, usb_gadget and adb move it from one side to the      *)
(* other, and rebuild the composite USB gadget.  Nothing but these scripts *)
(* keeps the two sides apart: the kernel lets a mounted block device be    *)
(* exported.                                                               *)
(*                                                                         *)
(* A caller is a process that runs one script at a time: init's rcS and    *)
(* rcK (S10share), the on-screen menu, a shell.  Every external command of *)
(* a script that moves the partition (umount, mount, a write to lun.0/file)*)
(* is one step.  The commands that build and remove the gadget are grouped *)
(* by the part of it they make or take away, and each may fail: nothing    *)
(* checks them, so a half-made gadget is a state like any other.           *)
(***************************************************************************)
EXTENDS Naturals, FiniteSets

CONSTANTS
    Callers,        \* processes that may run the scripts
    MaxFwu          \* bound: firmware update files on the partition

ASSUME CallersAssumption == Callers # {}
ASSUME FwuAssumption == MaxFwu \in Nat

VARIABLES
    mounted,        \* /dev/mmcblk0p7 is mounted on /mnt
    backing,        \* lun.0/file of the mass storage function names the partition
    gadgetDir,      \* the directory of the composite gadget exists
    gadget,         \* function directories in it
    linked,         \* functions linked into its configuration
    bound,          \* the gadget is bound to the USB device controller
    locked,         \* /var/lock/share.lock exists
    booted,         \* S10share has returned: init may start the login shell
    cable,          \* a USB host is plugged in
    held,           \* the host has the medium mounted and prevents its removal
    fwu,            \* number of FunKey-*.fwu files on the partition
    adbFile,        \* the file "adb" exists on the partition
    netFile,        \* the file "usbnet" exists on the partition
    toRecovery,     \* recovery_mode has been run
    ejected,        \* history: the host has ejected the medium since the last export
    pc,             \* next step of each caller
    cmd,            \* the command each caller runs, or ran last
    flags,          \* the functions USBNET and ADB ask for, read when the script starts
    rc              \* exit status of the last command of each caller

usbVars == <<gadgetDir, gadget, linked, bound, cable, held>>
diskVars == <<fwu, adbFile, netFile>>
vars == <<mounted, backing, usbVars, locked, booted, diskVars, toRecovery, ejected,
          pc, cmd, flags, rc>>

Commands == {"init", "start", "stop", "adb start", "adb stop"}
Functions == {"storage", "rndis", "adb"}
BuildSteps == {"g_check", "g_dir", "g_func", "g_net", "g_unbind", "g_link", "g_bind"}
RemoveSteps == {"u_unbind", "u_unlink", "u_remove", "u_rmdir"}
Steps == BuildSteps \cup RemoveSteps \cup
         {"idle", "i_lock", "m_check", "m_mount", "m_fwu",
          "s_shared", "s_usb", "s_umount", "s_write", "t_clear"}
ExitCodes == {0, 1, 4, 11, 12, 13, 14}

Entry == [x \in Commands |->
            CASE x = "init"      -> "i_lock"
              [] x = "start"     -> "s_shared"
              [] x = "stop"      -> "t_clear"
              [] x \in {"adb start", "adb stop"} -> "u_unbind"]

TypeOK ==
    /\ mounted \in BOOLEAN /\ backing \in BOOLEAN /\ bound \in BOOLEAN
    /\ locked \in BOOLEAN /\ booted \in BOOLEAN
    /\ cable \in BOOLEAN /\ held \in BOOLEAN
    /\ adbFile \in BOOLEAN /\ netFile \in BOOLEAN /\ toRecovery \in BOOLEAN
    /\ ejected \in BOOLEAN
    /\ gadgetDir \in BOOLEAN /\ gadget \subseteq Functions /\ linked \subseteq Functions
    /\ fwu \in 0..MaxFwu
    /\ pc \in [Callers -> Steps]
    /\ cmd \in [Callers -> Commands]
    /\ flags \in [Callers -> SUBSET {"adb", "rndis"}]
    /\ rc \in [Callers -> ExitCodes]

\* /etc/inittab runs "mount -a" before rcS; it may fail to mount the partition.
Init ==
    /\ mounted \in BOOLEAN
    /\ backing = FALSE /\ gadgetDir = FALSE /\ gadget = {} /\ linked = {} /\ bound = FALSE
    /\ locked = FALSE /\ booted = FALSE
    /\ cable \in BOOLEAN /\ held = FALSE
    /\ fwu \in 0..MaxFwu /\ adbFile \in BOOLEAN /\ netFile \in BOOLEAN
    /\ toRecovery = FALSE /\ ejected = FALSE
    /\ pc = [c \in Callers |-> "idle"]
    /\ cmd = [c \in Callers |-> "init"]
    /\ flags = [c \in Callers |-> {}]
    /\ rc = [c \in Callers |-> 0]

-----------------------------------------------------------------------------
(* Control of a script.                                                    *)

Goto(c, from, to) ==
    /\ pc[c] = from
    /\ pc' = [pc EXCEPT ![c] = to]
    /\ UNCHANGED <<cmd, flags, rc, booted>>

\* "exit": die and the end of the script.  S10share is the only script before login.
Exit(c, from, code) ==
    /\ pc[c] = from
    /\ pc' = [pc EXCEPT ![c] = "idle"]
    /\ rc' = [rc EXCEPT ![c] = code]
    /\ booted' = (booted \/ cmd[c] = "init")
    /\ UNCHANGED <<cmd, flags>>

\* Sourcing usb_gadget reads the two request files, when /mnt is mounted.
RequestedFunctions ==
    {f \in {"adb", "rndis"} : mounted /\ (IF f = "adb" THEN adbFile ELSE netFile)}

Begin(c, x) ==
    /\ pc[c] = "idle"
    /\ booted \/ (x = "init" /\ \A d \in Callers : pc[d] = "idle")
    /\ pc' = [pc EXCEPT ![c] = Entry[x]]
    /\ cmd' = [cmd EXCEPT ![c] = x]
    /\ flags' = [flags EXCEPT ![c] = RequestedFunctions]
    /\ UNCHANGED <<mounted, backing, usbVars, locked, booted, diskVars, toRecovery, ejected, rc>>

-----------------------------------------------------------------------------
(* The composite gadget: init_usb_gadget and init_adb build it, and        *)
(* deinit_usb_gadget and deinit_adb remove it, of which adb runs one each. *)

\* ADB has precedence over USB mass storage: init_usb_gadget then runs adb start, whose
\* own removal finds nothing.
ByAdb(c) == cmd[c] = "adb start" \/ "adb" \in flags[c]

\* The functions that are built.  ADB stands for its two, acm and ffs.
Making(c) == IF ByAdb(c) THEN {"adb"} ELSE {"storage"} \cup (flags[c] \cap {"rndis"})

\* The functions that are removed: one that is not named stays, and with it the gadget.
Named(c) == IF cmd[c] = "adb stop" THEN {"adb"} ELSE {"storage"} \cup (flags[c] \cap {"rndis"})

\* Removing a function directory closes its LUN; unbinding detaches the host.
GadgetBecomes(functions, links, isBound) ==
    /\ gadget' = functions /\ linked' = links /\ bound' = isBound
    /\ backing' = (backing /\ "storage" \in functions)
    /\ held' = (held /\ isBound)

GadgetOnly == UNCHANGED <<mounted, cable, locked, diskVars, toRecovery, ejected>>

\* "return 0": nobody looks at whether the gadget is whole.
GadgetReady(c, from) ==
    \/ cmd[c] = "init" /\ Goto(c, from, "m_check")
    \/ cmd[c] # "init" /\ Exit(c, from, 0)

\* An existing gadget is kept, whatever it is made of.
Gadget_check(c) ==
    /\ \/ gadgetDir /\ GadgetReady(c, "g_check")
       \/ ~gadgetDir /\ Goto(c, "g_check", "g_dir")
    /\ GadgetOnly /\ UNCHANGED <<gadgetDir, gadget, linked, bound, backing, held>>

Gadget_dir(c) ==
    /\ Goto(c, "g_dir", "g_func")
    /\ gadgetDir' \in {gadgetDir, TRUE}
    /\ GadgetOnly /\ UNCHANGED <<gadget, linked, bound, backing, held>>

Gadget_func(c) ==
    /\ Goto(c, "g_func", IF "rndis" \in Making(c) THEN "g_net" ELSE "g_link")
    /\ \E made \in SUBSET Making(c) :
          /\ made = {} \/ gadgetDir
          /\ GadgetBecomes(gadget \cup made, linked, bound)
    /\ GadgetOnly /\ UNCHANGED gadgetDir

\* A configuration without a function cannot be bound.
Gadget_net(c) ==
    /\ Goto(c, "g_net", "g_unbind")
    /\ \E new \in SUBSET ({"rndis"} \cap gadget), b \in BOOLEAN :
          /\ b => linked \cup new # {}
          /\ GadgetBecomes(gadget, linked \cup new, bound \/ b)
    /\ GadgetOnly /\ UNCHANGED gadgetDir

Gadget_unbind(c) ==
    /\ Goto(c, "g_unbind", "g_link")
    /\ \E b \in {FALSE, bound} : GadgetBecomes(gadget, linked, b)
    /\ GadgetOnly /\ UNCHANGED gadgetDir

\* mutant: the partition is exported at once (the line init_usb_gadget has commented out)
Gadget_link_export(c) ==
    /\ Goto(c, "g_link", "g_bind")
    /\ linked' = linked \cup (Making(c) \cap gadget)
    /\ backing' = ("storage" \in gadget)
    /\ GadgetOnly /\ UNCHANGED <<gadgetDir, gadget, bound, held>>

Gadget_link(c) ==
    /\ Goto(c, "g_link", "g_bind")
    /\ \E new \in SUBSET ((Making(c) \ {"rndis"}) \cap gadget) :
          GadgetBecomes(gadget, linked \cup new, bound)
    /\ GadgetOnly /\ UNCHANGED gadgetDir

Gadget_bind(c) ==
    /\ GadgetReady(c, "g_bind")
    /\ \E b \in BOOLEAN : (b => linked # {}) /\ GadgetBecomes(gadget, linked, bound \/ b)
    /\ GadgetOnly /\ UNCHANGED gadgetDir

Deinit_unbind(c) ==
    /\ Goto(c, "u_unbind", "u_unlink")
    /\ \E b \in {FALSE, bound} : GadgetBecomes(gadget, linked, b)
    /\ GadgetOnly /\ UNCHANGED gadgetDir

\* The kernel unbinds a gadget that loses a function.
Deinit_unlink(c) ==
    /\ Goto(c, "u_unlink", "u_remove")
    /\ \E gone \in SUBSET (Named(c) \cap linked) :
          GadgetBecomes(gadget, linked \ gone, bound /\ gone = {})
    /\ GadgetOnly /\ UNCHANGED gadgetDir

\* A function that is linked cannot be removed, nor a gadget that has functions.
Deinit_remove(c) ==
    /\ Goto(c, "u_remove", "u_rmdir")
    /\ \E gone \in SUBSET ((Named(c) \cap gadget) \ linked) :
          GadgetBecomes(gadget \ gone, linked, bound)
    /\ GadgetOnly /\ UNCHANGED gadgetDir

Deinit_rmdir(c) ==
    /\ Goto(c, "u_rmdir", "g_check")
    /\ gadgetDir' \in {gadgetDir, gadgetDir /\ gadget # {}}
    /\ GadgetOnly /\ UNCHANGED <<gadget, linked, bound, backing, held>>

-----------------------------------------------------------------------------
(* share init                                                              *)

Init_lock(c) ==
    /\ \/ locked /\ Exit(c, "i_lock", 0)
       \/ ~locked /\ Goto(c, "i_lock", "g_check")
    /\ locked' = TRUE
    /\ UNCHANGED <<mounted, backing, usbVars, diskVars, toRecovery, ejected>>

-----------------------------------------------------------------------------
(* mount_share, the tail of share init and share stop.                     *)

\* mutant: an already mounted partition is taken to have been looked at
Mount_check_return(c) ==
    /\ \/ mounted /\ Exit(c, "m_check", 0)
       \/ ~mounted /\ Goto(c, "m_check", "m_mount")
    /\ UNCHANGED <<mounted, backing, usbVars, locked, diskVars, toRecovery, ejected>>

Mount_check(c) ==
    /\ \/ mounted /\ Goto(c, "m_check", "m_fwu")
       \/ ~mounted /\ Goto(c, "m_check", "m_mount")
    /\ UNCHANGED <<mounted, backing, usbVars, locked, diskVars, toRecovery, ejected>>

\* mutant: "mount /mnt/" without "|| die 4"
Mount_mount_nodie(c) ==
    /\ \/ ~mounted /\ mounted' = TRUE
       \/ UNCHANGED mounted
    /\ Goto(c, "m_mount", "m_fwu")
    /\ UNCHANGED <<backing, usbVars, locked, diskVars, toRecovery, ejected>>

\* mount /mnt/ || die 4.  A second mount of the partition on /mnt is refused.
Mount_mount(c) ==
    /\ \/ ~mounted /\ mounted' = TRUE /\ Goto(c, "m_mount", "m_fwu")
       \/ UNCHANGED mounted /\ Exit(c, "m_mount", 4)
    /\ UNCHANGED <<backing, usbVars, locked, diskVars, toRecovery, ejected>>

\* [ -f /mnt/FunKey-*.fwu ]: with several matches "[" has too many arguments and fails.
UpdateFileFound == mounted /\ fwu = 1

Mount_fwu(c) ==
    /\ Exit(c, "m_fwu", 0)
    /\ toRecovery' = (toRecovery \/ UpdateFileFound)
    /\ UNCHANGED <<mounted, backing, usbVars, locked, diskVars, ejected>>

-----------------------------------------------------------------------------
(* share start                                                             *)

Start_shared(c) ==
    /\ \/ backing /\ Exit(c, "s_shared", 12)
       \/ ~backing /\ Goto(c, "s_shared", "s_usb")
    /\ UNCHANGED <<mounted, backing, usbVars, locked, diskVars, toRecovery, ejected>>

\* is_usb_data_connected: power on the port and a configured device controller.
UsbDataConnected == cable /\ bound

Start_usb(c) ==
    /\ \/ ~UsbDataConnected /\ Exit(c, "s_usb", 13)
       \/ UsbDataConnected /\ Goto(c, "s_usb", "s_umount")
    /\ UNCHANGED <<mounted, backing, usbVars, locked, diskVars, toRecovery, ejected>>

\* unmount_share fails when /mnt is busy or not mounted.
Start_umount(c) ==
    /\ \/ mounted /\ mounted' = FALSE /\ Goto(c, "s_umount", "s_write")
       \/ UNCHANGED mounted /\ Exit(c, "s_umount", 1)
    /\ UNCHANGED <<backing, usbVars, locked, diskVars, toRecovery, ejected>>

\* The write fails without a mass storage function, and the kernel may refuse it.
Start_write(c) ==
    /\ \/ /\ "storage" \in gadget /\ ~held
          /\ backing' = TRUE /\ ejected' = FALSE /\ Exit(c, "s_write", 0)
       \/ UNCHANGED <<backing, ejected>> /\ Exit(c, "s_write", 14)
    /\ UNCHANGED <<mounted, usbVars, locked, diskVars, toRecovery>>

-----------------------------------------------------------------------------
(* share stop                                                              *)

\* The kernel refuses to eject a medium the host holds; without a function there is no file.
Ejectable == "storage" \in gadget /\ ~held

\* mutant: a refused eject is forced by unbinding the gadget
Stop_clear_unbind(c) ==
    /\ \/ Ejectable /\ Goto(c, "t_clear", "m_check") /\ backing' = FALSE
          /\ UNCHANGED <<gadget, linked, bound, held>>
       \/ ~Ejectable /\ Exit(c, "t_clear", 11) /\ GadgetBecomes(gadget, linked, FALSE)
    /\ GadgetOnly /\ UNCHANGED gadgetDir

\* mutant: the partition is mounted while the host still has the medium
Stop_clear_skip(c) ==
    /\ \/ Ejectable /\ Goto(c, "t_clear", "m_check")
       \/ ~Ejectable /\ Exit(c, "t_clear", 11)
    /\ UNCHANGED <<mounted, backing, usbVars, locked, diskVars, toRecovery, ejected>>

Stop_clear(c) ==
    /\ \/ Ejectable /\ backing' = FALSE /\ Goto(c, "t_clear", "m_check")
       \/ ~Ejectable /\ UNCHANGED backing /\ Exit(c, "t_clear", 11)
    /\ UNCHANGED <<mounted, usbVars, locked, diskVars, toRecovery, ejected>>

-----------------------------------------------------------------------------
(* The USB host, the user of the console and the power supply.             *)

\* Unplugging resets the function: the kernel forgets that the host held the medium.
CableChange ==
    /\ cable' = ~cable
    /\ held' = FALSE
    /\ UNCHANGED <<mounted, backing, gadgetDir, gadget, linked, bound, locked, booted,
                   diskVars, toRecovery, ejected, pc, cmd, flags, rc>>

\* The host sees the medium: the function is in the configuration that it talks to.
Visible == cable /\ bound /\ "storage" \in linked /\ backing

HostMount ==
    /\ Visible /\ ~held
    /\ held' = TRUE
    /\ UNCHANGED <<mounted, backing, gadgetDir, gadget, linked, bound, cable, locked, booted,
                   diskVars, toRecovery, ejected, pc, cmd, flags, rc>>

HostUnmount ==
    /\ held
    /\ held' = FALSE
    /\ UNCHANGED <<mounted, backing, gadgetDir, gadget, linked, bound, cable, locked, booted,
                   diskVars, toRecovery, ejected, pc, cmd, flags, rc>>

\* The LUN is removable: the host unmounts and ejects it, and the kernel closes its file.
HostEject ==
    /\ Visible
    /\ held' = FALSE /\ backing' = FALSE /\ ejected' = TRUE
    /\ UNCHANGED <<mounted, gadgetDir, gadget, linked, bound, cable, locked, booted,
                   diskVars, toRecovery, pc, cmd, flags, rc>>

HostWrite ==
    /\ held
    /\ \/ fwu < MaxFwu /\ fwu' = fwu + 1 /\ UNCHANGED <<adbFile, netFile>>
       \/ adbFile' = ~adbFile /\ UNCHANGED <<fwu, netFile>>
       \/ netFile' = ~netFile /\ UNCHANGED <<fwu, adbFile>>
    /\ UNCHANGED <<mounted, backing, usbVars, locked, booted, toRecovery, ejected,
                   pc, cmd, flags, rc>>

\* Power is lost or the console reboots: configfs, /var/lock and the processes are gone.
PowerCycle ==
    /\ mounted' \in BOOLEAN
    /\ backing' = FALSE /\ gadgetDir' = FALSE /\ gadget' = {} /\ linked' = {} /\ bound' = FALSE
    /\ locked' = FALSE /\ booted' = FALSE /\ held' = FALSE
    /\ toRecovery' = FALSE /\ ejected' = FALSE
    /\ pc' = [c \in Callers |-> "idle"]
    /\ cmd' = [c \in Callers |-> "init"]
    /\ flags' = [c \in Callers |-> {}]
    /\ rc' = [c \in Callers |-> 0]
    /\ UNCHANGED <<cable, diskVars>>

-----------------------------------------------------------------------------

GadgetStep(c) ==
    \/ Gadget_check(c) \/ Gadget_dir(c) \/ Gadget_func(c)
    \/ Gadget_net(c) \/ Gadget_unbind(c) \/ Gadget_link(c) \/ Gadget_bind(c)
    \/ Deinit_unbind(c) \/ Deinit_unlink(c) \/ Deinit_remove(c) \/ Deinit_rmdir(c)

ScriptStep(c) ==
    \/ Init_lock(c) \/ GadgetStep(c)
    \/ Mount_check(c) \/ Mount_mount(c) \/ Mount_fwu(c)
    \/ Start_shared(c) \/ Start_usb(c) \/ Start_umount(c) \/ Start_write(c)
    \/ Stop_clear(c)

Environment ==
    CableChange \/ HostMount \/ HostUnmount \/ HostEject \/ HostWrite \/ PowerCycle

Next ==
    \/ \E c \in Callers, x \in Commands : Begin(c, x)
    \/ \E c \in Callers : ScriptStep(c)
    \/ Environment

Spec == Init /\ [][Next]_vars

-----------------------------------------------------------------------------
(* Properties                                                              *)

\* The console and the host never use the file system of the partition at the
\* same time (share start unmounts before it exports, share stop withdraws the
\* medium before it mounts; either without the other destroys the FAT).
Exclusive == ~(mounted /\ backing)

\* The exit status tells who has the partition: after a successful share start, and
\* after "already shared" (die 12), the console no longer has it and the host does,
\* unless it has ejected it since; after a successful share stop the console alone.
ExitStatusTruthful ==
    \A c \in Callers : pc[c] = "idle" /\ booted =>
        /\ cmd[c] = "start" /\ rc[c] \in {0, 12} => ~mounted /\ (backing \/ ejected)
        /\ cmd[c] = "stop" /\ rc[c] = 0 => mounted /\ ~backing

\* No step of the share script takes the medium from a host that has it mounted, the
\* gadget that share init builds included: only the adb script, the cable, the host
\* and a power cycle do.
HostKeepsMedium ==
    [][\A c \in Callers :
          held /\ booted' /\ cmd[c] \in {"init", "start", "stop"} /\ pc'[c] # pc[c]
          => held' /\ backing']_vars

\* A share stop that succeeds finds the firmware update file the host left
\* on the partition ("Check if there is a firmware update file", share:54).
UpdateDetected ==
    \A c \in Callers :
        pc[c] = "idle" /\ booted /\ cmd[c] = "stop" /\ rc[c] = 0 /\ fwu > 0
        => toRecovery

\* "Everything is now clear to start sharing the backing store partition"
\* (share:112): when share start exports the partition it is not mounted.
ClearToShare == \A c \in Callers : pc[c] = "s_write" => ~mounted

\* The strengthening that makes Exclusive and ExitStatusTruthful inductive when
\* the scripts are run one at a time: nothing is exported before init has taken
\* its lock; whoever is about to mount has withdrawn the medium, whoever is about
\* to export has unmounted; the step a caller is at belongs to its command, and
\* only init runs before the console is up.
BeforeInit ==
    ~locked => /\ ~booted /\ ~backing
               /\ \A c \in Callers : pc[c] \in {"idle", "i_lock"}

ClearToMount ==
    \A c \in Callers :
        /\ pc[c] \in BuildSteps /\ cmd[c] = "init" => ~backing
        /\ pc[c] \in {"m_check", "m_mount", "m_fwu"} => ~backing
        /\ pc[c] = "m_fwu" => mounted

StepOfCommand ==
    \A c \in Callers :
        /\ pc[c] = "i_lock" => cmd[c] = "init"
        /\ pc[c] \in BuildSteps => cmd[c] \in {"init", "adb start", "adb stop"}
        /\ pc[c] \in RemoveSteps => cmd[c] \in {"adb start", "adb stop"}
        /\ pc[c] \in {"m_check", "m_mount", "m_fwu"} => cmd[c] \in {"init", "stop"}
        /\ pc[c] \in {"s_shared", "s_usb", "s_umount", "s_write"} => cmd[c] = "start"
        /\ pc[c] = "t_clear" => cmd[c] = "stop"
        /\ cmd[c] # "init" => booted

IInv ==
    /\ TypeOK /\ BeforeInit /\ ClearToMount /\ StepOfCommand
    /\ ClearToShare /\ Exclusive /\ ExitStatusTruthful

\* The partition as a resource with one user at a time.
Users == {u \in {"console", "host"} : IF u = "console" THEN mounted ELSE backing}

Ownership == INSTANCE PartitionOwner WITH users <- Users, up <- booted

\* The scripts implement the exclusive resource: each hand-over passes through
\* a state in which nobody uses the partition.
ImplementsOwnership == Ownership!Spec
=============================================================================
