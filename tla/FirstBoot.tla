----------------------------- MODULE FirstBoot -----------------------------
(***************************************************************************)
(* Provisioning of a new SD card (first_boot, run by S01first_boot until   *)
(* the U-Boot variable first_boot_ok is set): the root partition p5 is     *)
(* resized, a swap partition p6 and the shared FAT partition p7 are        *)
(* created, p7 is formatted and filled.  Each function of the script       *)
(* decides from what it finds on the card whether its work is already      *)
(* done, because the script may have died, or the power may have gone, at  *)
(* any step of an earlier start.                                           *)
(*                                                                         *)
(* The card: the partition table, the state of the file systems and the    *)
(* environment survive a power off; what is mounted, the swap in use and   *)
(* the partitions the kernel knows do not.                                 *)
(***************************************************************************)
EXTENDS Naturals

CONSTANTS
    Fallible,       \* commands that may fail (see Commands)
    MaxFails,       \* bound: commands that fail
    MaxCuts         \* bound: power cuts

\* The commands whose failure matters.  The script does not notice the failure of
\* fdisk (on p5, p6 and p7), of the kernel that is to read the table again, of
\* mount -a, of the copying (unzip and cp) and of fw_setenv.
Commands == {"fdisk_root", "sfdisk", "partprobe", "resize2fs", "fdisk_swap", "reread",
             "mkswap", "swapon", "fdisk_usb", "mkfs", "mount", "mount_all", "copy",
             "umount", "fw_setenv"}

ASSUME FallibleAssumption == Fallible \subseteq Commands
ASSUME BoundsAssumption == MaxFails \in Nat /\ MaxCuts \in Nat

VARIABLES
    pc,         \* next step of first_boot; "off": no power, "end": it does not run
    rc,         \* exit status of the last first_boot
    ok,         \* first_boot_ok is set
    rootSize,   \* size of p5 in the partition table
    active,     \* p5 is marked bootable
    rootFs,     \* size of the root file system
    rootRw,     \* the root file system is mounted read-write
    swapPart,   \* p6 is in the partition table
    usbPart,    \* p7 is in the partition table
    known,      \* which of p6 and p7 the kernel has a device for
    swapFmt,    \* p6 has a swap signature
    swapOn,     \* swap is in use
    usbFmt,     \* file system of p7
    files,      \* the files of the distribution on p7
    user,       \* files of the user on p7
    mnt,        \* p7 is mounted on /mnt
    fails, cuts,\* how many commands have failed, and power cuts there were, so far
    failed,     \* which commands have failed so far
    cutAt       \* the steps of the script before which the power was cut

table == <<rootSize, active, swapPart, usbPart>>
content == <<rootFs, swapFmt, usbFmt, files, user, ok>>
volatile == <<rootRw, known, swapOn, mnt>>
counts == <<fails, failed>>
cutting == <<cuts, cutAt>>
vars == <<pc, rc, table, content, volatile, counts, cutting>>

Steps == {"off", "end", "resize", "active", "probe", "resizefs", "swap", "mkswap",
          "swapon", "usb", "usbprobe", "format", "formatting", "mount", "copy",
          "copying", "umount", "setenv"}

TypeOK ==
    /\ pc \in Steps /\ rc \in 0..17
    /\ ok \in BOOLEAN /\ active \in BOOLEAN /\ rootRw \in BOOLEAN
    /\ rootSize \in {"small", "1G"} /\ rootFs \in {"small", "big"}
    /\ swapPart \in BOOLEAN /\ usbPart \in BOOLEAN /\ known \subseteq {6, 7}
    /\ swapFmt \in BOOLEAN /\ swapOn \in BOOLEAN
    /\ usbFmt \in {"none", "torn", "good"} /\ files \in {"none", "some", "all"}
    /\ user \in BOOLEAN /\ mnt \in BOOLEAN
    /\ fails \in 0..MaxFails /\ cuts \in 0..MaxCuts
    /\ failed \subseteq Commands /\ cutAt \subseteq Steps

\* A card as the image writes it, before its first start: p5 is the last
\* partition and is bootable.
Init ==
    /\ pc = "off" /\ rc = 0 /\ ok = FALSE
    /\ rootSize \in {"small", "1G"} /\ active = TRUE /\ rootFs = "small"
    /\ rootRw = FALSE /\ swapPart = FALSE /\ usbPart = FALSE /\ known = {}
    /\ swapFmt = FALSE /\ swapOn = FALSE /\ usbFmt = "none" /\ files = "none"
    /\ user = FALSE /\ mnt = FALSE /\ fails = 0 /\ cuts = 0 /\ failed = {} /\ cutAt = {}

-----------------------------------------------------------------------------
(* Shorthands.                                                             *)

\* The number of the last line of fdisk -l.
LastPart == IF usbPart THEN 7 ELSE IF swapPart THEN 6 ELSE 5

\* The partitions of the table that the kernel makes devices for.
InTable == {p \in {6, 7} : (p = 6 /\ swapPart) \/ (p = 7 /\ usbPart)}

\* A FAT whose formatting was interrupted may mount or not.
Mountable == usbFmt = "good" \/ usbFmt = "torn"

GoOn(to) == pc' = to /\ UNCHANGED <<rc, counts>>

Die(code) == pc' = "end" /\ rc' = code /\ UNCHANGED counts

Fails(c) ==
    /\ c \in Fallible /\ fails < MaxFails
    /\ fails' = fails + 1 /\ failed' = failed \cup {c}

\* The command fails and the script dies.
FailAndDie(c, code) == Fails(c) /\ pc' = "end" /\ rc' = code

\* The command fails and the script does not look.
FailAndGoOn(c, to) == Fails(c) /\ pc' = to /\ UNCHANGED rc

-----------------------------------------------------------------------------
(* The start of the console: mount -a and swapon -a of the inittab, then   *)
(* S01first_boot.                                                          *)

MountAll ==
    \/ /\ usbPart /\ Mountable /\ mnt' = TRUE /\ UNCHANGED counts
    \/ /\ ~(usbPart /\ usbFmt = "good") /\ mnt' = FALSE /\ UNCHANGED counts
    \/ /\ usbPart /\ usbFmt = "good" /\ Fails("mount_all") /\ mnt' = FALSE

Boot ==
    /\ pc = "off"
    /\ pc' = IF ok THEN "end" ELSE "resize"
    /\ MountAll
    /\ swapOn' = (swapPart /\ swapFmt)
    /\ known' = InTable
    /\ rootRw' = FALSE
    /\ UNCHANGED <<rc, table, content, cutting>>

-----------------------------------------------------------------------------
(* 1/6 and 2/6: resize_rootfs_partition, resize_rootfs_filesystem          *)

\* fdisk removes p5 and creates it again, without the bootable mark.
ResizeRootfsPartition ==
    /\ pc = "resize"
    /\ IF rootSize = "1G" THEN GoOn("resizefs") /\ UNCHANGED <<rootSize, active>>
       ELSE IF LastPart # 5 THEN Die(4) /\ UNCHANGED <<rootSize, active>>
       ELSE \/ GoOn("active") /\ rootSize' = "1G" /\ active' = FALSE
            \/ FailAndGoOn("fdisk_root", "active") /\ UNCHANGED <<rootSize, active>>
    /\ UNCHANGED <<swapPart, usbPart, content, volatile, cutting>>

MarkBootable ==
    /\ pc = "active"
    /\ \/ GoOn("probe") /\ active' = TRUE
       \/ FailAndDie("sfdisk", 7) /\ UNCHANGED active
    /\ UNCHANGED <<rootSize, swapPart, usbPart, content, volatile, cutting>>

ReloadTable ==
    /\ pc = "probe"
    /\ GoOn("resizefs") \/ FailAndDie("partprobe", 8)
    /\ UNCHANGED <<table, content, volatile, cutting>>

ResizeRootfsFilesystem ==
    /\ pc = "resizefs"
    /\ IF rootFs = "big" THEN GoOn("swap") /\ UNCHANGED <<rootFs, rootRw>>
       ELSE \/ /\ GoOn("swap") /\ rootRw' = FALSE
               /\ rootFs' = IF rootSize = "1G" THEN "big" ELSE "small"
            \/ FailAndDie("resize2fs", 9) /\ rootRw' = TRUE /\ UNCHANGED rootFs
    /\ UNCHANGED <<table, swapFmt, usbFmt, files, user, ok, known, swapOn, mnt, cutting>>

-----------------------------------------------------------------------------
(* 3/6: create_swap                                                        *)

\* mutant: the partition is created without looking for an existing one
CreateSwapPartition_always ==
    /\ pc = "swap"
    /\ IF mnt THEN GoOn("mkswap") /\ UNCHANGED <<swapPart, known>>
       ELSE IF LastPart # 5 THEN Die(10) /\ UNCHANGED <<swapPart, known>>
       ELSE /\ swapPart' = TRUE
            /\ GoOn("mkswap") /\ known' = known \cup {6}
    /\ UNCHANGED <<rootSize, active, usbPart, content, rootRw, swapOn, mnt, cutting>>

\* The kernel may refuse to read the table of a disk in use again.
CreateSwapPartition ==
    /\ pc = "swap"
    /\ IF swapPart \/ mnt THEN GoOn("mkswap") /\ UNCHANGED <<swapPart, known>>
       ELSE IF LastPart # 5 THEN Die(10) /\ UNCHANGED <<swapPart, known>>
       ELSE \/ /\ swapPart' = TRUE
               /\ \/ GoOn("mkswap") /\ known' = known \cup {6}
                  \/ FailAndGoOn("reread", "mkswap") /\ UNCHANGED known
            \/ FailAndGoOn("fdisk_swap", "mkswap") /\ UNCHANGED <<swapPart, known>>
    /\ UNCHANGED <<rootSize, active, usbPart, content, rootRw, swapOn, mnt, cutting>>

\* mutant: the failure of mkswap is not noticed
MakeSwap_nodie ==
    /\ pc = "mkswap"
    /\ IF swapOn THEN GoOn("usb") /\ UNCHANGED swapFmt
       ELSE IF 6 \notin known THEN GoOn("swapon") /\ UNCHANGED swapFmt
       ELSE \/ GoOn("swapon") /\ swapFmt' = TRUE
            \/ FailAndGoOn("mkswap", "swapon") /\ UNCHANGED swapFmt
    /\ UNCHANGED <<table, rootFs, usbFmt, files, user, ok, volatile, cutting>>

MakeSwap ==
    /\ pc = "mkswap"
    /\ IF swapOn THEN GoOn("usb") /\ UNCHANGED swapFmt
       ELSE IF 6 \notin known THEN Die(11) /\ UNCHANGED swapFmt
       ELSE \/ GoOn("swapon") /\ swapFmt' = TRUE
            \/ FailAndDie("mkswap", 11) /\ UNCHANGED swapFmt
    /\ UNCHANGED <<table, rootFs, usbFmt, files, user, ok, volatile, cutting>>

EnableSwap ==
    /\ pc = "swapon"
    /\ \/ GoOn("usb") /\ swapOn' = swapFmt
       \/ FailAndDie("swapon", 12) /\ UNCHANGED swapOn
    /\ UNCHANGED <<table, content, rootRw, known, mnt, cutting>>

-----------------------------------------------------------------------------
(* 4/6 and 5/6: create_usb_partition, format_usb_partition                 *)

\* mutant: a mounted p7 is not taken for an existing one
CreateUsbPartition_always ==
    /\ pc = "usb"
    /\ IF LastPart # 6 THEN Die(13) /\ UNCHANGED <<usbPart, known>>
       ELSE GoOn("usbprobe") /\ usbPart' = TRUE /\ known' = known \cup {7}
    /\ UNCHANGED <<rootSize, active, swapPart, content, rootRw, swapOn, mnt, cutting>>

\* The script looks for "W95 FAT32", the name of a type of an MBR; the card has a
\* GPT, whose types fdisk never shows so.  A p7 that exists is found only if it
\* is mounted.
CreateUsbPartition ==
    /\ pc = "usb"
    /\ IF mnt THEN GoOn("usbprobe") /\ UNCHANGED <<usbPart, known>>
       ELSE IF LastPart # 6 THEN Die(13) /\ UNCHANGED <<usbPart, known>>
       ELSE \/ /\ usbPart' = TRUE
               /\ \/ GoOn("usbprobe") /\ known' = known \cup {7}
                  \/ FailAndGoOn("reread", "usbprobe") /\ UNCHANGED known
            \/ FailAndGoOn("fdisk_usb", "usbprobe") /\ UNCHANGED <<usbPart, known>>
    /\ UNCHANGED <<rootSize, active, swapPart, content, rootRw, swapOn, mnt, cutting>>

ReloadUsbTable ==
    /\ pc = "usbprobe"
    /\ \/ GoOn("format") /\ known' = InTable
       \/ FailAndDie("partprobe", 14) /\ UNCHANGED known
    /\ UNCHANGED <<table, content, rootRw, swapOn, mnt, cutting>>

\* mutant: a mounted partition is formatted as well
FormatUsbPartition_always ==
    /\ pc = "format"
    /\ GoOn("formatting") /\ usbFmt' = "torn" /\ files' = "none" /\ user' = FALSE
    /\ UNCHANGED <<table, rootFs, swapFmt, ok, volatile, cutting>>

\* mkfs.vfat starts: what was on p7 is lost.
FormatUsbPartition ==
    /\ pc = "format"
    /\ IF mnt THEN GoOn("mount") /\ UNCHANGED <<usbFmt, files, user>>
       ELSE IF 7 \notin known THEN Die(15) /\ UNCHANGED <<usbFmt, files, user>>
       ELSE GoOn("formatting") /\ usbFmt' = "torn" /\ files' = "none" /\ user' = FALSE
    /\ UNCHANGED <<table, rootFs, swapFmt, ok, volatile, cutting>>

FormatUsbPartition_end ==
    /\ pc = "formatting"
    /\ \/ GoOn("mount") /\ usbFmt' = "good"
       \/ FailAndDie("mkfs", 15) /\ UNCHANGED usbFmt
    /\ UNCHANGED <<table, rootFs, swapFmt, files, user, ok, volatile, cutting>>

-----------------------------------------------------------------------------
(* 6/6: copy_files_to_usb_partition, and the end of the script             *)

MountUsb ==
    /\ pc = "mount"
    /\ \/ GoOn("copy") /\ mnt' = TRUE
       \/ ~mnt /\ FailAndDie("mount", 16) /\ UNCHANGED mnt
    /\ UNCHANGED <<table, content, rootRw, known, swapOn, cutting>>

\* unzip and cp overwrite the files of the distribution and no others.
CopyFiles ==
    /\ pc = "copy" /\ GoOn("copying")
    /\ files' = "some"
    /\ UNCHANGED <<table, rootFs, swapFmt, usbFmt, user, ok, volatile, cutting>>

CopyFiles_end ==
    /\ pc = "copying"
    /\ \/ GoOn("umount") /\ files' = "all"
       \/ FailAndGoOn("copy", "umount") /\ UNCHANGED files
    /\ UNCHANGED <<table, rootFs, swapFmt, usbFmt, user, ok, volatile, cutting>>

UnmountUsb ==
    /\ pc = "umount"
    /\ \/ GoOn("setenv") /\ mnt' = FALSE
       \/ FailAndDie("umount", 17) /\ UNCHANGED mnt
    /\ UNCHANGED <<table, content, rootRw, known, swapOn, cutting>>

SetFirstBootOk ==
    /\ pc = "setenv" /\ pc' = "end" /\ rc' = 0
    /\ \/ ok' = TRUE /\ UNCHANGED counts
       \/ Fails("fw_setenv") /\ UNCHANGED ok
    /\ UNCHANGED <<table, rootFs, swapFmt, usbFmt, files, user, volatile, cutting>>

-----------------------------------------------------------------------------
(* Around the script.                                                      *)

\* The rest of the start mounts /mnt (share init) and the user plays.
UseConsole ==
    /\ pc = "end" /\ usbPart /\ usbFmt # "none" /\ 7 \in known
    /\ mnt' = TRUE /\ user' = TRUE
    /\ UNCHANGED <<pc, rc, table, rootFs, swapFmt, usbFmt, files, ok, rootRw, known,
                   swapOn, counts, cutting>>

PowerOff ==
    /\ pc = "end" /\ pc' = "off"
    /\ rootRw' = FALSE /\ known' = {} /\ swapOn' = FALSE /\ mnt' = FALSE
    /\ UNCHANGED <<rc, table, content, counts, cutting>>

\* Files that are not flushed by an unmount may be lost.
PowerCut ==
    /\ pc # "off" /\ cuts < MaxCuts
    /\ pc' = "off" /\ cuts' = cuts + 1 /\ cutAt' = cutAt \cup {pc}
    /\ rootRw' = FALSE /\ known' = {} /\ swapOn' = FALSE /\ mnt' = FALSE
    /\ files' \in IF mnt /\ files = "all" /\ ~ok THEN {"some", "all"} ELSE {files}
    /\ UNCHANGED <<rc, table, rootFs, swapFmt, usbFmt, user, ok, counts>>

-----------------------------------------------------------------------------

ScriptStep ==
    \/ ResizeRootfsPartition \/ MarkBootable \/ ReloadTable \/ ResizeRootfsFilesystem
    \/ CreateSwapPartition \/ MakeSwap \/ EnableSwap
    \/ CreateUsbPartition \/ ReloadUsbTable
    \/ FormatUsbPartition \/ FormatUsbPartition_end
    \/ MountUsb \/ CopyFiles \/ CopyFiles_end \/ UnmountUsb \/ SetFirstBootOk

Next == Boot \/ ScriptStep \/ UseConsole \/ PowerOff \/ PowerCut

\* A console that is on runs its script; nobody has to switch it on or off.
Spec == Init /\ [][Next]_vars /\ WF_vars(ScriptStep)

-----------------------------------------------------------------------------
(* Properties                                                              *)

\* However often first_boot died or lost power before, it never meets a partition
\* layout that it does not know how to continue (die 4, 10 and 13), but for two
\* cases.  It cannot enlarge a root partition that is no longer the last one,
\* after an fdisk that failed unnoticed (first_boot:55).  And it does not see a p7
\* that is not mounted (first_boot:142), which is one that an earlier start has
\* created and not completely formatted, or one that mount -a failed to mount.
NeverStuck ==
    /\ rc = 4 => "fdisk_root" \in failed
    /\ rc # 10
    /\ rc = 13 => usbPart /\ (usbFmt # "good" \/ "mount_all" \in failed)

\* "FIRST BOOT SETUP FINISHED!" (first_boot:238): when first_boot_ok is set,
\* every stage has been done, whichever of them the last run skipped because an
\* earlier, interrupted run seemed to have done it.  The swap and the shared
\* partition are always there; what may be missing is what a failure nobody looked
\* at left undone (the size of the root partition, the files), and what a start
\* that was interrupted between two commands never comes back to: the bootable
\* mark (first_boot:67), and the end of mkfs (first_boot:191).
Provisioned ==
    pc = "setenv" \/ ok =>
        /\ swapPart /\ swapFmt /\ usbPart /\ usbFmt # "none"
        /\ (rootSize = "1G" /\ rootFs = "big") \/ "fdisk_root" \in failed
        /\ active \/ "sfdisk" \in failed \/ "active" \in cutAt
        /\ usbFmt = "good" \/ "mkfs" \in failed \/ "formatting" \in cutAt
        /\ files = "all" \/ "copy" \in failed

\* A start of first_boot never erases files that the user has put on p7 after an
\* earlier, unfinished one: it formats a partition only in the start that has
\* created it.
UserFilesKept == [][user => user']_vars

\* What a start of first_boot cannot continue from.
CannotGoOn ==
    \/ rootSize = "small" /\ swapPart
    \/ usbPart /\ usbFmt # "good"

\* "These partitions will be created during first boot" (genimage.cfg:87): a
\* console that is switched on again and again finishes its setup once no power
\* cut and no failing command gets in the way, unless it was stopped between the
\* creation of p7 and the end of its formatting, or the unnoticed failure of
\* fdisk has left the root partition small for good.
SetupFinishes == []<>(pc = "off") /\ []<>(pc # "off") => <>ok \/ <>[]CannotGoOn

-----------------------------------------------------------------------------
(* The inductive invariant behind NeverStuck and Provisioned: what exists  *)
(* on the card tells which stages have been completed, and so does the     *)
(* step the script is at.                                                  *)

AfterResize == Steps \ {"off", "end", "resize"}
AfterResizefs == AfterResize \ {"active", "probe", "resizefs"}
AfterSwap == AfterResizefs \ {"swap"}
AfterMkswap == AfterSwap \ {"mkswap"}
BeforeUsb == {"resize", "active", "probe", "resizefs", "swap", "mkswap", "swapon", "usb"}
Formatting == {"usbprobe", "format", "formatting"}
AfterFormat == {"mount", "copy", "copying", "umount", "setenv"}

\* The root partition has its size, or fdisk has failed unnoticed.
Enlarged == rootSize = "1G" \/ "fdisk_root" \in failed
EnlargedFs == (rootSize = "1G" /\ rootFs = "big") \/ "fdisk_root" \in failed

\* A later stage leaves something on the card only if the earlier are complete.
StagesInOrder ==
    /\ rootFs = "big" => rootSize = "1G"
    /\ swapPart => EnlargedFs
    /\ swapFmt => swapPart
    /\ usbPart => swapFmt
    /\ usbFmt # "none" => usbPart

\* The step the script is at tells which stages are complete.
StepsInOrder ==
    /\ pc \in AfterResize => Enlarged
    /\ pc \notin {"off", "end"} => ~ok
    /\ pc \in AfterResizefs => EnlargedFs
    /\ pc \in AfterMkswap => swapFmt
    /\ pc \in AfterFormat => usbFmt # "none"
    /\ pc \in {"umount", "setenv"} => files = "all" \/ "copy" \in failed

\* What the kernel has in use is on the card.
VolatileBacked ==
    /\ mnt => usbFmt # "none"
    /\ swapOn => swapFmt
    /\ 6 \in known => swapPart
    /\ 7 \in known => usbPart

OkMeansDone == ok => usbFmt # "none" /\ (files = "all" \/ "copy" \in failed)

\* What is missing was interrupted.
GapsKnown ==
    /\ ~active => pc = "active" \/ "sfdisk" \in failed \/ "active" \in cutAt
    /\ usbFmt = "torn" => pc = "formatting" \/ "mkfs" \in failed \/ "formatting" \in cutAt

\* Up to the creation of p7 a complete file system on it is mounted.
GoodMounted ==
    pc \in BeforeUsb /\ usbFmt = "good" => mnt \/ "mount_all" \in failed

\* A p7 that is formatted is new.
FormatsNew ==
    /\ pc \in Formatting /\ ~mnt => ~user /\ rc # 13
    /\ user => usbFmt # "none"
    /\ pc \in {"usbprobe", "format"} /\ ~mnt => usbFmt = "none"
    /\ pc = "formatting" => usbFmt = "torn" /\ ~mnt

IInv ==
    /\ TypeOK /\ NeverStuck /\ StagesInOrder /\ StepsInOrder /\ VolatileBacked
    /\ OkMeansDone /\ GapsKnown /\ GoodMounted /\ FormatsNew

=============================================================================
