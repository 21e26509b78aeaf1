---------------------------- MODULE ShareProofs ----------------------------
(***************************************************************************)
(* Proofs about Share.  Type correctness holds for any number of callers;  *)
(* exclusion needs the scripts to be run one at a time (Serial) or at      *)
(* least two sections of them not to overlap (Apart), and the run          *)
(* share_race shows that it fails otherwise.                               *)
(***************************************************************************)
EXTENDS Share, TLAPS

\* At most one process runs the scripts.
Serial == \A c, d \in Callers : c = d

\* Moving to a step or leaving the script keeps the control variables in their types.
LEMMA ControlTypes ==
    ASSUME TypeOK, NEW c \in Callers, NEW from, NEW to \in Steps, NEW code \in ExitCodes,
           Goto(c, from, to) \/ Exit(c, from, code)
    PROVE  /\ pc' \in [Callers -> Steps] /\ cmd' \in [Callers -> Commands]
           /\ flags' \in [Callers -> SUBSET {"adb", "rndis"}]
           /\ rc' \in [Callers -> ExitCodes] /\ booted' \in BOOLEAN
<1>1. CASE Goto(c, from, to)
  BY <1>1 DEF TypeOK, Goto
<1>2. CASE Exit(c, from, code)
  <2>1. booted' \in BOOLEAN
    BY <1>2, Zenon DEF Exit
  <2>2. QED
    BY <1>2, <2>1 DEF TypeOK, Exit, Steps
<1>3. QED
  BY <1>1, <1>2

\* Changing the gadget keeps the variables that depend on it in their types, and never
\* exports the partition.
LEMMA GadgetTypes ==
    ASSUME TypeOK, NEW fs \in SUBSET Functions, NEW ls \in SUBSET Functions, NEW b \in BOOLEAN,
           GadgetBecomes(fs, ls, b)
    PROVE  /\ gadget' \subseteq Functions /\ linked' \subseteq Functions /\ bound' \in BOOLEAN
           /\ backing' \in BOOLEAN /\ held' \in BOOLEAN /\ (backing' => backing)
<1>1. backing' \in BOOLEAN /\ held' \in BOOLEAN /\ (backing' => backing)
  BY Zenon DEF GadgetBecomes
<1>2. QED
  BY <1>1 DEF GadgetBecomes

\* What a step that builds or removes the gadget leaves in it, whichever of its commands
\* fail.
LEMMA GadgetParts ==
    ASSUME TypeOK, NEW c \in Callers, GadgetStep(c)
    PROVE  /\ gadgetDir' \in BOOLEAN /\ gadget' \subseteq Functions /\ linked' \subseteq Functions
           /\ bound' \in BOOLEAN /\ backing' \in BOOLEAN /\ held' \in BOOLEAN
           /\ backing' => backing
<1> DEFINE Parts == /\ gadget' \subseteq Functions /\ linked' \subseteq Functions
                    /\ bound' \in BOOLEAN /\ backing' \in BOOLEAN /\ held' \in BOOLEAN
                    /\ backing' => backing
<1>1. \A fs, ls \in SUBSET Functions : \A b \in BOOLEAN : GadgetBecomes(fs, ls, b) => Parts
  BY GadgetTypes
<1>2. Making(c) \subseteq Functions
  BY DEF Making, Functions, TypeOK
<1>3. gadgetDir' \in BOOLEAN
  <2>1. \/ gadgetDir' = gadgetDir \/ gadgetDir' = TRUE
        \/ gadgetDir' = (gadgetDir /\ gadget # {})
    BY DEF GadgetStep, Gadget_check, Gadget_dir, Gadget_func, Gadget_net, Gadget_unbind,
       Gadget_link, Gadget_bind, Deinit_unbind, Deinit_unlink, Deinit_remove, Deinit_rmdir
  <2>2. (gadgetDir /\ gadget # {}) \in BOOLEAN
    BY Zenon
  <2>3. QED
    BY <2>1, <2>2 DEF TypeOK
<1> DEFINE Same == UNCHANGED <<gadget, linked, bound, backing, held>>
<1>4. Same => Parts
  BY DEF TypeOK
<1>5. \/ Same
      \/ \E fs, ls \in SUBSET Functions : \E b \in BOOLEAN : GadgetBecomes(fs, ls, b)
  <2>t. gadget \subseteq Functions /\ linked \subseteq Functions /\ bound \in BOOLEAN
    BY DEF TypeOK
  <2>b. \A b \in BOOLEAN : (bound \/ b) \in BOOLEAN
    BY Zenon
  <2>1. CASE Gadget_check(c) \/ Gadget_dir(c) \/ Deinit_rmdir(c)
    BY <2>1 DEF Gadget_check, Gadget_dir, Deinit_rmdir
  <2>2. CASE Gadget_func(c)
    <3>1. PICK made \in SUBSET Making(c) : GadgetBecomes(gadget \cup made, linked, bound)
      BY <2>2 DEF Gadget_func
    <3>2. QED
      BY <3>1, <2>t, <1>2
  <2>3. CASE Gadget_net(c)
    <3>1. PICK new \in SUBSET ({"rndis"} \cap gadget), b \in BOOLEAN :
              GadgetBecomes(gadget, linked \cup new, bound \/ b)
      BY <2>3 DEF Gadget_net
    <3>2. QED
      BY <3>1, <2>t, <2>b
  <2>4. CASE Gadget_unbind(c) \/ Deinit_unbind(c)
    <3>1. \E b \in {FALSE, bound} : GadgetBecomes(gadget, linked, b)
      BY <2>4 DEF Gadget_unbind, Deinit_unbind
    <3>2. QED
      BY <3>1, <2>t
  <2>5. CASE Gadget_link(c)
    <3>1. PICK new \in SUBSET ((Making(c) \ {"rndis"}) \cap gadget) :
              GadgetBecomes(gadget, linked \cup new, bound)
      BY <2>5 DEF Gadget_link
    <3>2. QED
      BY <3>1, <2>t
  <2>6. CASE Gadget_bind(c)
    <3>1. PICK b \in BOOLEAN : GadgetBecomes(gadget, linked, bound \/ b)
      BY <2>6 DEF Gadget_bind
    <3>2. QED
      BY <3>1, <2>t, <2>b
  <2>7. CASE Deinit_unlink(c)
    <3>1. PICK gone : GadgetBecomes(gadget, linked \ gone, bound /\ gone = {})
      BY <2>7 DEF Deinit_unlink
    <3>2. (bound /\ gone = {}) \in BOOLEAN
      BY Zenon
    <3>3. QED
      BY <3>1, <3>2, <2>t
  <2>8. CASE Deinit_remove(c)
    <3>1. PICK gone : GadgetBecomes(gadget \ gone, linked, bound)
      BY <2>8 DEF Deinit_remove
    <3>2. QED
      BY <3>1, <2>t
  <2>9. QED
    BY <2>1, <2>2, <2>3, <2>4, <2>5, <2>6, <2>7, <2>8 DEF GadgetStep
<1>6. QED
  BY <1>1, <1>3, <1>4, <1>5

\* Where a script goes that builds or removes the gadget: share init goes on to mount the
\* partition, the adb script ends.
LEMMA GadgetMoves ==
    ASSUME NEW c \in Callers, GadgetStep(c)
    PROVE  /\ UNCHANGED <<mounted, cable, locked, diskVars, toRecovery, ejected>>
           /\ \/ \E from \in BuildSteps : Exit(c, from, 0) /\ cmd[c] # "init"
              \/ \E from \in BuildSteps : Goto(c, from, "m_check") /\ cmd[c] = "init"
              \/ \E from, to \in BuildSteps : Goto(c, from, to)
              \/ \E from \in RemoveSteps : \E to \in RemoveSteps \cup {"g_check"} : Goto(c, from, to)
<1>1. UNCHANGED <<mounted, cable, locked, diskVars, toRecovery, ejected>>
  BY DEF GadgetStep, Gadget_check, Gadget_dir, Gadget_func, Gadget_net, Gadget_unbind,
     Gadget_link, Gadget_bind, Deinit_unbind, Deinit_unlink, Deinit_remove, Deinit_rmdir,
     GadgetOnly
<1> DEFINE Ends(from) == \/ Exit(c, from, 0) /\ cmd[c] # "init"
                         \/ Goto(c, from, "m_check") /\ cmd[c] = "init"
<1>2. CASE \E from \in BuildSteps : Ends(from)
  BY <1>1, <1>2
<1>3. CASE \E from, to \in BuildSteps : Goto(c, from, to)
  BY <1>1, <1>3
<1>4. CASE \E from \in RemoveSteps : \E to \in RemoveSteps \cup {"g_check"} : Goto(c, from, to)
  BY <1>1, <1>4
<1>5. CASE Gadget_check(c) \/ Gadget_bind(c)
  <2>1. \/ GadgetReady(c, "g_check") \/ GadgetReady(c, "g_bind") \/ Goto(c, "g_check", "g_dir")
    BY <1>5 DEF Gadget_check, Gadget_bind
  <2>2. {"g_check", "g_bind", "g_dir"} \subseteq BuildSteps
    BY DEF BuildSteps
  <2>3. QED
    BY <1>2, <1>3, <2>1, <2>2 DEF GadgetReady
<1>6. CASE Gadget_dir(c) \/ Gadget_net(c) \/ Gadget_unbind(c) \/ Gadget_link(c)
  BY <1>3, <1>6 DEF Gadget_dir, Gadget_net, Gadget_unbind, Gadget_link, BuildSteps
<1>7. CASE Gadget_func(c)
  <2>1. Goto(c, "g_func", "g_net") \/ Goto(c, "g_func", "g_link")
    BY <1>7 DEF Gadget_func
  <2>2. QED
    BY <1>3, <2>1 DEF BuildSteps
<1>8. CASE Deinit_unbind(c) \/ Deinit_unlink(c) \/ Deinit_remove(c) \/ Deinit_rmdir(c)
  BY <1>4, <1>8 DEF Deinit_unbind, Deinit_unlink, Deinit_remove, Deinit_rmdir, RemoveSteps
<1>9. QED
  BY <1>5, <1>6, <1>7, <1>8 DEF GadgetStep

\* A step of a script goes on to another step or leaves the script.
LEMMA StepControl ==
    ASSUME NEW c \in Callers, ScriptStep(c)
    PROVE  \/ \E from \in Steps \ {"idle"} : \E to : Goto(c, from, to)
           \/ \E from \in Steps \ {"idle"} : \E code : Exit(c, from, code)
<1>1. /\ {"i_lock", "m_check", "m_mount", "m_fwu", "s_shared", "s_usb", "s_umount",
          "s_write", "t_clear"} \subseteq Steps \ {"idle"}
      /\ BuildSteps \subseteq Steps \ {"idle"} /\ RemoveSteps \subseteq Steps \ {"idle"}
  BY DEF Steps, BuildSteps, RemoveSteps
<1>2. CASE GadgetStep(c)
  BY <1>1, <1>2, GadgetMoves
<1>3. CASE ~GadgetStep(c)
  BY <1>1, <1>3, Zenon DEF ScriptStep, Init_lock, Mount_check, Mount_mount, Mount_fwu,
     Start_shared, Start_usb, Start_umount, Start_write, Stop_clear
<1>4. QED
  BY <1>2, <1>3

\* A command that is begun is at its first step.
LEMMA Begun ==
    ASSUME TypeOK, NEW c \in Callers, NEW x \in Commands, Begin(c, x)
    PROVE  /\ pc[c] = "idle" /\ pc' = [pc EXCEPT ![c] = Entry[x]] /\ pc'[c] = Entry[x]
           /\ cmd' = [cmd EXCEPT ![c] = x] /\ cmd'[c] = x
           /\ Entry[x] \in {"i_lock", "s_shared", "t_clear", "u_unbind"}
           /\ flags' \in [Callers -> SUBSET {"adb", "rndis"}]
           /\ booted \/ (x = "init" /\ \A d \in Callers : pc[d] = "idle")
           /\ UNCHANGED <<mounted, backing, usbVars, locked, booted, diskVars, toRecovery, ejected, rc>>
<1>1. Entry[x] \in {"i_lock", "s_shared", "t_clear", "u_unbind"}
  BY DEF Entry, Commands
<1>2. RequestedFunctions \subseteq {"adb", "rndis"}
  BY DEF RequestedFunctions
<1>3. flags' = [flags EXCEPT ![c] = RequestedFunctions]
  BY DEF Begin
<1>4. flags' \in [Callers -> SUBSET {"adb", "rndis"}]
  BY <1>2, <1>3 DEF TypeOK
<1>5. QED
  BY <1>1, <1>4 DEF Begin, TypeOK

\* Every step keeps the values of the variables in their types.
LEMMA TypeStep == TypeOK /\ [Next]_vars => TypeOK'
<1> SUFFICES ASSUME TypeOK, [Next]_vars PROVE TypeOK'
  OBVIOUS
<1> USE FwuAssumption DEF usbVars, diskVars
<1>1. ASSUME NEW c \in Callers, NEW x \in Commands, Begin(c, x) PROVE TypeOK'
  <2>1. Entry[x] \in Steps
    BY <1>1, Begun DEF Steps, RemoveSteps
  <2>2. QED
    BY <1>1, <2>1, Begun DEF TypeOK
<1>2. ASSUME NEW c \in Callers, ScriptStep(c) PROVE TypeOK'
  <2> DEFINE Control == /\ pc' \in [Callers -> Steps] /\ cmd' \in [Callers -> Commands]
                        /\ flags' \in [Callers -> SUBSET {"adb", "rndis"}]
                        /\ rc' \in [Callers -> ExitCodes] /\ booted' \in BOOLEAN
  <2>a. /\ {0, 1, 4, 11, 12, 13, 14} \subseteq ExitCodes
        /\ {"idle", "g_check", "m_check", "m_mount", "m_fwu", "s_usb", "s_umount",
            "s_write"} \subseteq Steps
        /\ BuildSteps \subseteq Steps /\ RemoveSteps \subseteq Steps
    BY DEF ExitCodes, Steps, BuildSteps
  <2>b. \A from : \A to \in Steps : \A code \in ExitCodes :
            Goto(c, from, to) \/ Exit(c, from, code) => Control
    BY ControlTypes, Zenon
  <2>1. CASE Init_lock(c)
    <3>1. Control
      BY <2>1, <2>a, <2>b DEF Init_lock
    <3>2. QED
      BY <2>1, <3>1 DEF TypeOK, Init_lock
  <2>2. CASE Mount_check(c)
    <3>1. Control
      BY <2>2, <2>a, <2>b DEF Mount_check
    <3>2. QED
      BY <2>2, <3>1 DEF TypeOK, Mount_check
  <2>3. CASE Mount_mount(c)
    <3>1. Control
      BY <2>3, <2>a, <2>b DEF Mount_mount
    <3>2. QED
      BY <2>3, <3>1, ZenonT(60) DEF TypeOK, Mount_mount
  <2>4. CASE Mount_fwu(c)
    <3>1. Control
      BY <2>4, <2>a, <2>b DEF Mount_fwu
    <3>2. toRecovery' \in BOOLEAN
      BY <2>4, Zenon DEF Mount_fwu
    <3>3. QED
      BY <2>4, <3>1, <3>2 DEF TypeOK, Mount_fwu
  <2>5. CASE Start_shared(c)
    <3>1. Control
      BY <2>5, <2>a, <2>b DEF Start_shared
    <3>2. QED
      BY <2>5, <3>1 DEF TypeOK, Start_shared
  <2>6. CASE Start_usb(c)
    <3>1. Control
      BY <2>6, <2>a, <2>b DEF Start_usb
    <3>2. QED
      BY <2>6, <3>1 DEF TypeOK, Start_usb
  <2>7. CASE Start_umount(c)
    <3>1. Control
      BY <2>7, <2>a, <2>b DEF Start_umount
    <3>2. QED
      BY <2>7, <3>1, ZenonT(60) DEF TypeOK, Start_umount
  <2>8. CASE Start_write(c)
    <3>1. Control
      BY <2>8, <2>a, <2>b DEF Start_write
    <3>2. QED
      BY <2>8, <3>1, ZenonT(60) DEF TypeOK, Start_write
  <2>9. CASE Stop_clear(c)
    <3>1. Control
      BY <2>9, <2>a, <2>b DEF Stop_clear
    <3>2. QED
      BY <2>9, <3>1, ZenonT(60) DEF TypeOK, Stop_clear
  <2>10. CASE GadgetStep(c)
    <3>1. Control
      <4>1. \/ \E from, to \in Steps : Goto(c, from, to)
            \/ \E from \in Steps : Exit(c, from, 0)
        BY <2>10, <2>a, GadgetMoves
      <4>2. QED
        BY <4>1, <2>a, <2>b
    <3>2. QED
      BY <2>10, <3>1, GadgetParts, GadgetMoves DEF TypeOK
  <2>11. QED
    BY <1>2, <2>1, <2>2, <2>3, <2>4, <2>5, <2>6, <2>7, <2>8, <2>9, <2>10 DEF ScriptStep
<1>3. CASE Environment
  <2>1. CASE CableChange
    <3>1. cable' \in BOOLEAN
      BY <2>1, Zenon DEF CableChange
    <3>2. QED
      BY <2>1, <3>1 DEF TypeOK, CableChange
  <2>5. CASE HostMount \/ HostUnmount \/ HostEject
    <3>1. /\ UNCHANGED <<mounted, gadgetDir, gadget, linked, bound, cable, locked, booted,
                         diskVars, toRecovery, pc, cmd, flags, rc>>
          /\ backing' \in {backing, FALSE} /\ held' \in BOOLEAN /\ ejected' \in {ejected, TRUE}
      BY <2>5 DEF HostMount, HostUnmount, HostEject
    <3>2. QED
      BY <3>1, ZenonT(60) DEF TypeOK
  <2>2. CASE HostWrite
    <3>1. adbFile' \in BOOLEAN
      BY <2>2, Zenon DEF TypeOK, HostWrite
    <3>2. netFile' \in BOOLEAN
      BY <2>2, Zenon DEF TypeOK, HostWrite
    <3>3. fwu' \in 0..MaxFwu
      BY <2>2 DEF TypeOK, HostWrite
    <3>4. QED
      BY <2>2, <3>1, <3>2, <3>3 DEF TypeOK, HostWrite
  <2>3. CASE PowerCycle
    BY <2>3 DEF TypeOK, PowerCycle, Steps, Commands, ExitCodes, Functions
  <2>4. QED
    BY <1>3, <2>1, <2>2, <2>3, <2>5 DEF Environment
<1>4. CASE UNCHANGED vars
  BY <1>4 DEF TypeOK, vars
<1>5. QED
  BY <1>1, <1>2, <1>3, <1>4 DEF Next

\* The values of the variables stay in their types, for any set of callers.
THEOREM TypeCorrect == Spec => []TypeOK
<1>1. Init => TypeOK
  BY FwuAssumption DEF Init, TypeOK, Steps, Commands, Functions, ExitCodes
<1>2. QED
  BY <1>1, TypeStep, PTL DEF Spec

-----------------------------------------------------------------------------
(* Exclusion.  With one caller, a step of that caller is the only step     *)
(* that moves the partition, so each part of IInv follows from the guard   *)
(* and the parts that hold at the step before.                             *)

\* The exit status of a failure that is not "already shared" is neither 0 nor 12.
LEMMA FailureCodes ==
    /\ 1 # 0 /\ 4 # 0 /\ 11 # 0 /\ 13 # 0 /\ 14 # 0
    /\ 1 # 12 /\ 4 # 12 /\ 11 # 12 /\ 13 # 12 /\ 14 # 12
BY SMT

\* The inductive step: every action preserves the strengthened invariant.
LEMMA ExclusionStep == ASSUME Serial PROVE IInv /\ [Next]_vars => IInv'
<1> SUFFICES ASSUME IInv, [Next]_vars PROVE IInv'
  OBVIOUS
<1> DEFINE Rest == /\ BeforeInit /\ ClearToMount /\ StepOfCommand
                   /\ ClearToShare /\ Exclusive /\ ExitStatusTruthful
<1>t. TypeOK /\ TypeOK'
  BY TypeStep DEF IInv
<1> USE DEF IInv, Serial, BeforeInit, ClearToMount, StepOfCommand, ClearToShare,
            Exclusive, ExitStatusTruthful, usbVars, diskVars
<1>m. /\ \A x \in BuildSteps \cup RemoveSteps :
             x \notin {"idle", "i_lock", "m_check", "m_mount", "m_fwu", "s_shared", "s_usb",
                     "s_umount", "s_write", "t_clear"}
      /\ \A x \in RemoveSteps : x \notin BuildSteps
      /\ "g_check" \in BuildSteps /\ "u_unbind" \in RemoveSteps
  BY DEF BuildSteps, RemoveSteps
<1>1. ASSUME NEW c \in Callers, NEW x \in Commands, Begin(c, x) PROVE Rest'
  <2>1. \A d \in Callers : d = c
    BY <1>1
  <2>2. /\ pc[c] = "idle" /\ pc'[c] = Entry[x] /\ cmd'[c] = x
        /\ booted \/ x = "init"
        /\ UNCHANGED <<mounted, backing, locked, booted>>
    BY <1>1, <1>t, Begun
  <2>3. ~locked => ~booted /\ ~backing
    BY <1>1
  <2>4. \/ x = "init" /\ Entry[x] = "i_lock"
        \/ x = "start" /\ Entry[x] = "s_shared"
        \/ x = "stop" /\ Entry[x] = "t_clear"
        \/ x \in {"adb start", "adb stop"} /\ Entry[x] = "u_unbind"
    BY DEF Entry, Commands
  <2>5. ~(mounted /\ backing)
    BY <1>1
  <2>6. QED
    BY <1>m, <2>1, <2>2, <2>3, <2>4, <2>5
<1>2. ASSUME NEW c \in Callers, ScriptStep(c) PROVE Rest'
  <2>a. \A d \in Callers : d = c
    BY <1>2
  <2>b. /\ pc \in [Callers -> Steps] /\ rc \in [Callers -> ExitCodes]
        /\ cmd \in [Callers -> Commands]
        /\ mounted \in BOOLEAN /\ backing \in BOOLEAN
    BY <1>t DEF TypeOK
  <2>k. booted => booted'
    <3>1. \A from, code : Exit(c, from, code) => (booted => booted')
      BY Zenon DEF Exit
    <3>2. \A from, to : Goto(c, from, to) => (booted => booted')
      BY DEF Goto
    <3>3. (\E from, to : Goto(c, from, to)) \/ (\E from, code : Exit(c, from, code))
      BY <1>2, StepControl
    <3>4. QED
      BY <3>1, <3>2, <3>3, Zenon
  <2> USE <1>m, <2>a, <2>b, <2>k DEF Goto, Exit
  <2>1. CASE Init_lock(c)
    <3>1. CASE locked /\ Exit(c, "i_lock", 0)
      BY <2>1, <3>1 DEF Init_lock
    <3>2. CASE ~locked /\ Goto(c, "i_lock", "g_check")
      BY <2>1, <3>2 DEF Init_lock
    <3>3. QED
      BY <2>1, <3>1, <3>2 DEF Init_lock
  <2>2. CASE Mount_check(c)
    <3>1. CASE mounted /\ Goto(c, "m_check", "m_fwu")
      BY <2>2, <3>1 DEF Mount_check
    <3>2. CASE ~mounted /\ Goto(c, "m_check", "m_mount")
      BY <2>2, <3>2 DEF Mount_check
    <3>3. QED
      BY <2>2, <3>1, <3>2 DEF Mount_check
  <2>3. CASE Mount_mount(c)
    <3>1. CASE mounted' = TRUE /\ Goto(c, "m_mount", "m_fwu")
      BY <2>3, <3>1 DEF Mount_mount
    <3>2. CASE UNCHANGED mounted /\ Exit(c, "m_mount", 4)
      <4>1. /\ pc'[c] = "idle" /\ rc'[c] = 4 /\ cmd'[c] = cmd[c]
            /\ locked /\ locked' /\ UNCHANGED <<mounted, backing>>
        BY <2>3, <3>2 DEF Mount_mount
      <4>2. rc'[c] # 0 /\ rc'[c] # 12
        BY <4>1, FailureCodes, Zenon
      <4>3. QED
        BY <4>1, <4>2
    <3>3. QED
      BY <2>3, <3>1, <3>2 DEF Mount_mount
  <2>4. CASE Mount_fwu(c)
    BY <2>4 DEF Mount_fwu
  <2>5. CASE Start_shared(c)
    <3>1. CASE backing /\ Exit(c, "s_shared", 12)
      BY <2>5, <3>1 DEF Start_shared
    <3>2. CASE ~backing /\ Goto(c, "s_shared", "s_usb")
      BY <2>5, <3>2 DEF Start_shared
    <3>3. QED
      BY <2>5, <3>1, <3>2 DEF Start_shared
  <2>6. CASE Start_usb(c)
    <3>1. CASE Exit(c, "s_usb", 13)
      <4>1. /\ pc'[c] = "idle" /\ rc'[c] = 13 /\ cmd'[c] = "start"
            /\ cmd[c] = "start" /\ booted /\ booted' /\ locked /\ locked' /\ UNCHANGED <<mounted, backing>>
        BY <2>6, <3>1 DEF Start_usb
      <4>2. rc'[c] # 0 /\ rc'[c] # 12
        BY <4>1, FailureCodes, Zenon
      <4>3. QED
        BY <4>1, <4>2
    <3>2. CASE Goto(c, "s_usb", "s_umount")
      BY <2>6, <3>2 DEF Start_usb
    <3>3. QED
      BY <2>6, <3>1, <3>2 DEF Start_usb
  <2>7. CASE Start_umount(c)
    <3>1. CASE mounted' = FALSE /\ Goto(c, "s_umount", "s_write")
      BY <2>7, <3>1 DEF Start_umount
    <3>2. CASE UNCHANGED mounted /\ Exit(c, "s_umount", 1)
      <4>1. /\ pc'[c] = "idle" /\ rc'[c] = 1 /\ cmd'[c] = "start"
            /\ cmd[c] = "start" /\ booted /\ booted' /\ locked /\ locked' /\ UNCHANGED <<mounted, backing>>
        BY <2>7, <3>2 DEF Start_umount
      <4>2. rc'[c] # 0 /\ rc'[c] # 12
        BY <4>1, FailureCodes, Zenon
      <4>3. QED
        BY <4>1, <4>2
    <3>3. QED
      BY <2>7, <3>1, <3>2 DEF Start_umount
  <2>8. CASE Start_write(c)
    <3>1. CASE backing' = TRUE /\ Exit(c, "s_write", 0)
      BY <2>8, <3>1 DEF Start_write
    <3>2. CASE UNCHANGED backing /\ Exit(c, "s_write", 14)
      <4>1. /\ pc'[c] = "idle" /\ rc'[c] = 14 /\ cmd'[c] = "start"
            /\ cmd[c] = "start" /\ booted /\ booted' /\ locked /\ locked' /\ UNCHANGED <<mounted, backing>>
        BY <2>8, <3>2 DEF Start_write
      <4>2. rc'[c] # 0 /\ rc'[c] # 12
        BY <4>1, FailureCodes, Zenon
      <4>3. QED
        BY <4>1, <4>2
    <3>3. QED
      BY <2>8, <3>1, <3>2 DEF Start_write
  <2>9. CASE Stop_clear(c)
    <3>1. CASE backing' = FALSE /\ Goto(c, "t_clear", "m_check")
      BY <2>9, <3>1 DEF Stop_clear
    <3>2. CASE UNCHANGED backing /\ Exit(c, "t_clear", 11)
      <4>1. /\ pc'[c] = "idle" /\ rc'[c] = 11 /\ cmd'[c] = "stop"
            /\ cmd[c] = "stop" /\ booted /\ booted' /\ locked /\ locked' /\ UNCHANGED <<mounted, backing>>
        BY <2>9, <3>2 DEF Stop_clear
      <4>2. rc'[c] # 0 /\ rc'[c] # 12
        BY <4>1, FailureCodes, Zenon
      <4>3. QED
        BY <4>1, <4>2
    <3>3. QED
      BY <2>9, <3>1, <3>2 DEF Stop_clear
  <2>10. CASE GadgetStep(c)
    <3>1. /\ UNCHANGED <<mounted, locked, ejected>> /\ (backing' => backing)
      BY <2>10, <1>t, GadgetMoves, GadgetParts
    <3>2. CASE \E from \in BuildSteps : Exit(c, from, 0) /\ cmd[c] # "init"
      BY <3>1, <3>2, ZenonT(60)
    <3>3. CASE \E from \in BuildSteps : Goto(c, from, "m_check") /\ cmd[c] = "init"
      <4>1. pc[c] \in BuildSteps /\ pc'[c] = "m_check" /\ cmd[c] = "init" /\ cmd' = cmd
        BY <3>3
      <4>2. ~backing /\ locked /\ locked' /\ UNCHANGED booted
        BY <3>1, <3>3, <4>1
      <4>3. QED
        BY <3>1, <4>1, <4>2
    <3>4. CASE \E from, to \in BuildSteps : Goto(c, from, to)
      BY <3>1, <3>4, ZenonT(60)
    <3>5. CASE \E from \in RemoveSteps : \E to \in RemoveSteps \cup {"g_check"} : Goto(c, from, to)
      <4>1. /\ pc[c] \in RemoveSteps /\ pc'[c] \in RemoveSteps \cup {"g_check"}
            /\ cmd' = cmd /\ rc' = rc /\ booted' = booted
        BY <3>5
      <4>2. cmd[c] \in {"adb start", "adb stop"} /\ booted /\ locked
        BY <4>1
      <4>3. QED
        BY <3>1, <4>1, <4>2
    <3>6. QED
      BY <2>10, <3>2, <3>3, <3>4, <3>5, GadgetMoves
  <2>11. QED
    BY <1>2, <2>1, <2>2, <2>3, <2>4, <2>5, <2>6, <2>7, <2>8, <2>9, <2>10 DEF ScriptStep
<1>3. CASE Environment
  <2>1. CASE CableChange \/ HostMount \/ HostUnmount \/ HostWrite
    <3>1. UNCHANGED <<mounted, backing, locked, booted, pc, cmd, rc, ejected>>
      BY <2>1 DEF CableChange, HostMount, HostUnmount, HostWrite
    <3>2. QED
      BY <3>1, <1>t
  <2>4. CASE HostEject
    <3>1. /\ UNCHANGED <<mounted, locked, booted, pc, cmd, rc>> /\ ejected' /\ ~backing'
      BY <2>4 DEF HostEject
    <3>2. QED
      BY <3>1, <1>t
  <2>2. CASE PowerCycle
    BY <2>2, <1>t, <1>m DEF PowerCycle
  <2>3. QED
    BY <1>3, <2>1, <2>2, <2>4 DEF Environment
<1>4. CASE UNCHANGED vars
  BY <1>4, <1>t DEF vars
<1>5. QED
  BY <1>1, <1>2, <1>3, <1>4, <1>t DEF Next

\* Run one at a time, the scripts never let the console and the host use the
\* partition together, and their exit status tells who has it.
THEOREM ExclusiveUse ==
    ASSUME Serial PROVE Spec => [](Exclusive /\ ExitStatusTruthful)
<1>1. Init => IInv
  BY FwuAssumption DEF Init, IInv, TypeOK, BeforeInit, ClearToMount, StepOfCommand,
     ClearToShare, Exclusive, ExitStatusTruthful, Steps, BuildSteps, RemoveSteps, Commands,
     Functions, ExitCodes
<1>2. IInv => Exclusive /\ ExitStatusTruthful
  BY DEF IInv
<1>3. QED
  BY <1>1, <1>2, ExclusionStep, PTL DEF Spec

\* Run one at a time, a script that reports success, or that the medium is
\* already shared, has left the partition with the side it was asked for.
THEOREM TruthfulStatus == ASSUME Serial PROVE Spec => []ExitStatusTruthful
BY ExclusiveUse, PTL

-----------------------------------------------------------------------------
(* Exclusion with any number of callers at the same time.                  *)

\* Nobody is about to export, having unmounted, while somebody is about to mount,
\* having withdrawn the medium: a lock around these two sections gives that.
Apart ==
    \A c, d \in Callers : ~(pc[c] = "s_write" /\ pc[d] \in {"m_check", "m_mount"})

\* While the console starts, init is the only command that runs, and it builds the gadget
\* at no other time.
InitAlone ==
    /\ \A c \in Callers : pc[c] \in BuildSteps /\ cmd[c] = "init" => ~booted
    /\ ~booted => \A c, d \in Callers : pc[c] # "idle" /\ pc[d] # "idle" => c = d

StartInv == TypeOK /\ BeforeInit /\ InitAlone /\ StepOfCommand

WithdrawnFirst ==
    \A c \in Callers :
        (pc[c] \in BuildSteps /\ cmd[c] = "init") \/ pc[c] \in {"m_check", "m_mount"} => ~backing

ApartInv == StartInv /\ WithdrawnFirst /\ ClearToShare /\ Exclusive

\* The step a caller is at belongs to its command, whoever else runs.
LEMMA CommandStep == TypeOK /\ StepOfCommand /\ [Next]_vars => StepOfCommand'
<1> SUFFICES ASSUME TypeOK, StepOfCommand, [Next]_vars PROVE StepOfCommand'
  OBVIOUS
<1>t. pc \in [Callers -> Steps] /\ cmd \in [Callers -> Commands] /\ booted \in BOOLEAN
  BY DEF TypeOK
<1>1. ASSUME NEW c \in Callers, NEW x \in Commands, Begin(c, x) PROVE StepOfCommand'
  <2>1. /\ pc' = [pc EXCEPT ![c] = Entry[x]] /\ cmd' = [cmd EXCEPT ![c] = x]
        /\ booted \/ x = "init"
        /\ UNCHANGED booted
    BY <1>1, Begun
  <2>2. \/ x = "init" /\ Entry[x] = "i_lock"
        \/ x = "start" /\ Entry[x] = "s_shared"
        \/ x = "stop" /\ Entry[x] = "t_clear"
        \/ x \in {"adb start", "adb stop"} /\ Entry[x] = "u_unbind"
    BY DEF Entry, Commands
  <2>3. QED
    BY <1>t, <2>1, <2>2 DEF StepOfCommand, BuildSteps, RemoveSteps
<1>2. ASSUME NEW c \in Callers, ScriptStep(c) PROVE StepOfCommand'
  <2> DEFINE Follows(from, to) == Goto(c, from, to) /\ <<from, to>> \in
                 {<<"i_lock", "g_check">>, <<"m_check", "m_fwu">>,
                  <<"m_check", "m_mount">>, <<"m_mount", "m_fwu">>, <<"s_shared", "s_usb">>,
                  <<"s_usb", "s_umount">>, <<"s_umount", "s_write">>, <<"t_clear", "m_check">>}
  <2>1. CASE ~GadgetStep(c) /\ \E from, to : Follows(from, to)
    <3>1. PICK from, to : Follows(from, to)
      BY <2>1
    <3>2. /\ pc[c] = from /\ pc' = [pc EXCEPT ![c] = to]
          /\ cmd' = cmd /\ booted' = booted
      BY <3>1 DEF Goto
    <3>3. QED
      BY <1>t, <3>1, <3>2 DEF StepOfCommand, BuildSteps, RemoveSteps
  <2>2. ASSUME NEW from, NEW code, Exit(c, from, code) PROVE StepOfCommand'
    <3>1. booted => booted'
      BY <2>2, Zenon DEF Exit
    <3>2. pc' = [pc EXCEPT ![c] = "idle"] /\ cmd' = cmd
      BY <2>2 DEF Exit
    <3>3. QED
      BY <1>t, <3>1, <3>2 DEF StepOfCommand, BuildSteps, RemoveSteps
  <2>3. CASE GadgetStep(c)
    <3>1. ASSUME NEW from, NEW to, Goto(c, from, to),
                 \/ from \in BuildSteps /\ to = "m_check" /\ cmd[c] = "init"
                 \/ from \in BuildSteps /\ to \in BuildSteps
                 \/ from \in RemoveSteps /\ to \in RemoveSteps \cup {"g_check"}
          PROVE  StepOfCommand'
      <4>1. /\ pc[c] = from /\ pc' = [pc EXCEPT ![c] = to]
            /\ cmd' = cmd /\ booted' = booted
        BY <3>1 DEF Goto
      <4>2. QED
        BY <1>t, <3>1, <4>1 DEF StepOfCommand, BuildSteps, RemoveSteps
    <3>2. QED
      BY <2>2, <2>3, <3>1, GadgetMoves
  <2>4. QED
    BY <1>2, <2>1, <2>2, <2>3, Zenon DEF ScriptStep, Init_lock, Mount_check, Mount_mount,
       Mount_fwu, Start_shared, Start_usb, Start_umount, Start_write, Stop_clear
<1>3. CASE Environment
  <2>1. CASE CableChange \/ HostMount \/ HostUnmount \/ HostEject \/ HostWrite
    <3>1. UNCHANGED <<pc, cmd, booted>>
      BY <2>1 DEF CableChange, HostMount, HostUnmount, HostEject, HostWrite
    <3>2. QED
      BY <3>1 DEF StepOfCommand
  <2>2. CASE PowerCycle
    BY <2>2 DEF PowerCycle, StepOfCommand, BuildSteps, RemoveSteps
  <2>3. QED
    BY <1>3, <2>1, <2>2 DEF Environment
<1>4. CASE UNCHANGED vars
  BY <1>4 DEF vars, StepOfCommand
<1>5. QED
  BY <1>1, <1>2, <1>3, <1>4 DEF Next

\* A step of c moves c alone, and the console has started only when a command ends.
LEMMA StepMoves ==
    ASSUME TypeOK, NEW c \in Callers, ScriptStep(c)
    PROVE  /\ pc[c] # "idle" /\ cmd' = cmd
           /\ \A d \in Callers \ {c} : pc'[d] = pc[d]
           /\ booted => booted'
           /\ booted' # booted => pc'[c] = "idle"
<1> DEFINE Moved == /\ pc[c] # "idle" /\ cmd' = cmd
                    /\ \A d \in Callers \ {c} : pc'[d] = pc[d]
                    /\ booted => booted'
                    /\ booted' # booted => pc'[c] = "idle"
<1>1. \/ \E from \in Steps \ {"idle"} : \E to : Goto(c, from, to)
      \/ \E from \in Steps \ {"idle"} : \E code : Exit(c, from, code)
  BY StepControl
<1>2. ASSUME NEW from \in Steps \ {"idle"}, NEW to, Goto(c, from, to) PROVE Moved
  BY <1>2 DEF Goto, TypeOK
<1>3. ASSUME NEW from \in Steps \ {"idle"}, NEW code, Exit(c, from, code) PROVE Moved
  <2>1. booted => booted'
    BY <1>3, Zenon DEF Exit
  <2>2. QED
    BY <1>3, <2>1 DEF Exit, TypeOK
<1>4. QED
  BY <1>1, <1>2, <1>3

\* What a step of a script does to the partition, and the steps before those that
\* touch it.
LEMMA StepHands ==
    ASSUME TypeOK, NEW c \in Callers, ScriptStep(c)
    PROVE  /\ mounted' => mounted \/ pc[c] = "m_mount"
           /\ backing' => backing \/ pc[c] = "s_write"
           /\ pc'[c] = "s_write" => ~mounted'
           /\ pc'[c] \in BuildSteps => \/ pc[c] \in BuildSteps \cup RemoveSteps
                                       \/ pc[c] = "i_lock" /\ ~locked
           /\ pc'[c] = "m_check" => \/ ~backing'
                                    \/ pc[c] \in BuildSteps /\ cmd[c] = "init"
           /\ pc'[c] = "m_mount" => pc[c] = "m_check"
           /\ locked' <=> locked \/ pc[c] = "i_lock"
<1> DEFINE Hands == /\ mounted' => mounted \/ pc[c] = "m_mount"
                    /\ backing' => backing \/ pc[c] = "s_write"
                    /\ pc'[c] = "s_write" => ~mounted'
                    /\ pc'[c] \in BuildSteps => \/ pc[c] \in BuildSteps \cup RemoveSteps
                                                \/ pc[c] = "i_lock" /\ ~locked
                    /\ pc'[c] = "m_check" => \/ ~backing'
                                             \/ pc[c] \in BuildSteps /\ cmd[c] = "init"
                    /\ pc'[c] = "m_mount" => pc[c] = "m_check"
                    /\ locked' <=> locked \/ pc[c] = "i_lock"
<1>t. /\ pc \in [Callers -> Steps] /\ mounted \in BOOLEAN /\ backing \in BOOLEAN
      /\ locked \in BOOLEAN
  BY DEF TypeOK
<1>g. \A from, to : Goto(c, from, to) => pc[c] = from /\ pc'[c] = to
  BY <1>t DEF Goto
<1>e. \A from, code : Exit(c, from, code) => pc[c] = from /\ pc'[c] = "idle"
  BY <1>t DEF Exit
<1>m. \A x \in BuildSteps \cup RemoveSteps :
          x \notin {"idle", "i_lock", "m_check", "m_mount", "m_fwu", "s_shared", "s_usb",
                  "s_umount", "s_write", "t_clear"}
  BY DEF BuildSteps, RemoveSteps
<1> USE <1>m
<1>1. CASE Init_lock(c)
  BY <1>1, <1>t, <1>g, <1>e DEF Init_lock
<1>2. CASE GadgetStep(c)
  <2>1. UNCHANGED <<mounted, locked>> /\ (backing' => backing)
    BY <1>2, GadgetMoves, GadgetParts
  <2>2. /\ pc[c] \in BuildSteps \cup RemoveSteps
        /\ \/ pc'[c] = "idle" \/ pc'[c] \in BuildSteps \cup RemoveSteps
           \/ pc'[c] = "m_check" /\ pc[c] \in BuildSteps /\ cmd[c] = "init"
    <3>1. "g_check" \in BuildSteps
      BY DEF BuildSteps
    <3>2. QED
      BY <1>2, <1>g, <1>e, <3>1, GadgetMoves
  <2>3. QED
    BY <2>1, <2>2
<1>3. CASE Mount_check(c) \/ Mount_mount(c) \/ Mount_fwu(c)
  BY <1>3, <1>t, <1>g, <1>e DEF Mount_check, Mount_mount, Mount_fwu
<1>4. CASE Start_shared(c) \/ Start_usb(c) \/ Start_umount(c) \/ Start_write(c)
  BY <1>4, <1>t, <1>g, <1>e DEF Start_shared, Start_usb, Start_umount, Start_write
<1>5. CASE Stop_clear(c)
  BY <1>5, <1>t, <1>g, <1>e DEF Stop_clear
<1>6. QED
  BY <1>1, <1>2, <1>3, <1>4, <1>5 DEF ScriptStep

\* Whoever runs, the start of the console is alone, and nothing is exported before it.
LEMMA StartStep == StartInv /\ [Next]_vars => StartInv'
<1> SUFFICES ASSUME StartInv, [Next]_vars PROVE StartInv'
  OBVIOUS
<1>t. TypeOK /\ TypeOK' /\ StepOfCommand'
  BY TypeStep, CommandStep DEF StartInv
<1>n. "u_unbind" \notin BuildSteps /\ "idle" \notin BuildSteps /\ "i_lock" \notin BuildSteps
  BY DEF BuildSteps
<1>b. /\ locked \in BOOLEAN /\ backing \in BOOLEAN /\ booted \in BOOLEAN
      /\ locked' \in BOOLEAN /\ backing' \in BOOLEAN /\ booted' \in BOOLEAN
  BY <1>t DEF TypeOK
<1> DEFINE Rest == BeforeInit /\ InitAlone
<1>1. ASSUME NEW c \in Callers, NEW x \in Commands, Begin(c, x) PROVE Rest'
  <2>1. /\ \A d \in Callers \ {c} : pc'[d] = pc[d] /\ cmd'[d] = cmd[d]
        /\ pc'[c] \in {"i_lock", "s_shared", "t_clear", "u_unbind"}
        /\ ~booted => pc'[c] = "i_lock" /\ \A d \in Callers : pc[d] = "idle"
        /\ UNCHANGED <<mounted, backing, locked, booted>>
    <3>1. /\ pc' = [pc EXCEPT ![c] = Entry[x]] /\ pc'[c] = Entry[x]
          /\ cmd' = [cmd EXCEPT ![c] = x]
          /\ Entry[x] \in {"i_lock", "s_shared", "t_clear", "u_unbind"}
          /\ booted \/ (x = "init" /\ \A d \in Callers : pc[d] = "idle")
          /\ UNCHANGED <<mounted, backing, locked, booted>>
      BY <1>1, <1>t, Begun
    <3>2. Entry["init"] = "i_lock"
      BY DEF Entry, Commands
    <3>3. pc \in [Callers -> Steps] /\ cmd \in [Callers -> Commands]
      BY <1>t DEF TypeOK
    <3>4. QED
      BY <3>1, <3>2, <3>3
  <2>2. pc'[c] \notin BuildSteps
    BY <2>1 DEF BuildSteps
  <2>3. QED
    BY <2>1, <2>2 DEF StartInv, BeforeInit, InitAlone
<1>2. ASSUME NEW c \in Callers, ScriptStep(c) PROVE Rest'
  <2>1. /\ pc[c] # "idle" /\ cmd' = cmd
        /\ \A d \in Callers \ {c} : pc'[d] = pc[d]
        /\ booted => booted'
        /\ booted' # booted => pc'[c] = "idle"
    BY <1>2, <1>t, StepMoves
  <2>2. /\ backing' => backing \/ pc[c] = "s_write"
        /\ pc'[c] \in BuildSteps => \/ pc[c] \in BuildSteps \cup RemoveSteps
                                    \/ pc[c] = "i_lock" /\ ~locked
        /\ locked' <=> locked \/ pc[c] = "i_lock"
    BY <1>2, <1>t, StepHands
  <2>3. booted \in BOOLEAN /\ booted' \in BOOLEAN
    BY <1>t DEF TypeOK
  <2>4. BeforeInit'
    BY <2>1, <2>2 DEF StartInv, BeforeInit
  <2>5. pc'[c] \in BuildSteps /\ cmd[c] = "init" => ~booted
    BY <2>2 DEF StartInv, BeforeInit, InitAlone, StepOfCommand
  <2>6. InitAlone'
    <3>1. ASSUME NEW d \in Callers, pc'[d] \in BuildSteps, cmd'[d] = "init" PROVE ~booted'
      <4>1. CASE d = c
        BY <4>1, <3>1, <2>1, <2>3, <2>5, <1>n
      <4>2. CASE d # c
        BY <4>2, <3>1, <2>1, <2>3, <1>n DEF StartInv, InitAlone
      <4>3. QED
        BY <4>1, <4>2
    <3>2. ~booted' => \A d, e \in Callers : pc'[d] # "idle" /\ pc'[e] # "idle" => d = e
      BY <2>1, <2>3 DEF StartInv, InitAlone
    <3>3. QED
      BY <3>1, <3>2 DEF InitAlone
  <2>7. QED
    BY <2>4, <2>6
<1>3. CASE Environment
  <2>1. CASE CableChange \/ HostMount \/ HostUnmount \/ HostEject \/ HostWrite
    <3>1. UNCHANGED <<locked, booted, pc, cmd>> /\ (backing' = backing \/ backing' = FALSE)
      BY <2>1 DEF CableChange, HostMount, HostUnmount, HostEject, HostWrite
    <3>2. QED
      BY <3>1, <1>b, <1>t DEF StartInv, BeforeInit, InitAlone
  <2>2. CASE PowerCycle
    <3>1. backing' = FALSE /\ booted' = FALSE /\ \A c \in Callers : pc'[c] = "idle"
      BY <2>2 DEF PowerCycle
    <3>2. QED
      BY <3>1, <1>n, <1>t DEF StartInv, BeforeInit, InitAlone
  <2>3. QED
    BY <1>3, <2>1, <2>2 DEF Environment
<1>4. CASE UNCHANGED vars
  <2>1. UNCHANGED <<locked, backing, booted, pc, cmd>>
    BY <1>4 DEF vars
  <2>2. QED
    BY <2>1, <1>b, <1>t DEF StartInv, BeforeInit, InitAlone
<1>5. QED
  BY <1>1, <1>2, <1>3, <1>4, <1>t DEF Next, StartInv

\* The inductive step.
LEMMA ApartStep == Apart /\ ApartInv /\ [Next]_vars => ApartInv'
<1> SUFFICES ASSUME Apart, ApartInv, [Next]_vars PROVE ApartInv'
  OBVIOUS
<1>t. StartInv /\ StartInv' /\ TypeOK /\ TypeOK'
  BY StartStep DEF ApartInv, StartInv
<1>n. \A x \in {"idle", "i_lock", "s_shared", "t_clear", "u_unbind", "m_check", "m_mount", "s_write"} :
          x \notin BuildSteps
  BY DEF BuildSteps
<1>b. mounted \in BOOLEAN /\ backing \in BOOLEAN /\ mounted' \in BOOLEAN /\ backing' \in BOOLEAN
  BY <1>t DEF TypeOK
<1> DEFINE Rest == WithdrawnFirst /\ ClearToShare /\ Exclusive
<1>1. ASSUME NEW c \in Callers, NEW x \in Commands, Begin(c, x) PROVE Rest'
  <2>1. /\ \A d \in Callers \ {c} : pc'[d] = pc[d] /\ cmd'[d] = cmd[d]
        /\ pc'[c] \in {"i_lock", "s_shared", "t_clear", "u_unbind"}
        /\ UNCHANGED <<mounted, backing>>
    <3>1. /\ pc' = [pc EXCEPT ![c] = Entry[x]] /\ cmd' = [cmd EXCEPT ![c] = x]
          /\ Entry[x] \in {"i_lock", "s_shared", "t_clear", "u_unbind"}
          /\ UNCHANGED <<mounted, backing>>
      BY <1>1, <1>t, Begun
    <3>2. pc \in [Callers -> Steps] /\ cmd \in [Callers -> Commands]
      BY <1>t DEF TypeOK
    <3>3. QED
      BY <3>1, <3>2
  <2>2. QED
    BY <2>1, <1>n DEF ApartInv, WithdrawnFirst, ClearToShare, Exclusive
<1>2. ASSUME NEW c \in Callers, ScriptStep(c) PROVE Rest'
  <2>1. /\ pc[c] # "idle" /\ cmd' = cmd
        /\ \A d \in Callers \ {c} : pc'[d] = pc[d]
    BY <1>2, <1>t, StepMoves
  <2>2. /\ mounted' => mounted \/ pc[c] = "m_mount"
        /\ backing' => backing \/ pc[c] = "s_write"
        /\ pc'[c] = "s_write" => ~mounted'
        /\ pc'[c] \in BuildSteps => \/ pc[c] \in BuildSteps \cup RemoveSteps
                                    \/ pc[c] = "i_lock" /\ ~locked
        /\ pc'[c] = "m_check" => \/ ~backing'
                                 \/ pc[c] \in BuildSteps /\ cmd[c] = "init"
        /\ pc'[c] = "m_mount" => pc[c] = "m_check"
    BY <1>2, <1>t, StepHands
  <2>3. WithdrawnFirst'
    <3>1. ASSUME NEW d \in Callers,
                 (pc'[d] \in BuildSteps /\ cmd'[d] = "init") \/ pc'[d] \in {"m_check", "m_mount"}
          PROVE  ~backing'
      <4>1. CASE d # c
        <5>1. (pc[d] \in BuildSteps /\ cmd[d] = "init") \/ pc[d] \in {"m_check", "m_mount"}
          BY <4>1, <3>1, <2>1
        <5>2. ~backing
          BY <5>1 DEF ApartInv, WithdrawnFirst
        <5>3. pc[c] # "s_write"
          <6>1. CASE pc[d] \in {"m_check", "m_mount"}
            BY <6>1 DEF Apart
          <6>2. CASE pc[d] \in BuildSteps /\ cmd[d] = "init"
            BY <6>2, <4>1, <2>1, <1>t, <1>n DEF StartInv, InitAlone
          <6>3. QED
            BY <5>1, <6>1, <6>2
        <5>4. QED
          BY <5>2, <5>3, <2>2
      <4>2. CASE d = c
        <5>1. CASE pc'[c] \in BuildSteps /\ cmd[c] = "init"
          <6>1. \/ pc[c] \in BuildSteps /\ cmd[c] = "init"
                \/ pc[c] = "i_lock" /\ ~backing
            BY <5>1, <2>2, <1>t DEF StartInv, BeforeInit, StepOfCommand
          <6>2. ~backing /\ pc[c] # "s_write"
            BY <6>1, <1>n DEF ApartInv, WithdrawnFirst
          <6>3. QED
            BY <6>2, <2>2
        <5>2. CASE pc'[c] = "m_check"
          BY <5>2, <2>2, <1>n DEF ApartInv, WithdrawnFirst
        <5>3. CASE pc'[c] = "m_mount"
          BY <5>3, <2>2 DEF ApartInv, WithdrawnFirst
        <5>4. QED
          BY <3>1, <4>2, <2>1, <5>1, <5>2, <5>3
      <4>3. QED
        BY <4>1, <4>2
    <3>2. QED
      BY <3>1 DEF WithdrawnFirst
  <2>4. ClearToShare'
    BY <2>1, <2>2 DEF Apart, ApartInv, ClearToShare
  <2>5. Exclusive'
    BY <2>1, <2>2 DEF ApartInv, WithdrawnFirst, ClearToShare, Exclusive
  <2>6. QED
    BY <2>3, <2>4, <2>5
<1>3. CASE Environment
  <2>1. CASE CableChange \/ HostMount \/ HostUnmount \/ HostEject \/ HostWrite
    <3>1. UNCHANGED <<mounted, pc, cmd>> /\ (backing' = backing \/ backing' = FALSE)
      BY <2>1 DEF CableChange, HostMount, HostUnmount, HostEject, HostWrite
    <3>2. QED
      BY <3>1, <1>b, <1>t DEF ApartInv, WithdrawnFirst, ClearToShare, Exclusive
  <2>2. CASE PowerCycle
    <3>1. backing' = FALSE /\ \A c \in Callers : pc'[c] = "idle"
      BY <2>2 DEF PowerCycle
    <3>2. QED
      BY <3>1, <1>n, <1>t DEF ApartInv, WithdrawnFirst, ClearToShare, Exclusive
  <2>3. QED
    BY <1>3, <2>1, <2>2 DEF Environment
<1>4. CASE UNCHANGED vars
  <2>1. UNCHANGED <<mounted, backing, pc, cmd>>
    BY <1>4 DEF vars
  <2>2. QED
    BY <2>1, <1>b, <1>t DEF ApartInv, WithdrawnFirst, ClearToShare, Exclusive
<1>5. QED
  BY <1>1, <1>2, <1>3, <1>4, <1>t DEF Next, ApartInv

\* The initial states.
LEMMA ApartInit == Init => ApartInv
BY FwuAssumption DEF Init, TypeOK, Steps, BuildSteps, RemoveSteps, Commands, Functions, ExitCodes,
   ApartInv, StartInv, BeforeInit, InitAlone, StepOfCommand, WithdrawnFirst, ClearToShare, Exclusive

\* However many commands run at the same time, the console and the host never use the
\* partition together, unless one share start has just unmounted it while a share stop
\* is about to mount it: the race of share_race is the only one, and a lock around these
\* two sections would be enough.
THEOREM ExclusiveIfApart == Spec /\ []Apart => []Exclusive
<1>1. ApartInv => Exclusive
  BY DEF ApartInv
<1>2. QED
  BY <1>1, ApartInit, ApartStep, PTL DEF Spec

-----------------------------------------------------------------------------
(* The medium of the host.                                                 *)

\* The host has mounted only what is exported, by a storage function that is there,
\* linked and bound.
MediumServed ==
    /\ backing => "storage" \in gadget
    /\ held => backing /\ bound /\ "storage" \in linked
    /\ linked \subseteq gadget

\* A change of the gadget that unlinks only what it unbinds and removes only what is not
\* linked keeps that.
LEMMA GadgetServes ==
    ASSUME NEW fs, NEW ls, NEW b, MediumServed, GadgetBecomes(fs, ls, b),
           ls \subseteq fs, held /\ b => "storage" \in ls
    PROVE  MediumServed'
<1>1. /\ gadget' = fs /\ linked' = ls /\ bound' = b
      /\ backing' = (backing /\ "storage" \in fs) /\ held' = (held /\ b)
  BY DEF GadgetBecomes
<1>2. QED
  BY <1>1, Zenon DEF MediumServed

\* Building and removing the gadget, whole or in part, withdraws what is not served any
\* longer.
LEMMA GadgetKept ==
    ASSUME TypeOK, MediumServed, NEW c \in Callers, GadgetStep(c) PROVE MediumServed'
<1>s. /\ linked \subseteq gadget /\ (held => bound /\ "storage" \in linked)
  BY DEF MediumServed
<1>1. CASE Gadget_check(c) \/ Gadget_dir(c) \/ Deinit_rmdir(c)
  <2>1. UNCHANGED <<gadget, linked, bound, backing, held>>
    BY <1>1 DEF Gadget_check, Gadget_dir, Deinit_rmdir
  <2>2. QED
    BY <2>1, Zenon DEF MediumServed
<1>2. CASE Gadget_func(c)
  <2>1. PICK made \in SUBSET Making(c) : GadgetBecomes(gadget \cup made, linked, bound)
    BY <1>2 DEF Gadget_func
  <2>2. QED
    BY <2>1, <1>s, GadgetServes
<1>3. CASE Gadget_net(c)
  <2>1. PICK new \in SUBSET ({"rndis"} \cap gadget), b \in BOOLEAN :
            GadgetBecomes(gadget, linked \cup new, bound \/ b)
    BY <1>3 DEF Gadget_net
  <2>2. /\ held /\ (bound \/ b) => "storage" \in linked \cup new
        /\ linked \cup new \subseteq gadget
    BY <1>s
  <2>3. QED
    BY <2>1, <2>2, GadgetServes
<1>4. CASE Gadget_unbind(c) \/ Deinit_unbind(c)
  <2>1. PICK b : GadgetBecomes(gadget, linked, b)
    BY <1>4 DEF Gadget_unbind, Deinit_unbind
  <2>2. QED
    BY <2>1, <1>s, GadgetServes
<1>5. CASE Gadget_link(c)
  <2>1. PICK new \in SUBSET ((Making(c) \ {"rndis"}) \cap gadget) :
            GadgetBecomes(gadget, linked \cup new, bound)
    BY <1>5 DEF Gadget_link
  <2>2. QED
    BY <2>1, <1>s, GadgetServes
<1>6. CASE Gadget_bind(c)
  <2>1. PICK b \in BOOLEAN : GadgetBecomes(gadget, linked, bound \/ b)
    BY <1>6 DEF Gadget_bind
  <2>2. QED
    BY <2>1, <1>s, GadgetServes
<1>7. CASE Deinit_unlink(c)
  <2>1. PICK gone : GadgetBecomes(gadget, linked \ gone, bound /\ gone = {})
    BY <1>7 DEF Deinit_unlink
  <2>2. /\ held /\ (bound /\ gone = {}) => "storage" \in linked \ gone
        /\ linked \ gone \subseteq gadget
    BY <1>s
  <2>3. QED
    BY <2>1, <2>2, <1>s, GadgetServes
<1>8. CASE Deinit_remove(c)
  <2>1. PICK gone \in SUBSET ((Named(c) \cap gadget) \ linked) :
            GadgetBecomes(gadget \ gone, linked, bound)
    BY <1>8 DEF Deinit_remove
  <2>2. linked \subseteq gadget \ gone
    BY <1>s
  <2>3. QED
    BY <2>1, <2>2, <1>s, GadgetServes
<1>9. QED
  BY <1>1, <1>2, <1>3, <1>4, <1>5, <1>6, <1>7, <1>8 DEF GadgetStep

\* Every step keeps MediumServed.
LEMMA MediumStep == TypeOK /\ MediumServed /\ [Next]_vars => MediumServed'
<1> SUFFICES ASSUME TypeOK, MediumServed, [Next]_vars PROVE MediumServed'
  OBVIOUS
<1> USE DEF usbVars
<1>1. ASSUME NEW c \in Callers, NEW x \in Commands, Begin(c, x) PROVE MediumServed'
  BY <1>1 DEF Begin, MediumServed
<1>2. ASSUME NEW c \in Callers, ScriptStep(c) PROVE MediumServed'
  <2>1. CASE \/ Init_lock(c) \/ Mount_check(c) \/ Mount_mount(c) \/ Mount_fwu(c)
             \/ Start_shared(c) \/ Start_usb(c) \/ Start_umount(c)
    BY <2>1 DEF Init_lock, Mount_check, Mount_mount, Mount_fwu, Start_shared, Start_usb,
       Start_umount, MediumServed
  <2>2. CASE Start_write(c) \/ Stop_clear(c)
    BY <2>2 DEF Start_write, Stop_clear, Ejectable, MediumServed
  <2>3. CASE GadgetStep(c)
    BY <2>3, GadgetKept
  <2>4. QED
    BY <1>2, <2>1, <2>2, <2>3 DEF ScriptStep
<1>3. CASE Environment
  BY <1>3 DEF Environment, CableChange, HostMount, HostUnmount, HostEject, HostWrite, PowerCycle,
     Visible, MediumServed
<1>4. CASE UNCHANGED vars
  BY <1>4 DEF vars, MediumServed
<1>5. QED
  BY <1>1, <1>2, <1>3, <1>4 DEF Next

\* Whatever scripts run at a time, none of them but the adb script takes the
\* medium from a host that has it mounted.
THEOREM MediumKept == Spec => HostKeepsMedium
<1> DEFINE Kept == \A c \in Callers :
        held /\ booted' /\ cmd[c] \in {"init", "start", "stop"} /\ pc'[c] # pc[c]
        => held' /\ backing'
<1>1. Init => StartInv /\ MediumServed
  BY ApartInit DEF ApartInv, Init, MediumServed
<1>2. StartInv /\ MediumServed /\ [Next]_vars => [Kept]_vars
  <2> SUFFICES ASSUME StartInv, MediumServed, Next, NEW c \in Callers, held, booted',
                      cmd[c] \in {"init", "start", "stop"}, pc'[c] # pc[c]
               PROVE  held' /\ backing'
    OBVIOUS
  <2>t. TypeOK
    BY DEF StartInv
  <2> USE DEF usbVars
  <2>1. ASSUME NEW d \in Callers, NEW x \in Commands, Begin(d, x) PROVE held' /\ backing'
    BY <2>1 DEF Begin, MediumServed
  <2>2. ASSUME NEW d \in Callers, ScriptStep(d) PROVE held' /\ backing'
    <3>1. c = d
      BY <2>2, <2>t, StepMoves
    <3>2. CASE \/ Init_lock(d) \/ Mount_check(d) \/ Mount_mount(d) \/ Mount_fwu(d)
               \/ Start_shared(d) \/ Start_usb(d) \/ Start_umount(d)
      BY <3>2 DEF Init_lock, Mount_check, Mount_mount, Mount_fwu, Start_shared, Start_usb,
         Start_umount, MediumServed
    <3>3. CASE Start_write(d) \/ Stop_clear(d)
      BY <3>3 DEF Start_write, Stop_clear, Ejectable, MediumServed
    <3>4. CASE GadgetStep(d)
      <4>1. \/ pc[d] \in RemoveSteps
            \/ pc[d] \in BuildSteps /\ cmd[d] # "init"
            \/ pc[d] \in BuildSteps /\ booted' = booted
        BY <3>4, GadgetMoves DEF Goto, Exit
      <4>2. FALSE
        BY <4>1, <3>1 DEF StartInv, InitAlone, StepOfCommand
      <4>3. QED
        BY <4>2
    <3>5. QED
      BY <2>2, <3>2, <3>3, <3>4 DEF ScriptStep
  <2>3. CASE Environment
    <3>1. pc' = pc \/ ~booted'
      BY <2>3 DEF Environment, CableChange, HostMount, HostUnmount, HostEject, HostWrite,
         PowerCycle
    <3>2. QED
      BY <3>1
  <2>4. QED
    BY <2>1, <2>2, <2>3 DEF Next
<1>3. StartInv => TypeOK
  BY DEF StartInv
<1>4. QED
  BY <1>1, <1>2, <1>3, MediumStep, StartStep, PTL DEF Spec, HostKeepsMedium

\* The steps that keep UpdateDetected: the check itself, and that nobody writes
\* to the partition once the console has it.
LEMMA DetectedStep ==
    ASSUME Serial, MaxFwu <= 1
    PROVE  IInv /\ MediumServed /\ UpdateDetected /\ [Next]_vars => UpdateDetected'
<1> SUFFICES ASSUME IInv, MediumServed, UpdateDetected, [Next]_vars,
                    NEW c \in Callers, pc'[c] = "idle", booted', cmd'[c] = "stop",
                    rc'[c] = 0, fwu' > 0
             PROVE  toRecovery'
  BY DEF UpdateDetected
<1> USE DEF usbVars, diskVars
<1>t. TypeOK
  BY DEF IInv
<1>1. ASSUME NEW d \in Callers, NEW x \in Commands, Begin(d, x) PROVE FALSE
  BY <1>1, <1>t DEF Begin, Entry, Commands, TypeOK, Serial
<1>2. ASSUME NEW d \in Callers, ScriptStep(d) PROVE toRecovery'
  <2>1. d = c /\ pc \in [Callers -> Steps] /\ rc \in [Callers -> ExitCodes]
        /\ cmd \in [Callers -> Commands]
    BY <1>t DEF Serial, TypeOK
  <2>2. CASE Mount_fwu(c)
    <3>1. mounted /\ fwu \in 0..MaxFwu /\ fwu > 0
      BY <2>2, <1>t DEF Mount_fwu, Exit, IInv, ClearToMount, TypeOK
    <3>2. UpdateFileFound
      BY <3>1, FwuAssumption DEF UpdateFileFound
    <3>3. QED
      BY <2>2, <3>2 DEF Mount_fwu
  <2>3. CASE Init_lock(c) \/ Start_shared(c) \/ Start_usb(c) \/ Start_umount(c) \/ Start_write(c)
    BY <2>1, <2>3 DEF Init_lock, Start_shared, Start_usb, Start_umount, Start_write, Goto, Exit,
       IInv, StepOfCommand
  <2>8. CASE GadgetStep(c)
    <3>1. pc[c] \in BuildSteps \cup RemoveSteps /\ cmd' = cmd
      BY <2>8, GadgetMoves DEF Goto, Exit
    <3>2. QED
      BY <3>1, <2>1 DEF IInv, StepOfCommand
  <2>4. CASE Mount_check(c)
    BY <2>1, <2>4 DEF Mount_check, Goto
  <2>5. CASE Mount_mount(c)
    <3>1. pc'[c] = "m_fwu" \/ rc'[c] = 4
      BY <2>1, <2>5 DEF Mount_mount, Goto, Exit
    <3>2. QED
      BY <3>1, FailureCodes
  <2>6. CASE Stop_clear(c)
    <3>1. pc'[c] = "m_check" \/ rc'[c] = 11
      BY <2>1, <2>6 DEF Stop_clear, Goto, Exit
    <3>2. QED
      BY <3>1, FailureCodes
  <2>7. QED
    BY <1>2, <2>1, <2>2, <2>3, <2>4, <2>5, <2>6, <2>8 DEF ScriptStep
<1>3. CASE Environment
  <2>1. CASE HostWrite
    <3>1. pc[c] = "idle" /\ booted /\ cmd[c] = "stop" /\ rc[c] = 0
      BY <2>1 DEF HostWrite
    <3>2. ~backing
      BY <3>1 DEF IInv, ExitStatusTruthful
    <3>3. QED
      BY <2>1, <3>2 DEF HostWrite, MediumServed
  <2>2. CASE CableChange \/ HostMount \/ HostUnmount \/ HostEject
    <3>1. UNCHANGED <<pc, booted, cmd, rc, fwu, toRecovery>>
      BY <2>2 DEF CableChange, HostMount, HostUnmount, HostEject
    <3>2. QED
      BY <3>1 DEF UpdateDetected
  <2>3. CASE PowerCycle
    BY <2>3 DEF PowerCycle
  <2>4. QED
    BY <1>3, <2>1, <2>2, <2>3 DEF Environment
<1>4. CASE UNCHANGED vars
  BY <1>4 DEF vars, UpdateDetected
<1>5. QED
  BY <1>1, <1>2, <1>3, <1>4 DEF Next

\* Run one at a time, a share stop that succeeds never misses a single update
\* file that the host has left.
THEOREM UpdateFound == ASSUME Serial, MaxFwu <= 1 PROVE Spec => []UpdateDetected
<1>1. Init => IInv /\ MediumServed /\ UpdateDetected
  <2>1. Init => IInv
    BY FwuAssumption DEF Init, IInv, TypeOK, BeforeInit, ClearToMount, StepOfCommand,
       ClearToShare, Exclusive, ExitStatusTruthful, Steps, BuildSteps, RemoveSteps, Commands,
       Functions, ExitCodes
  <2>2. QED
    BY <2>1 DEF Init, MediumServed, UpdateDetected
<1>2. IInv => TypeOK
  BY DEF IInv
<1>3. QED
  BY <1>1, <1>2, ExclusionStep, MediumStep, DetectedStep, PTL DEF Spec

-----------------------------------------------------------------------------
(* Refinement.                                                             *)

\* The set of users that the refinement mapping computes.
LEMMA UsersValue ==
    /\ mounted /\ ~backing => Users = {"console"}
    /\ ~mounted /\ backing => Users = {"host"}
    /\ ~mounted /\ ~backing => Users = {}
BY DEF Users

\* Every step of the scripts and of their environment is a step of
\* PartitionOwner or leaves the partition with its user.
LEMMA OwnershipStep ==
    ASSUME ApartInv, ApartInv', [Next]_vars
    PROVE  [Ownership!Next]_<<Users, booted>>
<1> DEFINE Goal == [Ownership!Next]_<<Users, booted>>
<1>u. UNCHANGED <<mounted, backing>> => UNCHANGED Users
  BY DEF Users
<1>x. Exclusive /\ Exclusive'
  BY DEF ApartInv
<1>v. /\ mounted \in BOOLEAN /\ backing \in BOOLEAN /\ booted \in BOOLEAN
      /\ mounted' \in BOOLEAN /\ backing' \in BOOLEAN /\ booted' \in BOOLEAN
  BY DEF ApartInv, StartInv, TypeOK
<1>w. /\ mounted' /\ ~backing' => Users' = {"console"}
      /\ ~mounted' /\ backing' => Users' = {"host"}
      /\ ~mounted' /\ ~backing' => Users' = {}
  BY DEF Users
<1>r. UNCHANGED booted /\ backing' = FALSE /\ UNCHANGED mounted => Goal
  BY <1>u, <1>v, <1>w, <1>x, UsersValue
     DEF Exclusive, Ownership!Next, Ownership!Release
<1>s. UNCHANGED <<mounted, backing>> /\ (booted => booted') => Goal
  BY <1>u, <1>v DEF Ownership!Next, Ownership!Started
<1>1. ASSUME NEW c \in Callers, NEW x \in Commands, Begin(c, x) PROVE Goal
  BY <1>1, <1>s DEF Begin
<1>2. ASSUME NEW c \in Callers, ScriptStep(c) PROVE Goal
  <2>e. \A from, code : Exit(c, from, code) => (booted => booted')
    BY Zenon DEF Exit
  <2>g. \A from, to : Goto(c, from, to) => UNCHANGED booted
    BY DEF Goto
  <2>1. CASE Init_lock(c) \/ Mount_check(c) \/ Mount_fwu(c) \/ Start_shared(c) \/ Start_usb(c)
    <3>1. UNCHANGED <<mounted, backing>>
      BY <2>1 DEF Init_lock, Mount_check, Mount_fwu, Start_shared, Start_usb
    <3>2. booted => booted'
      BY <2>1, <2>e, <2>g, Zenon
         DEF Init_lock, Mount_check, Mount_fwu, Start_shared, Start_usb
    <3>3. QED
      BY <3>1, <3>2, <1>s
  <2>2. CASE Mount_mount(c)
    <3>1. CASE UNCHANGED mounted
      BY <2>2, <3>1, <2>e, <2>g, <1>s DEF Mount_mount
    <3>2. CASE ~mounted /\ mounted' = TRUE /\ Goto(c, "m_mount", "m_fwu")
      <4>1. Users = {} /\ Users' = {"console"} /\ UNCHANGED booted
        BY <3>2, <2>2, <2>g, <1>w, <1>x, UsersValue
           DEF Mount_mount, ApartInv, WithdrawnFirst, Exclusive
      <4>2. QED
        BY <4>1 DEF Ownership!Next, Ownership!Acquire
    <3>3. QED
      BY <2>2, <3>1, <3>2 DEF Mount_mount
  <2>3. CASE Start_umount(c)
    <3>1. CASE UNCHANGED mounted
      BY <2>3, <3>1, <2>e, <2>g, <1>s DEF Start_umount
    <3>2. CASE mounted /\ mounted' = FALSE /\ Goto(c, "s_umount", "s_write")
      <4>1. Users = {"console"} /\ Users' = {} /\ UNCHANGED booted
        BY <3>2, <2>3, <2>g, <1>w, <1>x, UsersValue DEF Start_umount, Exclusive
      <4>2. QED
        BY <4>1 DEF Ownership!Next, Ownership!Release
    <3>3. QED
      BY <2>3, <3>1, <3>2 DEF Start_umount
  <2>4. CASE Start_write(c)
    <3>1. booted /\ ~mounted /\ pc[c] = "s_write"
      BY <2>4 DEF Start_write, Exit, ApartInv, StartInv, StepOfCommand, ClearToShare
    <3>2. booted'
      BY <3>1, <2>4, <2>e DEF Start_write
    <3>3. UNCHANGED booted
      BY <3>1, <3>2, <1>v
    <3>4. CASE backing' = backing
      BY <2>4, <3>4, <3>3, <1>s DEF Start_write
    <3>5. CASE backing' = TRUE /\ ~backing
      <4>1. Users = {} /\ Users' = {"host"}
        BY <3>5, <3>1, <2>4, <1>w, UsersValue DEF Start_write
      <4>2. QED
        BY <4>1, <3>1, <3>3 DEF Ownership!Next, Ownership!Acquire
    <3>6. QED
      BY <2>4, <3>4, <3>5, <1>v DEF Start_write
  <2>5. CASE Stop_clear(c)
    <3>1. CASE UNCHANGED backing
      BY <2>5, <3>1, <2>e, <2>g, <1>s DEF Stop_clear
    <3>2. CASE backing' = FALSE /\ Goto(c, "t_clear", "m_check")
      BY <2>5, <3>2, <2>g, <1>r DEF Stop_clear
    <3>3. QED
      BY <2>5, <3>1, <3>2 DEF Stop_clear
  <2>6. CASE GadgetStep(c)
    <3>1. UNCHANGED mounted /\ (backing' = FALSE \/ UNCHANGED backing)
      BY <2>6, <1>v, GadgetMoves, GadgetParts DEF ApartInv, StartInv
    <3>2. UNCHANGED booted
      <4>1. CASE \E from \in BuildSteps : Exit(c, from, 0) /\ cmd[c] # "init"
        <5>1. booted /\ booted'
          BY <4>1, <2>e DEF ApartInv, StartInv, StepOfCommand
        <5>2. QED
          BY <5>1, <1>v
      <4>2. QED
        BY <2>6, <4>1, <2>g, GadgetMoves
    <3>3. QED
      BY <3>1, <3>2, <1>r, <1>s
  <2>7. QED
    BY <1>2, <2>1, <2>2, <2>3, <2>4, <2>5, <2>6 DEF ScriptStep
<1>3. CASE Environment
  <2>1. CASE CableChange \/ HostMount \/ HostUnmount \/ HostWrite
    <3>1. UNCHANGED <<mounted, backing, booted>>
      BY <2>1 DEF CableChange, HostMount, HostUnmount, HostWrite
    <3>2. QED
      BY <3>1, <1>s
  <2>4. CASE HostEject
    BY <2>4, <1>r DEF HostEject
  <2>2. CASE PowerCycle
    BY <2>2, <1>w, <1>v DEF PowerCycle, Ownership!Next, Ownership!Restart
  <2>3. QED
    BY <1>3, <2>1, <2>2, <2>4 DEF Environment
<1>4. CASE UNCHANGED vars
  BY <1>4, <1>s DEF vars
<1>5. QED
  BY <1>1, <1>2, <1>3, <1>4 DEF Next

\* However many commands run at the same time, the scripts implement the exclusively
\* used resource, if those two sections do not overlap.
THEOREM RefinementIfApart == Spec /\ []Apart => ImplementsOwnership
<1>1. Init => Ownership!Init
  <2> SUFFICES ASSUME Init PROVE Ownership!Init
    OBVIOUS
  <2>1. Users \in {{}, {"console"}}
    BY UsersValue DEF Init
  <2>2. QED
    BY <2>1 DEF Init, Ownership!Init
<1>2. QED
  BY <1>1, ApartInit, ApartStep, OwnershipStep, PTL
     DEF Spec, ImplementsOwnership, Ownership!Spec

\* Run one at a time, the scripts implement the exclusively used resource.
THEOREM Refinement == ASSUME Serial PROVE Spec => ImplementsOwnership
<1>1. Apart
  BY DEF Serial, Apart
<1>2. QED
  BY <1>1, RefinementIfApart, PTL
=============================================================================
