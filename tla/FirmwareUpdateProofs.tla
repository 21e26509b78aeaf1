------------------------ MODULE FirmwareUpdateProofs ------------------------
(***************************************************************************)
(* Proofs about FirmwareUpdate, for any number of update files, of power   *)
(* cuts and of failing commands, and for every card on which a bootable    *)
(* mark that the boot loader follows leads to Recovery on p1 and to FunKey *)
(* on p2 (CardsAssumption).                                                *)
(***************************************************************************)
EXTENDS FirmwareUpdate, WellFoundedInduction, TLAPS

-----------------------------------------------------------------------------
(* The loop over the update files takes the first of those that are left.  *)

Less == {p \in Nat \X Nat : p[1] < p[2]}

\* The order of the natural numbers, as a set of pairs, is well-founded.
LEMMA LessWellFounded == IsWellFoundedOn(Less, Nat)
<1>1. OpToRel(<, Nat) = Less
  BY Zenon DEF OpToRel, Less
<1>2. QED
  BY <1>1, NatLessThanWellFounded

\* A set of natural numbers that is not empty has a least element.
LEMMA Smallest ==
    ASSUME NEW S \in SUBSET Nat, S # {} PROVE \E m \in S : \A k \in S : m <= k
<1>1. S \subseteq Nat
  OBVIOUS
<1>2. \E x \in S : \A y \in S : ~ (<<y, x>> \in Less)
  BY <1>1, LessWellFounded, WFMin, Zenon
<1>3. PICK x \in S : \A y \in S : ~ (<<y, x>> \in Less)
  BY <1>2
<1>4. ASSUME NEW y \in S PROVE x <= y
  <2>1. x \in Nat /\ y \in Nat
    BY <1>1
  <2>2. <<y, x>> \in Nat \X Nat /\ <<y, x>>[1] = y /\ <<y, x>>[2] = x
    BY <2>1
  <2>3. ~ (y < x)
    BY <1>3, <2>2 DEF Less
  <2>4. QED
    BY <2>1, <2>3
<1>5. QED
  BY <1>4

\* The file in work is one of those that are left to do.
LEMMA CurrentInTodo == ASSUME TypeOK, todo # {} PROVE Current \in todo /\ Current \in Files
<1>1. todo \in SUBSET Nat
  BY BoundsAssumption DEF TypeOK, Files
<1>2. \E f \in todo : \A g \in todo : f <= g
  BY <1>1, Smallest
<1>3. QED
  BY <1>2 DEF Current, TypeOK

-----------------------------------------------------------------------------

\* The two truth values, for variables that are assigned TRUE or FALSE.
LEMMA Bools == \A b : b = TRUE \/ b = FALSE => b \in BOOLEAN
BY Zenon

\* A failing command is counted.
LEMMA FailCounted == TypeOK /\ Fail => fails' \in 0..MaxFails /\ fails' > 0
BY BoundsAssumption DEF TypeOK, Fail

\* What recovery_mode and normal_mode change keeps its type.
LEMMA MarkTyped ==
    ASSUME TypeOK, NEW part \in {1, 2}, MarkAndReboot(part), UNCHANGED card
    PROVE  /\ mark' \in {1, 2, card'.funkey} /\ rebooting' \in BOOLEAN
           /\ fails' \in 0..MaxFails
BY FailCounted, Bools DEF TypeOK, MarkAndReboot

\* Every step keeps the values of the variables in their types.
LEMMA TypeStep == TypeOK /\ [Next]_vars => TypeOK'
<1> SUFFICES ASSUME TypeOK, [Next]_vars PROVE TypeOK'
  OBVIOUS
<1> USE KindsAssumption, BoundsAssumption, FailCounted, Bools
        DEF TypeOK, Pcs, Updating, Endings, LeaveWriting
<1>1. CASE Boot
  BY <1>1 DEF Boot
<1>2. CASE CheckUpdate
  BY <1>2, MarkTyped DEF CheckUpdate, RecoveryMode
<1>3. CASE Reboot
  BY <1>3 DEF Reboot
<1>4. CASE StartRecovery
  BY <1>4 DEF StartRecovery, Visible, Present
<1>5. CASE NextUpdate
  BY <1>5, MarkTyped DEF NextUpdate, NormalMode
<1>6. CASE Stream
  BY <1>6 DEF Stream
<1>7. CASE Streamed
  BY <1>7 DEF Streamed
<1>8. CASE Resize
  BY <1>8 DEF Resize
<1>9. CASE Resized
  BY <1>9 DEF Resized, Present
<1>10. CASE Erase
  BY <1>10 DEF Erase
<1>11. CASE RemoveCorrupted
  BY <1>11 DEF RemoveCorrupted
<1>12. CASE RestartInLoop
  BY <1>12, MarkTyped DEF RestartInLoop, NormalMode
<1>13. ASSUME NEW f \in Files, NEW k \in Kinds \cup {"none"},
             UsbSession(f, k) \/ CardReader(f, k)
      PROVE  TypeOK'
  BY <1>13 DEF UsbSession, CardReader
<1>14. ASSUME NEW f \in Files, NEW k \in Kinds \cup {"none"}, MenuUsb(f, k) PROVE TypeOK'
  BY <1>14 DEF MenuUsb
<1>15. CASE MenuExit \/ MenuFormat
  BY <1>15, MarkTyped DEF MenuExit, MenuFormat, NormalMode
<1>16. CASE PowerOff \/ PowerCut \/ PowerOn
  BY <1>16 DEF PowerOff, PowerCut, PowerOn
<1>17. CASE UNCHANGED vars
  BY <1>17 DEF vars
<1>18. QED
  BY <1>1, <1>2, <1>3, <1>4, <1>5, <1>6, <1>7, <1>8, <1>9, <1>10, <1>11, <1>12, <1>13,
     <1>14, <1>15, <1>16, <1>17 DEF Next, RecoveryStep

\* The console is shipped with values in their types.
LEMMA InitTyped == Init => TypeOK
<1> SUFFICES ASSUME Init PROVE TypeOK
  OBVIOUS
<1>1. rebooting \in BOOLEAN /\ inMenu \in BOOLEAN
  BY Zenon DEF Init
<1>2. /\ card \in Cards /\ pc \in Pcs
      /\ mark \in {1, 2, card.funkey} /\ rootfs \in {"ok", "small", "torn"}
      /\ files \in [Files -> {"none", "good", "bad_header", "bad_payload"}]
      /\ todo \subseteq Files /\ erase \subseteq Files /\ left \subseteq Endings
      /\ fails \in 0..MaxFails /\ cuts \in 0..MaxCuts
  BY BoundsAssumption DEF Init, Pcs
<1>3. QED
  BY <1>1, <1>2 DEF TypeOK

\* Types, on every card and with every kind of file.
THEOREM TypeCorrect == Spec => []TypeOK
BY InitTyped, TypeStep, PTL DEF Spec

-----------------------------------------------------------------------------
(* The inductive invariant.                                                *)

\* What the console may have done to be started half-written.
Excuses == {"cut", "failed", "menu_restart"}

\* A half-written FunKey is being written, or the reason is on record.
TornExplained == rootfs = "torn" => pc \in Writing \/ left \cap Excuses # {}

\* S60recovery runs with no restart on its way.
AutomaticQuiet ==
    /\ pc \in Updating /\ ~inMenu => ~rebooting
    /\ pc \in {"off", "boot", "r_start"} => ~rebooting
    /\ pc \in {"boot", "r_start"} => ~inMenu
    /\ pc = "r_restart" => inMenu

\* What each step of an update knows of its file and of FunKey.
StepKnows ==
    /\ pc \in Updating \ {"r_next", "r_restart"} => todo # {}
    /\ pc = "r_resize" => rootfs = "small"
    /\ pc = "r_erase" => rootfs = "ok"
    /\ pc = "r_failed" /\ files[Current] = "good" => fails > 0

IInv == TypeOK /\ TornExplained /\ AutomaticQuiet /\ StepKnows /\ NeverBootsTorn

LEMMA InitExplained == Init => IInv
BY InitTyped DEF Init, IInv, Updating, Writing, TornExplained, AutomaticQuiet, StepKnows,
                NeverBootsTorn

\* The boot loader finds Recovery or FunKey, wherever the mark is.
LEMMA BootsWhatIsThere ==
    ASSUME TypeOK, NEW held \in BOOLEAN PROVE BootPart(held) \in {card.recovery, card.funkey}
BY CardsAssumption DEF TypeOK, BootPart

\* No step leaves a half-written FunKey without a reason.
LEMMA ExplainedStep == IInv /\ [Next]_vars => IInv'
<1> SUFFICES ASSUME IInv, [Next]_vars PROVE IInv'
  OBVIOUS
<1>t. TypeOK /\ TypeOK'
  BY TypeStep DEF IInv
<1>c. todo # {} => Current \in todo /\ Current \in Files
  BY <1>t, CurrentInTodo
<1>e. UNCHANGED todo => Current' = Current
  BY DEF Current
<1>f. fails \in Nat /\ (Fail => fails' > 0)
  BY <1>t, BoundsAssumption DEF TypeOK, Fail
<1> USE DEF IInv, Updating, Writing, Excuses, TornExplained, AutomaticQuiet, StepKnows,
            NeverBootsTorn, LeaveWriting
<1>1. CASE Boot
  BY <1>1, <1>t, <1>e, BootsWhatIsThere DEF Boot, TypeOK
<1>2. CASE CheckUpdate
  BY <1>2, <1>t, <1>e DEF CheckUpdate, RecoveryMode, MarkAndReboot
<1>3. CASE Reboot
  BY <1>3, <1>t DEF Reboot
<1>4. CASE StartRecovery
  BY <1>4, <1>t DEF StartRecovery
<1>5. CASE NextUpdate
  BY <1>5, <1>t, <1>c, <1>e, <1>f DEF NextUpdate, NormalMode, MarkAndReboot
<1>6. CASE Stream
  BY <1>6, <1>t, <1>e DEF Stream
<1>7. CASE Streamed
  BY <1>7, <1>t, <1>e, <1>f DEF Streamed
<1>8. CASE Resize
  BY <1>8, <1>t, <1>e, <1>f DEF Resize
<1>9. CASE Resized
  BY <1>9, <1>t, <1>e, <1>f DEF Resized
<1>10. CASE Erase
  BY <1>10, <1>t, <1>e DEF Erase
<1>11. CASE RemoveCorrupted
  BY <1>11, <1>t DEF RemoveCorrupted
<1>12. CASE RestartInLoop
  BY <1>12, <1>t DEF RestartInLoop, NormalMode, MarkAndReboot
<1>13. ASSUME NEW f \in Files, NEW k \in Kinds \cup {"none"},
             UsbSession(f, k) \/ CardReader(f, k) \/ MenuUsb(f, k)
      PROVE  IInv'
  BY <1>13, <1>t DEF UsbSession, CardReader, MenuUsb
<1>14. CASE MenuExit \/ MenuFormat
  BY <1>14, <1>t, <1>e DEF MenuExit, MenuFormat, NormalMode, MarkAndReboot
<1>15. CASE PowerOff \/ PowerCut \/ PowerOn
  BY <1>15, <1>t, <1>e DEF PowerOff, PowerCut, PowerOn
<1>16. CASE UNCHANGED vars
  BY <1>16, <1>t, <1>e DEF vars
<1>17. QED
  BY <1>1, <1>2, <1>3, <1>4, <1>5, <1>6, <1>7, <1>8, <1>9, <1>10, <1>11, <1>12, <1>13,
     <1>14, <1>15, <1>16 DEF Next, RecoveryStep

\* The console is started with a half-written FunKey only after an installation
\* was cut off or has failed, or the menu has restarted during one.
THEOREM UpdateRepeats == Spec => []NeverBootsTorn
<1>1. IInv => NeverBootsTorn
  BY DEF IInv
<1>2. QED
  BY <1>1, InitExplained, ExplainedStep, PTL DEF Spec

\* The scripts of Recovery erase a good file while FunKey is half-written only
\* when its own installation has failed, and not because of the file.
THEOREM GoodFileSafe == Spec => GoodFileKept
<1> DEFINE Kept == \A f \in Files :
        pc \in Updating /\ files[f] = "good" /\ files'[f] = "none" =>
            rootfs # "torn" \/ (pc = "r_failed" /\ f = Current /\ fails > 0)
<1>1. IInv /\ [Next]_vars => [Kept]_vars
  <2> SUFFICES ASSUME IInv, Next, NEW f \in Files,
                      pc \in Updating, files[f] = "good", files'[f] = "none"
               PROVE  rootfs # "torn" \/ (pc = "r_failed" /\ f = Current /\ fails > 0)
    BY DEF vars
  <2>1. CASE Erase
    BY <2>1 DEF Erase, IInv, StepKnows
  <2>2. CASE RemoveCorrupted
    <3>1. f = Current
      BY <2>2 DEF RemoveCorrupted, IInv, TypeOK
    <3>2. QED
      BY <2>2, <3>1 DEF RemoveCorrupted, IInv, StepKnows
  <2>3. CASE \E g \in Files, k \in Kinds \cup {"none"} :
                UsbSession(g, k) \/ MenuUsb(g, k) \/ CardReader(g, k)
    BY <2>3 DEF UsbSession, MenuUsb, CardReader, Updating
  <2>4. CASE MenuFormat
    BY <2>4 DEF MenuFormat, Updating
  <2>5. CASE UNCHANGED files
    BY <2>5
  <2>6. QED
    BY <2>1, <2>2, <2>3, <2>4, <2>5 DEF Next, RecoveryStep, Boot, CheckUpdate, Reboot,
       StartRecovery, NextUpdate, Stream, Streamed, Resize, Resized, RestartInLoop, MenuExit,
       PowerOff, PowerCut, PowerOn
<1>2. QED
  BY <1>1, InitExplained, ExplainedStep, PTL DEF Spec, GoodFileKept

=============================================================================
