-------------------------- MODULE FirstBootProofs --------------------------
(***************************************************************************)
(* Proofs about the provisioning of the card, for any number of power cuts *)
(* and of failing commands, whether the script looks at their failure or   *)
(* not.                                                                    *)
(***************************************************************************)
EXTENDS FirstBoot, TLAPS

USE FallibleAssumption, BoundsAssumption

-----------------------------------------------------------------------------

\* The two truth values, for variables that are assigned TRUE or FALSE.
LEMMA Bools == \A b : b = TRUE \/ b = FALSE => b \in BOOLEAN
BY Zenon

\* Every step keeps the type invariant.
LEMMA TypeStep == TypeOK /\ [Next]_vars => TypeOK'
<1> SUFFICES ASSUME TypeOK, [Next]_vars PROVE TypeOK'
  OBVIOUS
<1> USE Bools DEF TypeOK, Steps, table, content, volatile, counts, cutting, GoOn,
                  Die, Fails, FailAndDie, FailAndGoOn
<1>1. CASE Boot
  <2>1. swapOn' \in BOOLEAN
    BY <1>1, Zenon DEF Boot
  <2>2. QED
    BY <1>1, <2>1 DEF Boot, MountAll, InTable
<1>2. CASE ResizeRootfsPartition
  BY <1>2 DEF ResizeRootfsPartition
<1>3. CASE MarkBootable
  BY <1>3 DEF MarkBootable
<1>4. CASE ReloadTable
  BY <1>4 DEF ReloadTable
<1>5. CASE ResizeRootfsFilesystem
  BY <1>5 DEF ResizeRootfsFilesystem
<1>6. CASE CreateSwapPartition
  BY <1>6 DEF CreateSwapPartition
<1>7. CASE MakeSwap
  BY <1>7 DEF MakeSwap
<1>8. CASE EnableSwap
  BY <1>8 DEF EnableSwap
<1>9. CASE CreateUsbPartition
  BY <1>9 DEF CreateUsbPartition
<1>10. CASE ReloadUsbTable
  BY <1>10 DEF ReloadUsbTable, InTable
<1>11. CASE FormatUsbPartition
  BY <1>11 DEF FormatUsbPartition
<1>12. CASE FormatUsbPartition_end
  BY <1>12 DEF FormatUsbPartition_end
<1>13. CASE MountUsb
  BY <1>13 DEF MountUsb
<1>14. CASE CopyFiles
  BY <1>14 DEF CopyFiles
<1>15. CASE CopyFiles_end
  BY <1>15 DEF CopyFiles_end
<1>16. CASE UnmountUsb
  BY <1>16 DEF UnmountUsb
<1>17. CASE SetFirstBootOk
  BY <1>17 DEF SetFirstBootOk
<1>18. CASE UseConsole
  BY <1>18 DEF UseConsole
<1>19. CASE PowerOff
  BY <1>19 DEF PowerOff
<1>20. CASE PowerCut
  BY <1>20 DEF PowerCut
<1>21. CASE UNCHANGED vars
  BY <1>21 DEF vars
<1>22. QED
  BY <1>1, <1>2, <1>3, <1>4, <1>5, <1>6, <1>7, <1>8, <1>9, <1>10, <1>11,
     <1>12, <1>13, <1>14, <1>15, <1>16, <1>17, <1>18, <1>19, <1>20, <1>21 DEF
     Next, ScriptStep

\* The variables of the card and of the script keep their types, whatever fails.
THEOREM TypeCorrect == Spec => []TypeOK
<1>1. Init => TypeOK
  BY Bools DEF Init, TypeOK, Steps
<1>2. QED
  BY <1>1, TypeStep, PTL DEF Spec

-----------------------------------------------------------------------------

\* A new card is one on which no stage has been started.
LEMMA InitStages == Init => IInv
BY Bools DEF Init, IInv, TypeOK, NeverStuck, StagesInOrder, StepsInOrder, VolatileBacked,
   OkMeansDone, GapsKnown, GoodMounted, FormatsNew, Enlarged, EnlargedFs, Steps,
   AfterResize, AfterResizefs, AfterSwap, AfterMkswap, BeforeUsb, Formatting, AfterFormat

\* Every step keeps the stages of the provisioning in order.
LEMMA StageStep == IInv /\ [Next]_vars => IInv'
<1> SUFFICES ASSUME IInv, [Next]_vars PROVE IInv'
  OBVIOUS
<1>0. TypeOK /\ TypeOK'
  BY TypeStep DEF IInv
<1> USE <1>0, Bools DEF IInv, NeverStuck, StagesInOrder, StepsInOrder, VolatileBacked,
        OkMeansDone, GapsKnown, GoodMounted, FormatsNew, Enlarged, EnlargedFs,
        AfterResize, AfterResizefs, AfterSwap, AfterMkswap, BeforeUsb, Formatting,
        AfterFormat, Steps, LastPart, table, content, volatile, counts, cutting,
        GoOn, Die, Fails, FailAndDie, FailAndGoOn
<1>1. CASE Boot
  BY <1>1 DEF Boot, MountAll, Mountable, InTable
<1>2. CASE ResizeRootfsPartition
  BY <1>2 DEF ResizeRootfsPartition
<1>3. CASE MarkBootable
  BY <1>3 DEF MarkBootable
<1>4. CASE ReloadTable
  BY <1>4 DEF ReloadTable
<1>5. CASE ResizeRootfsFilesystem
  BY <1>5 DEF ResizeRootfsFilesystem
<1>6. CASE CreateSwapPartition
  BY <1>6 DEF CreateSwapPartition
<1>7. CASE MakeSwap
  BY <1>7 DEF MakeSwap
<1>8. CASE EnableSwap
  BY <1>8 DEF EnableSwap
<1>9. CASE CreateUsbPartition
  BY <1>9 DEF CreateUsbPartition
<1>10. CASE ReloadUsbTable
  BY <1>10 DEF ReloadUsbTable, InTable
<1>11. CASE FormatUsbPartition
  BY <1>11 DEF FormatUsbPartition
<1>12. CASE FormatUsbPartition_end
  BY <1>12 DEF FormatUsbPartition_end
<1>13. CASE MountUsb
  BY <1>13 DEF MountUsb
<1>14. CASE CopyFiles
  BY <1>14 DEF CopyFiles
<1>15. CASE CopyFiles_end
  BY <1>15 DEF CopyFiles_end
<1>16. CASE UnmountUsb
  BY <1>16 DEF UnmountUsb
<1>17. CASE SetFirstBootOk
  BY <1>17 DEF SetFirstBootOk
<1>18. CASE UseConsole
  BY <1>18 DEF UseConsole
<1>19. CASE PowerOff
  BY <1>19 DEF PowerOff
<1>20. CASE PowerCut
  BY <1>20 DEF PowerCut
<1>21. CASE UNCHANGED vars
  BY <1>21 DEF vars
<1>22. QED
  BY <1>1, <1>2, <1>3, <1>4, <1>5, <1>6, <1>7, <1>8, <1>9, <1>10, <1>11,
     <1>12, <1>13, <1>14, <1>15, <1>16, <1>17, <1>18, <1>19, <1>20, <1>21 DEF
     Next, ScriptStep

\* However often it was interrupted, first_boot knows how to go on but where a
\* p7 is left that it cannot see, or a root partition that it cannot enlarge.
THEOREM SetupNotStuck == Spec => []NeverStuck
<1>1. IInv => NeverStuck
  BY DEF IInv
<1>2. QED
  BY <1>1, InitStages, StageStep, PTL DEF Spec

\* When first_boot sets first_boot_ok every stage is complete, but for what was
\* left undone by a failure it does not look at or by an interruption between two
\* commands of a stage.
THEOREM SetupComplete == Spec => []Provisioned
<1>1. IInv => Provisioned
  BY DEF IInv, TypeOK, Provisioned, StagesInOrder, StepsInOrder, OkMeansDone, GapsKnown,
     EnlargedFs, Steps, AfterResize, AfterResizefs, AfterSwap, AfterMkswap, AfterFormat
<1>2. QED
  BY <1>1, InitStages, StageStep, PTL DEF Spec

-----------------------------------------------------------------------------

\* No start of first_boot erases files of the user: the partition it formats is
\* one that it has just created.
THEOREM UserFilesSafe == Spec => UserFilesKept
<1>1. IInv /\ [Next]_vars => [user => user']_vars
  <2> SUFFICES ASSUME IInv, Next, user PROVE user'
    BY DEF vars
  <2> USE DEF table, content, volatile, counts, cutting
  <2>1. CASE FormatUsbPartition
    BY <2>1 DEF FormatUsbPartition, GoOn, Die, IInv, FormatsNew, Formatting
  <2>2. CASE UseConsole
    BY <2>2 DEF UseConsole
  <2>3. CASE UNCHANGED user
    BY <2>3
  <2>4. CASE ScriptStep /\ ~FormatUsbPartition
    BY <2>3, <2>4 DEF ScriptStep, ResizeRootfsPartition, MarkBootable, ReloadTable,
       ResizeRootfsFilesystem, CreateSwapPartition, MakeSwap, EnableSwap,
       CreateUsbPartition, ReloadUsbTable, FormatUsbPartition_end, MountUsb,
       CopyFiles, CopyFiles_end, UnmountUsb, SetFirstBootOk
  <2>5. CASE Boot \/ PowerOff \/ PowerCut
    BY <2>3, <2>5 DEF Boot, PowerOff, PowerCut
  <2>6. QED
    BY <2>1, <2>2, <2>4, <2>5 DEF Next
<1>2. QED
  BY <1>1, InitStages, StageStep, PTL DEF Spec, UserFilesKept
=============================================================================
