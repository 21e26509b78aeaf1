---------------------------- MODULE MCFirstBoot ----------------------------
(* Instances of FirstBoot for TLC.                                         *)
EXTENDS FirstBoot

\* Every command of the script may fail, whether the script looks or not.
AllCommands == Commands
=============================================================================
