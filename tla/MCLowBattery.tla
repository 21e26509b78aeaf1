---------------------------- MODULE MCLowBattery ----------------------------
(* Instances of LowBattery for TLC.                                        *)
EXTENDS LowBattery
=============================================================================
