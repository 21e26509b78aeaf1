------------------------------ MODULE MCShare ------------------------------
(* Instances of Share for TLC.                                             *)
EXTENDS Share
=============================================================================
