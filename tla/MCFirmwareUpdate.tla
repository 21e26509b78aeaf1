-------------------------- MODULE MCFirmwareUpdate --------------------------
(* Instances of FirmwareUpdate for TLC.                                    *)
EXTENDS FirmwareUpdate

\* genimage-prod.cfg with the two partitions it names in a comment, swap (p3) and
\* share (p4), and the environment of etc/u-boot.env.
ProdCard == [recovery |-> 1, funkey |-> 2, share |-> 4, byMark |-> TRUE]

\* The partitions of genimage.cfg and first_boot, with env.cfg as environment.
ImageCard == [recovery |-> 4, funkey |-> 5, share |-> 7, byMark |-> FALSE]

BothCards == {ProdCard, ImageCard}
OnlyImage == {ImageCard}
=============================================================================
