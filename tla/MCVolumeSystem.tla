--------------------------- MODULE MCVolumeSystem ---------------------------
(***************************************************************************)
(* VolumeSystem on the capacities of MCController.                         *)
(***************************************************************************)
EXTENDS VolumeSystem

Request(name, claim, block, bytes) ==
    [info |-> [name |-> name, claim |-> claim, block |-> block], bytes |-> bytes]

(* A block and a folder volume of one claim, under different names.        *)
PlainReqs == {Request("n1", "k1", TRUE, 1), Request("n2", "k1", FALSE, 3)}
=============================================================================
