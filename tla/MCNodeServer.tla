---------------------------- MODULE MCNodeServer ----------------------------
(***************************************************************************)
(* NodeServer on a node with up to three targets.                          *)
(***************************************************************************)
EXTENDS NodeServer, TLC

Use(volume, kind, readonly) == [vol |-> volume, kind |-> kind, ro |-> readonly]

Pair(first, second) == [t1 |-> first, t2 |-> second]

(* Two block volumes; a disk and a folder of two pods; read-only uses.     *)
Mixed == {
    Pair(Use("v1", "disk", FALSE), Use("v1", "disk", FALSE)),
    Pair(Use("v1", "raw", FALSE), Use("v2", "disk", FALSE)),
    Pair(Use("v1", "folder", FALSE), Use("v1", "folder", FALSE)),
    Pair(Use("v1", "folder", TRUE), Use("v2", "raw", TRUE))}

(* One folder. *)
OneFolder == {[t1 |-> Use("v1", "folder", FALSE)]}

AllNodeFaults == {"read", "write", "fs", "umount", "losetup", "crash"}

(* The calls of a node are alike. *)
CallSymmetry == Permutations(Calls)
=============================================================================
