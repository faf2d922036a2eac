---------------------------- MODULE MCController ----------------------------
(***************************************************************************)
(* Controller on capacities scaled to 1MiB = 1, 1GiB = 2, 1TiB = 8: the    *)
(* bytes 1, 3, 4 are granted 2, 3, 4.  Requests that share a name come     *)
(* from one claim; two names may share a claim (a claim deleted and made   *)
(* again under its old name).                                              *)
(***************************************************************************)
EXTENDS Controller, TLC

Request(name, claim, block, bytes) ==
    [info |-> [name |-> name, claim |-> claim, block |-> block], bytes |-> bytes]

(* One request per name, a block and a folder volume of one claim.         *)
PlainReqs == {Request("n1", "k1", TRUE, 1), Request("n2", "k1", FALSE, 3)}

(* Also a second capacity for a name, and a request without its claim.     *)
MixedReqs ==
    {Request("n1", "k1", TRUE, 1), Request("n1", "k1", TRUE, 3),
     Request("n2", "k1", FALSE, 3), Request("n1", "missing", TRUE, 1)}

OneReq == {Request("n1", "k1", TRUE, 1)}

(* All but a COMMIT of unknown outcome. *)
NoCommitFaults == {"read", "write", "fs", "crash"}

(* All but a failed SELECT and a failed UPDATE. *)
RowFaultless == {"commit", "fs", "crash"}

AllFaults == {"read", "write", "commit", "fs", "crash"}

(* Controllers are alike. *)
ControllerSymmetry == Permutations(Controllers)
=============================================================================
