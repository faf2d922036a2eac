------------------------------ MODULE Admission ------------------------------
(***************************************************************************)
(* What CreateVolume (controllerserver.go) decides before it touches the   *)
(* database, and what ValidateVolumeCapabilities later confirms about the  *)
(* volume that request produced.                                           *)
(*                                                                         *)
(* A capability is [access, mode]: its access type ("block", "mount" or    *)
(* "none" when the oneof is unset) and whether its access mode is          *)
(* SINGLE_NODE_WRITER ("single") or another one ("multi").  The type        *)
(* parameter is "disk", "folder", another string, or missing.              *)
(***************************************************************************)
EXTENDS Capacity

CONSTANTS CapabilitySets, \* the sets of capabilities a request may carry
          Bytes           \* the RequiredBytes a request may carry

ASSUME AdmissionAssumption == Bytes \subseteq Int64

Types == {"disk", "folder", "other", "missing"}

Requests == [caps: CapabilitySets, type: Types, bytes: Bytes]

HasAccess(q, a) == \E cap \in q.caps : cap.access = a

(* Mutant of AllSingle: one capability that names the single writer is enough. *)
SomeSingle(caps) == caps = {} \/ \E cap \in caps : cap.mode = "single"

AllSingle(caps) == \A cap \in caps : cap.mode = "single"

(* isBlock as the capability loop and the type parameter leave it.         *)
IsBlock(q) == HasAccess(q, "block") \/ q.type = "disk"

(* The validation of CreateVolume: the first check that fails answers.     *)
Verdict(q) ==
    CASE q.caps = {}                                    -> "InvalidArgument"
      [] HasAccess(q, "block") /\ HasAccess(q, "mount") -> "InvalidArgument"
      [] q.type = "missing"                             -> "InvalidArgument"
      [] q.type = "folder" /\ HasAccess(q, "block")     -> "InvalidArgument"
      [] ~WithinLimit(q.bytes)                          -> "OutOfRange"
      [] IsBlock(q) /\ ~AllSingle(q.caps)               -> "InvalidArgument"
      [] OTHER                                          -> "OK"

(* Mutant of Confirms: the access mode is looked at for folders too. *)
ConfirmsSingleOnly(isBlock, caps) ==
    caps # {} /\ \A cap \in caps : cap.access # "none" /\ cap.mode = "single"

(* ValidateVolumeCapabilities on a volume that exists.                     *)
Confirms(isBlock, caps) ==
    /\ caps # {}
    /\ \A cap \in caps :
          /\ cap.access # "none"
          /\ isBlock => cap.mode = "single"

-----------------------------------------------------------------------------
(***************************************************************************)
(* One caller: CreateVolume requests are answered, and an admitted one     *)
(* leaves a volume, whose capabilities are then validated and whose        *)
(* capacity is expanded.                                                   *)
(***************************************************************************)
VARIABLES call,      \* the last call: its operation, capabilities and bytes
          verdict,   \* its answer
          volume     \* the volume the admitted CreateVolume made

vars == <<call, verdict, volume>>

NoVolume == [exists |-> FALSE, block |-> FALSE, type |-> "missing",
             caps |-> {}, capacity |-> 0]

Init ==
    /\ call = [op |-> "none", caps |-> {}, bytes |-> 0]
    /\ verdict = "none"
    /\ volume = NoVolume

(* CreateVolume of a name that is not in the database.                     *)
Create(q) ==
    /\ ~volume.exists
    /\ call' = [op |-> "create", caps |-> q.caps, bytes |-> q.bytes]
    /\ verdict' = Verdict(q)
    /\ volume' = IF Verdict(q) = "OK"
                 THEN [exists |-> TRUE, block |-> IsBlock(q), type |-> q.type,
                       caps |-> q.caps, capacity |-> FixCapacity(q.bytes)]
                 ELSE NoVolume

Validate(caps) ==
    /\ volume.exists
    /\ call' = [op |-> "validate", caps |-> caps, bytes |-> 0]
    /\ verdict' = IF Confirms(volume.block, caps) THEN "OK" ELSE "InvalidArgument"
    /\ UNCHANGED volume

(* ControllerExpandVolume with no fault below it: a capacity that is not   *)
(* larger is answered OK with the capacity the volume has.                 *)
Expand(bytes) ==
    /\ volume.exists
    /\ call' = [op |-> "expand", caps |-> volume.caps, bytes |-> bytes]
    /\ verdict' = IF WithinLimit(bytes) THEN "OK" ELSE "OutOfRange"
    /\ volume' = IF WithinLimit(bytes) /\ FixCapacity(bytes) > volume.capacity
                 THEN [volume EXCEPT !.capacity = FixCapacity(bytes)]
                 ELSE volume

Next ==
    \/ \E q \in Requests : Create(q)
    \/ \E caps \in CapabilitySets : Validate(caps)
    \/ \E bytes \in Bytes : Expand(bytes)

Spec == Init /\ [][Next]_vars

-----------------------------------------------------------------------------
(* A capacity granted with OK is enough: the volume CreateVolume or        *)
(* ControllerExpandVolume answers OK for holds the bytes asked, is below   *)
(* the limit, is at least 1GiB and a multiple of 1MiB.  The hard part is   *)
(* fixCapacity at the edges of its ranges.                                 *)
GrantSuffices ==
    (call.op \in {"create", "expand"} /\ verdict = "OK") =>
        /\ volume.capacity >= AtLeastGiB(call.bytes)
        /\ volume.capacity < MaxStorage
        /\ volume.capacity % MiB = 0

(* OutOfRange is answered for a reason: CreateVolume and                   *)
(* ControllerExpandVolume refuse a capacity only when no multiple of 1MiB  *)
(* that holds the bytes asked is below the limit.                          *)
RefusalJustified ==
    verdict = "OutOfRange" => call.bytes > MaxStorage - MiB

(* The rounding gives away less than 1MiB: whenever a call sets the        *)
(* capacity of the volume, the multiple of 1MiB below it would not have    *)
(* held the bytes that call asked for (fixCapacity).                       *)
GrantIsLeast ==
    [][volume'.capacity # volume.capacity =>
            volume'.capacity - MiB < AtLeastGiB(call'.bytes)]_vars

(* CreateVolume and ValidateVolumeCapabilities judge alike: the            *)
(* capabilities a volume was created with are confirmed for it, unless one *)
(* of them has neither access type (CreateVolume does not look).           *)
AdmittedIsConfirmed ==
    (/\ call.op = "validate" /\ call.caps = volume.caps
     /\ \A cap \in call.caps : cap.access # "none") => verdict = "OK"

TypeOK ==
    /\ call \in [op: {"none", "create", "validate", "expand"},
                 caps: CapabilitySets \cup {{}}, bytes: Bytes \cup {0}]
    /\ verdict \in {"none", "OK", "InvalidArgument", "OutOfRange"}
    /\ volume \in [exists: BOOLEAN, block: BOOLEAN, type: Types,
                   caps: CapabilitySets \cup {{}}, capacity: 0 .. MaxStorage - 1]
=============================================================================
