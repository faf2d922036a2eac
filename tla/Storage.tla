------------------------------- MODULE Storage -------------------------------
(***************************************************************************)
(* The state every process of the driver shares: the rows of the volumes   *)
(* table, and the shared file system that holds the data of each volume    *)
(* (vols/xx/yy/zz/<volid>) and one symbolic link per namespace and claim   *)
(* (syms/<namespace>/<pvc>).                                               *)
(*                                                                         *)
(* A volume is named by its StorageID, the value the table's sequence      *)
(* gives its row; its random VolID and its VolPath are unique too, so the  *)
(* model keeps one identity for all three.                                 *)
(***************************************************************************)
EXTENDS Integers, FiniteSets

CONSTANTS MaxVols,     \* bound: rows inserted over a behaviour
          Names,       \* volume names (VolName) callers use
          Claims,      \* namespace and claim name pairs
          MaxFaults,   \* bound: faults over a behaviour
          FaultKinds   \* the faults that may happen, see Fault

ASSUME StorageAssumption ==
    /\ MaxVols \in Nat /\ MaxFaults \in Nat
    /\ "missing" \notin Claims

Vols == 1 .. MaxVols

NoVol == 0

VARIABLES
    rowState, \* none: never inserted; open: inserted by an uncommitted
              \* transaction; live: committed, deleted_at null; dead: soft
              \* deleted; void: its transaction was rolled back
    rowInfo,  \* VolName, NSName/PVCName and IsBlock of the row
    rowCap,   \* its Capacity column
    disk,     \* what is at VolPath: Absent, or the size of the block file
              \* (0 for a directory or an empty file)
    sym,      \* the volume the link of a claim points to, or NoVol
    faults    \* history: how many faults there were, and whether all of
              \* them were failed SELECTs

storageVars == <<rowState, rowInfo, rowCap, disk, sym, faults>>

Absent == -1

Infos == [name: Names, claim: Claims \cup {"missing"}, block: BOOLEAN]

NoInfo == [name |-> "none", claim |-> "missing", block |-> FALSE]

FaultHistories == [count: 0 .. MaxFaults, reads: BOOLEAN]

StorageInit ==
    /\ rowState = [v \in Vols |-> "none"]
    /\ rowInfo = [v \in Vols |-> NoInfo]
    /\ rowCap = [v \in Vols |-> 0]
    /\ disk = [v \in Vols |-> Absent]
    /\ sym = [k \in Claims |-> NoVol]
    /\ faults = [count |-> 0, reads |-> TRUE]

StorageTypeOK ==
    /\ rowState \in [Vols -> {"none", "open", "live", "dead", "void"}]
    /\ rowInfo \in [Vols -> Infos \cup {NoInfo}]
    /\ sym \in [Claims -> Vols \cup {NoVol}]
    /\ faults \in FaultHistories

(***************************************************************************)
(* What may fail.  read: a SELECT; write: an INSERT or UPDATE, or opening  *)
(* the transaction of the insert; commit: a COMMIT is answered by an       *)
(* error, whether or not the server applied it; fs: a file operation;      *)
(* crash: the process ends.                                                *)
(***************************************************************************)
Fault(kind) ==
    /\ kind \in FaultKinds
    /\ faults.count < MaxFaults
    /\ faults' = [count |-> faults.count + 1, reads |-> faults.reads /\ kind = "read"]

NoFault == faults' = faults

OnlyReadsFailed == faults.reads

(* Mutant of Found: Unscoped(), soft-deleted rows are seen too. *)
FoundUnscoped(v) == rowState[v] \in {"live", "dead"}

(* SELECT ... WHERE vol_id = v: gorm adds deleted_at IS NULL, and a row of *)
(* an uncommitted transaction is not seen.                                 *)
Found(v) == rowState[v] = "live"

(* Mutant of Named: the lookup by another column. *)
NamedByClaim(n) == {v \in Vols : Found(v) /\ rowInfo[v].claim = n}

(* GetVolumeIdByName: VolName is not unique; First takes the least         *)
(* StorageID.                                                              *)
Named(n) == {v \in Vols : Found(v) /\ rowInfo[v].name = n}

IsFirstNamed(n, v) == v \in Named(n) /\ \A u \in Named(n) : v <= u

(* The next value of the sequence of StorageID.                            *)
Fresh(v) == rowState[v] = "none" /\ \A u \in Vols : u < v => rowState[u] # "none"

(* Mutant of Missing: the path is not looked at. *)
NeverMissing(v) == FALSE

(* Mutant of Populated: the file is made but not extended. *)
EmptyFile(isBlock, capacity) == 0

(* What Lstat of PopulateVolumeIfRequired reports: nothing at VolPath.     *)
Missing(v) == disk[v] = Absent

(* What PopulateVolumeIfRequired leaves at an absent path: a directory, or *)
(* a sparse file dd extends to the capacity.                               *)
Populated(isBlock, capacity) == IF isBlock THEN capacity ELSE 0

(* os.Symlink fails where a file exists, and CreateVolume and              *)
(* ReBuildSymLinks go on.                                                  *)
Linked(links, k, v) == IF links[k] = NoVol THEN [links EXCEPT ![k] = v] ELSE links

Unlinked(links, k) == [links EXCEPT ![k] = NoVol]
=============================================================================
