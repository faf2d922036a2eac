----------------------------- MODULE Controller -----------------------------
(***************************************************************************)
(* The controller service (controllerserver.go over the VolumeHelper of    *)
(* utils.go): CreateVolume, DeleteVolume and ControllerExpandVolume.  Each *)
(* controller process runs one of them at a time (controllerServer.mutex); *)
(* several processes share the storage.  One action is one statement of    *)
(* the database or one file operation, so that handlers of different       *)
(* processes interleave between any two of them, and every one of them may *)
(* fail.  Requests that validation rejects (module Admission) change       *)
(* nothing and are left out.                                               *)
(***************************************************************************)
EXTENDS Storage, Capacity

CONSTANTS Controllers,   \* controller processes
          CreateReqs,    \* admitted CreateVolume requests
          ExpandBytes    \* RequiredBytes of ControllerExpandVolume

ASSUME ControllerAssumption ==
    /\ CreateReqs \subseteq [info: Infos, bytes: Int]
    /\ ExpandBytes \subseteq Int
    /\ \A q \in CreateReqs : WithinLimit(q.bytes) /\ NoOverflow(q.bytes)
    /\ \A bytes \in ExpandBytes : NoOverflow(bytes)

VARIABLES
    h,        \* h[c]: the handler controller c runs
    created,  \* history: volumes a CreateVolume answered OK with
    promised, \* history: the largest capacity answered OK for a volume
    doomed,   \* history: volumes some DeleteVolume was called for
    gone      \* history: volumes some DeleteVolume answered OK for

history == <<created, promised, doomed, gone>>
controllerVars == <<h, created, promised, doomed, gone>>
vars == <<rowState, rowInfo, rowCap, disk, sym, faults,
          h, created, promised, doomed, gone>>

(* Where a handler is: the next statement it runs.                         *)
Labels == {"idle",
    "c_name", "c_get", "c_stat", "c_refill",
    "c_insert", "c_fill", "c_link", "c_commit", "c_undo", "c_unlink",
    "d_get", "d_reget", "d_row", "d_link", "d_data", "d_commit",
    "e_get", "e_row", "e_stat", "e_dd", "e_commit"}

(* vol: the volume worked on; info, want: the name, claim, kind and fixed  *)
(* capacity requested; old: the capacity ControllerExpandVolume read.      *)
Idle == [at |-> "idle", vol |-> NoVol, info |-> NoInfo, want |-> 0, old |-> 0]

Init ==
    /\ StorageInit
    /\ h = [c \in Controllers |-> Idle]
    /\ created = {} /\ doomed = {} /\ gone = {}
    /\ promised = [v \in Vols |-> 0]

(* Capacities the limit of both handlers lets through.                     *)
Capacities == 0 .. MaxStorage - 1

Handlers == [at: Labels, vol: Vols \cup {NoVol}, info: Infos \cup {NoInfo},
             want: Capacities, old: Capacities]

TypeOK ==
    /\ StorageTypeOK
    /\ rowCap \in [Vols -> Capacities]
    /\ disk \in [Vols -> Capacities \cup {Absent}]
    /\ h \in [Controllers -> Handlers]
    /\ \A c \in Controllers :
          h[c].at \in {"idle", "c_name", "c_insert"} \/ h[c].vol \in Vols
    /\ created \in SUBSET Vols /\ doomed \in SUBSET Vols /\ gone \in SUBSET Vols
    /\ promised \in [Vols -> Capacities]

At(c, label) == h[c].at = label

Goto(c, label) == h' = [h EXCEPT ![c] = [@ EXCEPT !.at = label]]

(* The handler returns; whatever it answered, its locals are gone.         *)
Return(c) == h' = [h EXCEPT ![c] = Idle]

AnswerCreated(c, v, capacity) ==
    /\ created' = created \cup {v}
    /\ promised' = [promised EXCEPT ![v] = IF capacity > @ THEN capacity ELSE @]
    /\ Return(c)
    /\ UNCHANGED <<doomed, gone>>

AnswerExpanded(c, v, capacity) ==
    /\ promised' = [promised EXCEPT ![v] = IF capacity > @ THEN capacity ELSE @]
    /\ Return(c)
    /\ UNCHANGED <<created, doomed, gone>>

AnswerDeleted(c, v) ==
    /\ gone' = gone \cup {v}
    /\ Return(c)
    /\ UNCHANGED <<created, promised, doomed>>

AnswerError(c) == Return(c) /\ UNCHANGED history

-----------------------------------------------------------------------------
(* CreateVolume *)

CreateCall(c, q) ==
    /\ At(c, "idle")
    /\ h' = [h EXCEPT ![c] = [at |-> "c_name", vol |-> NoVol, info |-> q.info,
                              want |-> FixCapacity(q.bytes), old |-> 0]]
    /\ UNCHANGED <<storageVars, history>>

(* GetVolumeIdByName: any error, not only "record not found", sends the    *)
(* handler on to make a new volume.                                        *)
CreateName(c) ==
    /\ At(c, "c_name")
    /\ \/ /\ \E v \in Vols :
                /\ IsFirstNamed(h[c].info.name, v)
                /\ h' = [h EXCEPT ![c] = [@ EXCEPT !.at = "c_get", !.vol = v]]
          /\ NoFault
       \/ Named(h[c].info.name) = {} /\ Goto(c, "c_insert") /\ NoFault
       \/ Goto(c, "c_insert") /\ Fault("read")
    /\ UNCHANGED <<rowState, rowInfo, rowCap, disk, sym, history>>

(* The row is read once: capacity is the copy later steps compare with.    *)
CreateGet(c) ==
    /\ At(c, "c_get")
    /\ \/ /\ Found(h[c].vol) /\ NoFault
          /\ h' = [h EXCEPT ![c] = [@ EXCEPT !.at = "c_stat", !.old = rowCap[h[c].vol]]]
          /\ UNCHANGED history
       \/ ~Found(h[c].vol) /\ AnswerError(c) /\ NoFault
       \/ AnswerError(c) /\ Fault("read")
    /\ UNCHANGED <<rowState, rowInfo, rowCap, disk, sym>>

(* The volume that was found is the one the request asks for.              *)
Suits(v, r) == r.old = r.want /\ rowInfo[v].block = r.info.block

(* The Lstat of PopulateVolumeIfRequired on the volume that was found.     *)
CreateStat(c) ==
    LET v == h[c].vol IN
    /\ At(c, "c_stat")
    /\ \/ Missing(v) /\ Goto(c, "c_refill") /\ NoFault /\ UNCHANGED history
       \/ ~Missing(v) /\ Suits(v, h[c]) /\ NoFault /\ AnswerCreated(c, v, h[c].want)
       \/ ~Missing(v) /\ ~Suits(v, h[c]) /\ NoFault /\ AnswerError(c)
       \/ AnswerError(c) /\ Fault("fs")
    /\ UNCHANGED <<rowState, rowInfo, rowCap, disk, sym>>

(* The dd or MkdirAll that follows on a path Lstat found absent; the       *)
(* answer is then OK without comparing.  A dd that fails may have made an  *)
(* empty file.                                                             *)
CreateRefill(c) ==
    LET v == h[c].vol IN
    /\ At(c, "c_refill")
    /\ \/ /\ disk' = [disk EXCEPT ![v] = Populated(rowInfo[v].block, h[c].old)]
          /\ NoFault /\ AnswerCreated(c, v, h[c].want)
       \/ /\ \E d \in {disk[v], 0} : disk' = [disk EXCEPT ![v] = d]
          /\ Fault("fs") /\ AnswerError(c)
    /\ UNCHANGED <<rowState, rowInfo, rowCap, sym>>

(* Mutant of Inserted: the row is inserted with vh.db, not with the transaction. *)
InsertedAtOnce == "live"

(* tx.Create: no one else sees the row yet.                                *)
Inserted == "open"

(* The name is taken to be new: the parameters are looked up, the prefix   *)
(* directory made, a transaction opened and the row inserted in it.        *)
CreateInsert(c) ==
    /\ At(c, "c_insert")
    /\ \/ /\ h[c].info.claim # "missing" /\ NoFault
          /\ \E v \in Vols :
                /\ Fresh(v)
                /\ rowState' = [rowState EXCEPT ![v] = Inserted]
                /\ rowInfo' = [rowInfo EXCEPT ![v] = h[c].info]
                /\ rowCap' = [rowCap EXCEPT ![v] = h[c].want]
                /\ h' = [h EXCEPT ![c] = [@ EXCEPT !.at = "c_fill", !.vol = v]]
          /\ UNCHANGED history
       \/ /\ h[c].info.claim = "missing" \/ \A v \in Vols : ~Fresh(v)
          /\ NoFault /\ AnswerError(c) /\ UNCHANGED <<rowState, rowInfo, rowCap>>
       \/ /\ h[c].info.claim # "missing"
          /\ Fault("write") \/ Fault("fs")
          /\ AnswerError(c) /\ UNCHANGED <<rowState, rowInfo, rowCap>>
    /\ UNCHANGED <<disk, sym>>

RollBack(v) == rowState' = [rowState EXCEPT ![v] = "void"]

(* PopulateVolumeIfRequired of the new volume, whose path no one else      *)
(* knows yet.                                                              *)
CreateFill(c) ==
    LET v == h[c].vol IN
    /\ At(c, "c_fill")
    /\ \/ /\ disk' = [disk EXCEPT ![v] = Populated(h[c].info.block, h[c].want)]
          /\ Goto(c, "c_link") /\ NoFault /\ UNCHANGED <<rowState, history>>
       \/ /\ \E d \in {disk[v], 0} : disk' = [disk EXCEPT ![v] = d]
          /\ RollBack(v) /\ Fault("fs") /\ AnswerError(c)
    /\ UNCHANGED <<rowInfo, rowCap, sym>>

CreateLink(c) ==
    /\ At(c, "c_link")
    /\ \/ sym' = Linked(sym, h[c].info.claim, h[c].vol) /\ NoFault
       \/ UNCHANGED sym /\ Fault("fs")
    /\ Goto(c, "c_commit")
    /\ UNCHANGED <<rowState, rowInfo, rowCap, disk, history>>

(* A COMMIT answered by an error may have been applied.                    *)
CreateCommit(c) ==
    LET v == h[c].vol IN
    /\ At(c, "c_commit")
    /\ \/ /\ rowState' = [rowState EXCEPT ![v] = "live"]
          /\ NoFault /\ AnswerCreated(c, v, h[c].want)
       \/ /\ \E s \in {"live", "void"} : rowState' = [rowState EXCEPT ![v] = s]
          /\ Fault("commit") /\ Goto(c, "c_undo") /\ UNCHANGED history
    /\ UNCHANGED <<rowInfo, rowCap, disk, sym>>

(* os.RemoveAll(volume_path); its error is ignored.                        *)
CreateUndo(c) ==
    /\ At(c, "c_undo")
    /\ \/ disk' = [disk EXCEPT ![h[c].vol] = Absent] /\ NoFault
       \/ UNCHANGED disk /\ Fault("fs")
    /\ Goto(c, "c_unlink")
    /\ UNCHANGED <<rowState, rowInfo, rowCap, sym, history>>

(* os.RemoveAll(symlink_file), whichever volume the link points to.        *)
CreateUnlink(c) ==
    /\ At(c, "c_unlink")
    /\ \/ sym' = Unlinked(sym, h[c].info.claim) /\ NoFault
       \/ UNCHANGED sym /\ Fault("fs")
    /\ AnswerError(c)
    /\ UNCHANGED <<rowState, rowInfo, rowCap, disk>>

-----------------------------------------------------------------------------
(* DeleteVolume *)

DeleteCall(c, v) ==
    /\ At(c, "idle")
    /\ h' = [h EXCEPT ![c] = [Idle EXCEPT !.at = "d_get", !.vol = v]]
    /\ doomed' = doomed \cup {v}
    /\ UNCHANGED <<storageVars, created, promised, gone>>

(* Mutant of DeleteGet: a failed query is taken for "record not found". *)
DeleteGetGivesUp(c) ==
    /\ At(c, "d_get")
    /\ \/ Found(h[c].vol) /\ Goto(c, "d_reget") /\ NoFault /\ UNCHANGED history
       \/ ~Found(h[c].vol) /\ AnswerDeleted(c, h[c].vol) /\ NoFault
       \/ AnswerDeleted(c, h[c].vol) /\ Fault("read")
    /\ UNCHANGED <<rowState, rowInfo, rowCap, disk, sym>>

(* Only "record not found" makes GetVolume return nil; an error is built   *)
(* and dropped, and the handler goes on.                                   *)
DeleteGet(c) ==
    /\ At(c, "d_get")
    /\ \/ Found(h[c].vol) /\ Goto(c, "d_reget") /\ NoFault /\ UNCHANGED history
       \/ ~Found(h[c].vol) /\ AnswerDeleted(c, h[c].vol) /\ NoFault
       \/ Goto(c, "d_reget") /\ Fault("read") /\ UNCHANGED history
    /\ UNCHANGED <<rowState, rowInfo, rowCap, disk, sym>>

(* The GetVolume of VolumeHelper.DeleteVolume.                             *)
DeleteReget(c) ==
    /\ At(c, "d_reget")
    /\ \/ Found(h[c].vol) /\ Goto(c, "d_row") /\ NoFault /\ UNCHANGED history
       \/ ~Found(h[c].vol) /\ AnswerError(c) /\ NoFault
       \/ AnswerError(c) /\ Fault("read")
    /\ UNCHANGED <<rowState, rowInfo, rowCap, disk, sym>>

(* The soft delete runs on vh.db, not on the transaction, so it is         *)
(* committed at once; its error is not looked at.                          *)
DeleteRow(c) ==
    LET v == h[c].vol IN
    /\ At(c, "d_row")
    /\ \/ /\ rowState' = [rowState EXCEPT ![v] = IF Found(v) THEN "dead" ELSE @]
          /\ NoFault
       \/ UNCHANGED rowState /\ Fault("write")
    /\ Goto(c, "d_link")
    /\ UNCHANGED <<rowInfo, rowCap, disk, sym, history>>

DeleteLink(c) ==
    /\ At(c, "d_link")
    /\ \/ sym' = Unlinked(sym, rowInfo[h[c].vol].claim) /\ NoFault
       \/ UNCHANGED sym /\ Fault("fs")
    /\ Goto(c, "d_data")
    /\ UNCHANGED <<rowState, rowInfo, rowCap, disk, history>>

DeleteData(c) ==
    /\ At(c, "d_data")
    /\ \/ /\ disk' = [disk EXCEPT ![h[c].vol] = Absent]
          /\ Goto(c, "d_commit") /\ NoFault /\ UNCHANGED history
       \/ UNCHANGED disk /\ Fault("fs") /\ AnswerError(c)
    /\ UNCHANGED <<rowState, rowInfo, rowCap, sym>>

(* The transaction is empty: its COMMIT decides the answer only.           *)
DeleteCommit(c) ==
    /\ At(c, "d_commit")
    /\ \/ AnswerDeleted(c, h[c].vol) /\ NoFault
       \/ AnswerError(c) /\ Fault("commit")
    /\ UNCHANGED <<rowState, rowInfo, rowCap, disk, sym>>

-----------------------------------------------------------------------------
(* ControllerExpandVolume *)

ExpandCall(c, v, bytes) ==
    /\ At(c, "idle")
    /\ WithinLimit(bytes)
    /\ h' = [h EXCEPT ![c] = [Idle EXCEPT !.at = "e_get", !.vol = v,
                                          !.want = FixCapacity(bytes)]]
    /\ UNCHANGED <<storageVars, history>>

(* Mutant of IsLarger: any other capacity is an expansion. *)
IsOther(want, capacity) == want # capacity

IsLarger(want, capacity) == want > capacity

ExpandGet(c) ==
    LET v == h[c].vol IN
    /\ At(c, "e_get")
    /\ \/ /\ Found(v) /\ IsLarger(h[c].want, rowCap[v]) /\ NoFault
          /\ h' = [h EXCEPT ![c] = [@ EXCEPT !.at = "e_row", !.old = rowCap[v]]]
          /\ UNCHANGED history
       \/ /\ Found(v) /\ ~IsLarger(h[c].want, rowCap[v]) /\ NoFault
          /\ AnswerExpanded(c, v, rowCap[v])
       \/ ~Found(v) /\ AnswerError(c) /\ NoFault
       \/ AnswerError(c) /\ Fault("read")
    /\ UNCHANGED <<rowState, rowInfo, rowCap, disk, sym>>

(* Mutant of AfterRow: the file is left as it is. *)
RowOnly(v) == "e_commit"

(* Only a block volume has a file to extend.                               *)
AfterRow(v) == IF rowInfo[v].block THEN "e_stat" ELSE "e_commit"

(* The update, too, runs on vh.db and is committed at once: no later       *)
(* Rollback undoes it.                                                     *)
ExpandRow(c) ==
    LET v == h[c].vol IN
    /\ At(c, "e_row")
    /\ \/ /\ rowCap' = [rowCap EXCEPT ![v] = IF Found(v) THEN h[c].want ELSE @]
          /\ Goto(c, AfterRow(v))
          /\ NoFault /\ UNCHANGED history
       \/ UNCHANGED rowCap /\ AnswerError(c) /\ Fault("write")
       \/ /\ rowCap' = [rowCap EXCEPT ![v] = IF Found(v) THEN h[c].want ELSE @]
          /\ AnswerError(c) /\ Fault("commit")
    /\ UNCHANGED <<rowState, rowInfo, disk, sym>>

ExpandStat(c) ==
    LET v == h[c].vol IN
    /\ At(c, "e_stat")
    /\ \/ disk[v] = h[c].old /\ Goto(c, "e_dd") /\ NoFault /\ UNCHANGED history
       \/ disk[v] # h[c].old /\ AnswerError(c) /\ NoFault
       \/ AnswerError(c) /\ Fault("fs")
    /\ UNCHANGED <<rowState, rowInfo, rowCap, disk, sym>>

(* dd sets the size of the file, and makes the file where it is gone.      *)
ExpandFile(c) ==
    /\ At(c, "e_dd")
    /\ \/ /\ disk' = [disk EXCEPT ![h[c].vol] = h[c].want]
          /\ Goto(c, "e_commit") /\ NoFault /\ UNCHANGED history
       \/ UNCHANGED disk /\ AnswerError(c) /\ Fault("fs")
    /\ UNCHANGED <<rowState, rowInfo, rowCap, sym>>

ExpandCommit(c) ==
    /\ At(c, "e_commit")
    /\ \/ AnswerExpanded(c, h[c].vol, h[c].want) /\ NoFault
       \/ AnswerError(c) /\ Fault("commit")
    /\ UNCHANGED <<rowState, rowInfo, rowCap, disk, sym>>

-----------------------------------------------------------------------------
(* The process ends: the database rolls its open transaction back.         *)
Crash(c) ==
    /\ ~At(c, "idle")
    /\ rowState' = [v \in Vols |-> IF h[c].vol = v /\ rowState[v] = "open"
                                   THEN "void" ELSE rowState[v]]
    /\ AnswerError(c) /\ Fault("crash")
    /\ UNCHANGED <<rowInfo, rowCap, disk, sym>>

(* A call comes with a volume id its caller was given.                     *)
Call(c) ==
    \/ \E q \in CreateReqs : CreateCall(c, q)
    \/ \E v \in created : DeleteCall(c, v)
    \/ \E v \in created, bytes \in ExpandBytes : ExpandCall(c, v, bytes)

Step(c) ==
    \/ CreateName(c) \/ CreateGet(c) \/ CreateStat(c) \/ CreateRefill(c)
    \/ CreateInsert(c) \/ CreateFill(c) \/ CreateLink(c) \/ CreateCommit(c)
    \/ CreateUndo(c) \/ CreateUnlink(c)
    \/ DeleteGet(c) \/ DeleteReget(c) \/ DeleteRow(c) \/ DeleteLink(c)
    \/ DeleteData(c) \/ DeleteCommit(c)
    \/ ExpandGet(c) \/ ExpandRow(c) \/ ExpandStat(c) \/ ExpandFile(c)
    \/ ExpandCommit(c)

ControllerNext(c) == Call(c) \/ Step(c) \/ Crash(c)

Next == \E c \in Controllers : ControllerNext(c)

Spec == Init /\ [][Next]_vars
-----------------------------------------------------------------------------
(* The volumes callers were told they have, and did not ask to delete.     *)
Held == created \ doomed

(* A volume CreateVolume answered OK for has its row and its data until    *)
(* some DeleteVolume is called for it, whatever failed, crashed or was     *)
(* retried in between: the insert, the populating of the path and the      *)
(* undo after a failed COMMIT never leave an answered volume half made.    *)
AckedHasData == \A v \in Held : rowState[v] = "live" /\ disk[v] # Absent

(* Two volumes of one name: what a retried CreateVolume must not make      *)
(* ("Volume already exists", controllerserver.go:205).                     *)
OneVolumePerName ==
    \A u, v \in Vols :
        (Found(u) /\ Found(v) /\ rowInfo[u].name = rowInfo[v].name) => u = v

(* A capacity answered OK by CreateVolume or ControllerExpandVolume is     *)
(* there, as long as only SELECTs fail: the row says so, and the file of a *)
(* block volume has that size.                                             *)
PromiseKept ==
    OnlyReadsFailed =>
        \A v \in Held :
            /\ rowCap[v] >= promised[v]
            /\ rowInfo[v].block => disk[v] >= promised[v]

(* After DeleteVolume answered OK nothing of the volume is left, and a     *)
(* later call brings nothing back ("Any data should not be exists",        *)
(* utils_test.go:83).                                                      *)
DeletedLeavesNothing == \A v \in gone : rowState[v] = "dead" /\ disk[v] = Absent

(* So much holds: failed SELECTs alone never make an answered deletion     *)
(* incomplete, nor a later call undo it.                                   *)
DeletionHolds == OnlyReadsFailed => DeletedLeavesNothing

(* The row and the file of a block volume agree on its size whenever no    *)
(* handler is between the two: UpdateVolumeCapacity writes the row first,  *)
(* and "tran will be rollbacked" (utils.go:268) where the file fails.      *)
(* Rollback has nothing to undo, so this is for failed SELECTs only.       *)
Expanding(v) == \E c \in Controllers : h[c].vol = v /\ h[c].at \in {"e_stat", "e_dd"}

SizeMatchesRow ==
    OnlyReadsFailed =>
        \A v \in Vols :
            (Found(v) /\ rowInfo[v].block /\ disk[v] # Absent /\ ~Expanding(v))
                => disk[v] = rowCap[v]

(* ControllerExpandVolume never shrinks: the Capacity of a committed row   *)
(* does not go down.                                                       *)
CapacityNeverShrinks ==
    [][\A v \in Vols : Found(v) => rowCap'[v] >= rowCap[v]]_vars

(* No dd, whether of a retry, of an expansion or of a repopulation, cuts   *)
(* the data of a volume callers hold.                                      *)
DataNeverTruncated ==
    [][\A v \in Held : (v \in Held' /\ disk[v] # Absent) => disk'[v] >= disk[v]]_vars

(* What callers can rely on: the controller implements VolumeCatalog, the  *)
(* catalog being the committed rows.  Names stay unique, capacities only   *)
(* grow, an OK of CreateVolume or ControllerExpandVolume is given for a    *)
(* live row of at least that capacity, an OK of DeleteVolume for a deleted *)
(* one.                                                                    *)
IsCommitted(v) == rowState[v] \in {"live", "dead"}

CatalogState(v) ==
    IF rowState[v] = "live" THEN "live"
    ELSE IF rowState[v] = "dead" THEN "gone" ELSE "free"

Catalog == INSTANCE VolumeCatalog WITH
    Ids <- Vols, VolNames <- Names, Capacities <- Capacities,
    state <- [v \in Vols |-> CatalogState(v)],
    name <- [v \in Vols |-> IF IsCommitted(v) THEN rowInfo[v].name ELSE "none"],
    capacity <- [v \in Vols |-> IF IsCommitted(v) THEN rowCap[v] ELSE 0],
    held <- created, granted <- promised, freed <- gone

ImplementsCatalog == Catalog!Spec

-----------------------------------------------------------------------------
(***************************************************************************)
(* The inductive invariant behind AckedHasData.  It holds unless several   *)
(* controllers run and the outcome of a COMMIT may be unknown: then one    *)
(* controller can answer for the volume another is about to undo.          *)
(***************************************************************************)
SoloOrCertain ==
    "commit" \notin FaultKinds \/ \A c, d \in Controllers : c = d

InTransaction(c) == h[c].at \in {"c_fill", "c_link", "c_commit"}

(* What each handler may rely on between two of its steps, as far as rows  *)
(* and answers go.                                                         *)
HandlerOK(c) ==
    LET v == h[c].vol
        l == h[c].at IN
    /\ l \in {"idle", "c_name", "c_insert"} => v = NoVol
    /\ InTransaction(c) => v \in Vols /\ rowState[v] = "open"
    /\ l \in {"c_get", "c_stat", "c_refill",
              "e_get", "e_row", "e_stat", "e_dd", "e_commit"}
          => v \in Vols /\ IsCommitted(v)
    /\ l \in {"d_get", "d_reget", "d_row", "d_link", "d_data", "d_commit"}
          => v \in doomed /\ IsCommitted(v)
    /\ l = "c_undo" => v \notin created /\ "commit" \in FaultKinds
    /\ l \in {"c_undo", "c_unlink"} => v \in Vols /\ rowState[v] \in {"live", "dead", "void"}

OwnTransaction ==
    \A c, d \in Controllers :
        (InTransaction(c) /\ InTransaction(d) /\ h[c].vol = h[d].vol) => c = d

AnswersCommitted == \A v \in created : IsCommitted(v)

DeletedWhenAsked ==
    /\ doomed \subseteq created
    /\ \A v \in Vols : rowState[v] = "dead" => v \in doomed

RowsInv ==
    /\ AnswersCommitted
    /\ DeletedWhenAsked
    /\ OwnTransaction
    /\ \A c \in Controllers : HandlerOK(c)

(* What it populated is there until the COMMIT: while no clean-up runs.    *)
Filled(c) == h[c].at \in {"c_link", "c_commit"} => disk[h[c].vol] # Absent

IInv ==
    /\ RowsInv
    /\ AckedHasData
    /\ \A c \in Controllers : Filled(c)
=============================================================================
