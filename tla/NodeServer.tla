----------------------------- MODULE NodeServer -----------------------------
(***************************************************************************)
(* The node service of one node (nodeserver.go): NodePublishVolume,        *)
(* NodeUnpublishVolume and NodeExpandVolume over the kernel's mounts and   *)
(* the loop devices of volumehelpers/volume_path_handler_linux.go.  Calls  *)
(* run concurrently, without a lock; one action is one query, one losetup  *)
(* or one file operation.  A target path belongs to one volume and one way *)
(* to publish it, which fits the volume; publishing only volumes that have *)
(* their row and their data is the callers' affair.                        *)
(***************************************************************************)
EXTENDS Integers, Sequences, FiniteSets

CONSTANTS Targets,      \* target paths on the node
          Volumes,      \* volumes published on it
          Uses,         \* what target paths may be for: functions to Publications
          Calls,        \* calls that may run at the same time
          Overlaps,     \* may calls overlap that callers make in turn?
          MaxDevices,   \* bound: loop devices of the node
          MaxSize,      \* bound: sizes a block file grows to
          MaxFaults,    \* bound: faults over a behaviour
          FaultKinds    \* the faults that may happen, see Fault

(* raw: the block device itself; disk: a file system on it; folder: the    *)
(* directory of the volume.                                                *)
Publications == [vol: Volumes, kind: {"raw", "disk", "folder"}, ro: BOOLEAN]

Devices == 1 .. MaxDevices
NoDevice == 0
NoVolume == "none"
NoTarget == "none"

(* A volume is a block volume for all its targets or for none.             *)
ASSUME NodeAssumption ==
    /\ MaxDevices \in Nat /\ MaxFaults \in Nat /\ MaxSize \in Nat \ {0}
    /\ Overlaps \in BOOLEAN
    /\ NoVolume \notin Volumes /\ NoTarget \notin Targets
    /\ Uses \subseteq [Targets -> Publications]
    /\ \A u \in Uses : \A s, t \in Targets :
          u[s].vol = u[t].vol => (u[s].kind = "folder" <=> u[t].kind = "folder")

NoLoop == [vol |-> NoVolume, size |-> 0, closing |-> FALSE]

VARIABLES
    use,        \* use[t]: what t is for, the same over a behaviour
    path,       \* what is at a target path: none, file or dir
    mounts,     \* the layers mounted on it, the top one first
    loop,       \* the file a loop device stands for, the size it knows
                \* and whether it goes when its last user goes
    file,       \* the size of the file of a block volume
    fsys,       \* the size of the file system in it, 0 for none
    intact,     \* the volumes whose content nothing wiped
    npvi,       \* NodePublishVolumeInfo rows of a target; 2 for several
    call,       \* call[c]: the call c runs
    published,  \* history: the last call for t was a publish answered OK
    gone,       \* history: the last call for t was an unpublish answered OK
    fits,       \* history: the largest file NodeExpandVolume answered OK for
    faults      \* faults so far

kernel == <<use, path, mounts, loop, file, fsys, intact>>
answers == <<published, gone, fits>>
nodeVars == <<use, path, mounts, loop, file, fsys, intact, npvi, call,
              published, gone, fits, faults>>

CallLabels == {"idle",
    "p_get", "p_find", "p_make", "p_target", "p_check", "p_mkdir", "p_mount",
    "p_chmod", "p_row", "p_undo", "p_clear",
    "u_get", "u_check", "u_unmount", "u_find", "u_detach", "u_remove", "u_row",
    "x_get", "x_find", "x_reread", "x_check", "x_resize"}

(* dev: the loop device found or made; asked: the size of the file when    *)
(* NodeExpandVolume was called.                                            *)
NoCall == [at |-> "idle", target |-> NoTarget, dev |-> NoDevice, asked |-> 0]

Vol(t) == use[t].vol
Kind(t) == use[t].kind
OnBlock(t) == Kind(t) # "folder"

NodeInit ==
    /\ use \in Uses
    /\ path = [t \in Targets |-> "none"]
    /\ mounts = [t \in Targets |-> << >>]
    /\ loop = [d \in Devices |-> NoLoop]
    /\ file = [v \in Volumes |-> 1]
    /\ fsys = [v \in Volumes |-> 0]
    /\ intact = Volumes
    /\ npvi = [t \in Targets |-> 0]
    /\ call = [c \in Calls |-> NoCall]
    /\ published = [t \in Targets |-> FALSE]
    /\ gone = [t \in Targets |-> FALSE]
    /\ fits = [v \in Volumes |-> 0]
    /\ faults = 0

(***************************************************************************)
(* read: a SELECT; write: an INSERT or DELETE of a row, applied or not;    *)
(* fs: a file operation or a mount; umount: an unmount; losetup: any       *)
(* losetup; crash: the plugin process ends.                                *)
(***************************************************************************)
Fault(kind) ==
    /\ kind \in FaultKinds
    /\ faults < MaxFaults
    /\ faults' = faults + 1

NoFault == faults' = faults

At(c, label) == call[c].at = label
T(c) == call[c].target
Goto(c, label) == call' = [call EXCEPT ![c] = [@ EXCEPT !.at = label]]
GotoWith(c, label, dev) ==
    call' = [call EXCEPT ![c] = [@ EXCEPT !.at = label, !.dev = dev]]
Return(c) == call' = [call EXCEPT ![c] = NoCall]
Fails(c) == Return(c) /\ UNCHANGED answers

(* A step that only looks, and decides where the call goes on.             *)
Looks(c, label, next, kind) ==
    /\ At(c, label)
    /\ \/ next # "return" /\ Goto(c, next) /\ NoFault
       \/ next = "return" /\ Return(c) /\ NoFault
       \/ Return(c) /\ Fault(kind)
    /\ UNCHANGED <<kernel, npvi, answers>>

-----------------------------------------------------------------------------
(* The kernel: mounts and loop devices *)

Mounted(t) == mounts[t] # << >>
Top(t) == Head(mounts[t])
Covered(t, d, readonly) ==
    [mounts EXCEPT ![t] = <<[dev |-> d, ro |-> readonly]>> \o @]

(* A mounted file system holds its device; a bind mount of the device node *)
(* does not.                                                               *)
HeldBy(m, d) ==
    \E t \in Targets : Kind(t) = "disk" /\ \E i \in DOMAIN m[t] : m[t][i].dev = d

(* A device told to detach goes when nothing holds it.                     *)
Settled(l, m) ==
    [d \in Devices |-> IF l[d].closing /\ ~HeldBy(m, d) THEN NoLoop ELSE l[d]]

(* umount takes the top layer off.                                         *)
Unmount(t) ==
    /\ Mounted(t)
    /\ mounts' = [mounts EXCEPT ![t] = Tail(@)]
    /\ loop' = Settled(loop, mounts')

(* A file system is not mounted on itself, and not formatted read-only.    *)
CanMount(t, d) ==
    /\ path[t] # "none"
    /\ Kind(t) = "disk" =>
          /\ loop[d].vol = Vol(t) /\ ~(Mounted(t) /\ Top(t).dev = d)
          /\ use[t].ro => fsys[Vol(t)] # 0

(* os.RemoveAll(targetPath).  On a mounted directory it removes what the   *)
(* volume holds and then fails on the mount point.                         *)
RemoveTarget(t) ==
    IF Mounted(t)
    THEN /\ intact' = IF Kind(t) = "raw" \/ Top(t).ro THEN intact
                      ELSE intact \ {Vol(t)}
         /\ UNCHANGED path
    ELSE /\ path' = [path EXCEPT ![t] = "none"]
         /\ UNCHANGED intact

LoopsOf(v) == {d \in Devices : loop[d].vol = v}

(* Mutant of FoundLoop: the output of losetup is never matched. *)
NeverFound(v) == NoDevice

(* GetLoopDevice: the first device losetup -j lists for the path.          *)
FoundLoop(v) ==
    IF LoopsOf(v) = {} THEN NoDevice
    ELSE CHOOSE d \in LoopsOf(v) : \A e \in LoopsOf(v) : d <= e

FindsLoop(c, label, found, missing) ==
    LET d == FoundLoop(Vol(T(c))) IN
    /\ At(c, label)
    /\ \/ d # NoDevice /\ GotoWith(c, found, d) /\ NoFault
       \/ d = NoDevice /\ missing # "return" /\ Goto(c, missing) /\ NoFault
       \/ d = NoDevice /\ missing = "return" /\ Return(c) /\ NoFault
       \/ Return(c) /\ Fault("losetup")
    /\ UNCHANGED <<kernel, npvi, answers>>

IsFirstFree(d) ==
    loop[d] = NoLoop /\ \A e \in Devices : loop[e] = NoLoop => d <= e

-----------------------------------------------------------------------------
(* NodePublishVolume *)

(* Callers wait for the answer of a call for a target, and of a call for   *)
(* the same block volume, before they make the next.                       *)
InTurn(t, other) ==
    /\ t # other
    /\ Vol(t) = Vol(other) => ~OnBlock(t)

MayCall(c, t) ==
    /\ At(c, "idle")
    /\ Overlaps \/ \A d \in Calls : ~At(d, "idle") => InTurn(t, T(d))

Start(c, t, label) ==
    /\ call' = [call EXCEPT ![c] = [at |-> label, target |-> t, dev |-> NoDevice,
                                    asked |-> file[Vol(t)]]]
    /\ UNCHANGED <<kernel, npvi, fits, faults>>

PublishCall(c, t) ==
    /\ MayCall(c, t)
    /\ Start(c, t, "p_get")
    /\ published' = [published EXCEPT ![t] = FALSE]
    /\ gone' = [gone EXCEPT ![t] = FALSE]

PublishGet(c) ==
    Looks(c, "p_get", IF Kind(T(c)) = "raw" THEN "p_find" ELSE "p_check", "read")

Attached(t) == IF Kind(t) = "raw" THEN "p_target" ELSE "p_mount"

(* AttachFileDevice looks for a device of the file ...                     *)
PublishFind(c) == FindsLoop(c, "p_find", Attached(T(c)), "p_make")

(* ... and makes one when it found none.                                   *)
PublishMake(c) ==
    LET v == Vol(T(c)) IN
    /\ At(c, "p_make")
    /\ \/ \E d \in Devices :
             /\ IsFirstFree(d) /\ NoFault
             /\ loop' = [loop EXCEPT ![d] = [vol |-> v, size |-> file[v],
                                             closing |-> FALSE]]
             /\ GotoWith(c, Attached(T(c)), d)
       \/ (\A d \in Devices : loop[d] # NoLoop) /\ Return(c) /\ NoFault /\ UNCHANGED loop
       \/ Return(c) /\ Fault("losetup") /\ UNCHANGED loop
    /\ UNCHANGED <<use, path, mounts, file, fsys, intact, npvi, answers>>

Made(t, what) == [path EXCEPT ![t] = IF @ = "none" THEN what ELSE @]

(* A raw volume is mounted on a file.                                      *)
PublishTarget(c) ==
    /\ At(c, "p_target")
    /\ \/ path' = Made(T(c), "file") /\ Goto(c, "p_check") /\ NoFault
       \/ path' \in {path, Made(T(c), "file")} /\ Return(c) /\ Fault("fs")
    /\ UNCHANGED <<use, mounts, loop, file, fsys, intact, npvi, answers>>

(* Mutant of LooksMounted: a target path that exists is taken for mounted. *)
PathThere(t) == path[t] # "none"

(* IsNotMountPoint says the target is one.                                 *)
LooksMounted(t) == Mounted(t)

(* Mutant of NotMounted: a disk is mounted without a loop device. *)
MountAtOnce(t) == "p_mount"

NotMounted(t) == IF Kind(t) = "disk" THEN "p_find" ELSE "p_mount"

AfterCheck(t) ==
    IF LooksMounted(t) THEN "p_chmod"
    ELSE IF path[t] = "none" /\ Kind(t) # "raw" THEN "p_mkdir" ELSE NotMounted(t)

PublishCheck(c) == Looks(c, "p_check", AfterCheck(T(c)), "fs")

PublishMkdir(c) ==
    /\ At(c, "p_mkdir")
    /\ \/ path' = Made(T(c), "dir") /\ Goto(c, NotMounted(T(c))) /\ NoFault
       \/ UNCHANGED path /\ Return(c) /\ Fault("fs")
    /\ UNCHANGED <<use, mounts, loop, file, fsys, intact, npvi, answers>>

Formatted(t, d) ==
    IF Kind(t) = "disk" /\ fsys[Vol(t)] = 0
    THEN [fsys EXCEPT ![Vol(t)] = loop[d].size] ELSE fsys

(* A bind mount, or FormatAndMount for a disk.  A bind mount is made        *)
(* read-only by a remount: when that fails it stays, writable.  A disk     *)
(* whose mount fails may have been formatted.                              *)
PublishMount(c) ==
    LET t == T(c)
        d == call[c].dev IN
    /\ At(c, "p_mount")
    /\ \/ /\ CanMount(t, d) /\ NoFault
          /\ mounts' = Covered(t, d, use[t].ro) /\ fsys' = Formatted(t, d)
          /\ Goto(c, "p_chmod")
       \/ ~CanMount(t, d) /\ Return(c) /\ NoFault /\ UNCHANGED <<mounts, fsys>>
       \/ /\ CanMount(t, d) /\ Return(c) /\ Fault("fs")
          /\ \/ Kind(t) # "disk" /\ mounts' = Covered(t, d, FALSE) /\ UNCHANGED fsys
             \/ Kind(t) = "disk" /\ fsys' = Formatted(t, d) /\ UNCHANGED mounts
             \/ UNCHANGED <<mounts, fsys>>
    /\ UNCHANGED <<use, path, loop, file, intact, npvi, answers>>

(* os.Chmod follows the mount, and fails where that is read-only.          *)
CanChmod(t) == path[t] # "none" /\ ~(Mounted(t) /\ Top(t).ro)

PublishChmod(c) ==
    /\ At(c, "p_chmod")
    /\ \/ CanChmod(T(c)) /\ Goto(c, "p_row") /\ NoFault
       \/ ~CanChmod(T(c)) /\ Goto(c, "p_undo") /\ NoFault
       \/ Goto(c, "p_undo") /\ Fault("fs")
    /\ UNCHANGED <<kernel, npvi, answers>>

Recorded(t) == [npvi EXCEPT ![t] = IF @ = 0 THEN 1 ELSE 2]

(* Nothing keeps a repeated publish from inserting another row.            *)
PublishRow(c) ==
    LET t == T(c) IN
    /\ At(c, "p_row")
    /\ \/ /\ npvi' = Recorded(t) /\ NoFault
          /\ published' = [published EXCEPT ![t] = TRUE]
          /\ Return(c) /\ UNCHANGED <<gone, fits>>
       \/ /\ npvi' \in {npvi, Recorded(t)} /\ Fault("write")
          /\ Goto(c, "p_undo") /\ UNCHANGED answers
    /\ UNCHANGED kernel

(* The clean-up of a publish that failed: the error of the unmount is      *)
(* ignored, and so is that of the RemoveAll.  Nothing detaches the device. *)
PublishUndo(c) ==
    LET t == T(c) IN
    /\ At(c, "p_undo")
    /\ \/ Unmount(t) /\ NoFault
       \/ ~Mounted(t) /\ UNCHANGED <<mounts, loop>> /\ NoFault
       \/ UNCHANGED <<mounts, loop>> /\ Fault("umount")
    /\ Goto(c, "p_clear")
    /\ UNCHANGED <<use, path, file, fsys, intact, npvi, answers>>

PublishClear(c) ==
    /\ At(c, "p_clear")
    /\ \/ RemoveTarget(T(c)) /\ NoFault
       \/ UNCHANGED <<path, intact>> /\ Fault("fs")
    /\ Fails(c)
    /\ UNCHANGED <<use, mounts, loop, file, fsys, npvi>>

-----------------------------------------------------------------------------
(* NodeUnpublishVolume *)

UnpublishCall(c, t) ==
    /\ MayCall(c, t)
    /\ Start(c, t, "u_get")
    /\ published' = [published EXCEPT ![t] = FALSE]
    /\ gone' = [gone EXCEPT ![t] = FALSE]

UnpublishGet(c) == Looks(c, "u_get", "u_check", "read")

(* Mutant of WhenMounted: the target is not looked at. *)
SkipUnmount(t) == "u_remove"

WhenMounted(t) == IF Mounted(t) THEN "u_unmount" ELSE "u_remove"

UnpublishCheck(c) == Looks(c, "u_check", WhenMounted(T(c)), "fs")

UnpublishUnmount(c) ==
    LET t == T(c) IN
    /\ At(c, "u_unmount")
    /\ \/ /\ Unmount(t) /\ NoFault
          /\ Goto(c, IF OnBlock(t) THEN "u_find" ELSE "u_remove")
       \/ ~Mounted(t) /\ Return(c) /\ NoFault /\ UNCHANGED <<mounts, loop>>
       \/ Return(c) /\ Fault("umount") /\ UNCHANGED <<mounts, loop>>
    /\ UNCHANGED <<use, path, file, fsys, intact, npvi, answers>>

(* DetachFileDevice.                                                       *)
UnpublishFind(c) == FindsLoop(c, "u_find", "u_detach", "u_remove")

(* losetup -d takes the device whatever file it stands for by now.         *)
UnpublishDetach(c) ==
    LET d == call[c].dev IN
    /\ At(c, "u_detach")
    /\ \/ /\ loop[d] # NoLoop /\ NoFault
          /\ loop' = Settled([loop EXCEPT ![d] = [@ EXCEPT !.closing = TRUE]], mounts)
          /\ Goto(c, "u_remove")
       \/ loop[d] = NoLoop /\ Return(c) /\ NoFault /\ UNCHANGED loop
       \/ Return(c) /\ Fault("losetup") /\ UNCHANGED loop
    /\ UNCHANGED <<use, path, mounts, file, fsys, intact, npvi, answers>>

UnpublishRemove(c) ==
    LET t == T(c) IN
    /\ At(c, "u_remove")
    /\ \/ RemoveTarget(t) /\ NoFault /\ IF Mounted(t) THEN Return(c) ELSE Goto(c, "u_row")
       \/ UNCHANGED <<path, intact>> /\ Return(c) /\ Fault("fs")
    /\ UNCHANGED <<use, mounts, loop, file, fsys, npvi, answers>>

(* Mutant of Forgotten: the first row is deleted. *)
FirstForgotten(t) == [npvi EXCEPT ![t] = IF @ = 0 THEN 0 ELSE @ - 1]

(* DELETE ... WHERE: every row of the target.                              *)
Forgotten(t) == [npvi EXCEPT ![t] = 0]

UnpublishRow(c) ==
    LET t == T(c) IN
    /\ At(c, "u_row")
    /\ \/ /\ npvi' = Forgotten(t) /\ NoFault
          /\ gone' = [gone EXCEPT ![t] = TRUE]
          /\ UNCHANGED <<published, fits>>
       \/ npvi' \in {npvi, Forgotten(t)} /\ Fault("write") /\ UNCHANGED answers
    /\ Return(c)
    /\ UNCHANGED kernel

-----------------------------------------------------------------------------
(* NodeExpandVolume, called once the controller has extended the file *)

(* ControllerExpandVolume, on some controller.                             *)
Grow(v) ==
    /\ file[v] < MaxSize
    /\ \E t \in Targets : Vol(t) = v /\ OnBlock(t)
    /\ file' = [file EXCEPT ![v] = @ + 1]
    /\ UNCHANGED <<use, path, mounts, loop, fsys, intact, npvi, call, answers, faults>>

ExpandCall(c, t) ==
    /\ MayCall(c, t) /\ published[t]
    /\ Start(c, t, "x_get")
    /\ UNCHANGED <<published, gone>>

AnswerExpanded(c) ==
    LET v == Vol(T(c)) IN
    /\ fits' = [fits EXCEPT ![v] = IF call[c].asked > @ THEN call[c].asked ELSE @]
    /\ Return(c)
    /\ UNCHANGED <<published, gone>>

ExpandGet(c) ==
    Looks(c, "x_get", IF OnBlock(T(c)) THEN "x_find" ELSE "return", "read")

ExpandFind(c) == FindsLoop(c, "x_find", "x_reread", "return")

(* Mutant of Reread: losetup -c is not run. *)
NotReread(d, v) == loop

Reread(d, v) == [loop EXCEPT ![d] = [@ EXCEPT !.size = file[v]]]

(* ReReadFileSize looks the device up again; only a file system is resized *)
(* after it.                                                               *)
ExpandReread(c) ==
    LET t == T(c)
        d == FoundLoop(Vol(t)) IN
    /\ At(c, "x_reread")
    /\ \/ /\ d # NoDevice /\ NoFault
          /\ loop' = Reread(d, Vol(t))
          /\ IF Kind(t) = "raw" THEN AnswerExpanded(c)
             ELSE Goto(c, "x_check") /\ UNCHANGED answers
       \/ d = NoDevice /\ Fails(c) /\ NoFault /\ UNCHANGED loop
       \/ Fails(c) /\ Fault("losetup") /\ UNCHANGED loop
    /\ UNCHANGED <<use, path, mounts, file, fsys, intact, npvi>>

ExpandCheck(c) ==
    Looks(c, "x_check", IF Mounted(T(c)) THEN "x_resize" ELSE "return", "fs")

(* ResizeFs.Resize: the file system grows to the device.                   *)
ExpandResize(c) ==
    LET v == Vol(T(c)) IN
    /\ At(c, "x_resize")
    /\ \/ /\ fsys' = [fsys EXCEPT ![v] = loop[call[c].dev].size]
          /\ AnswerExpanded(c) /\ NoFault
       \/ UNCHANGED fsys /\ Fails(c) /\ Fault("fs")
    /\ UNCHANGED <<use, path, mounts, loop, file, intact, npvi>>

-----------------------------------------------------------------------------
(* The process ends with all its calls; the kernel's state stays.          *)
PluginCrash ==
    /\ \E c \in Calls : ~At(c, "idle")
    /\ call' = [c \in Calls |-> NoCall]
    /\ Fault("crash")
    /\ UNCHANGED <<kernel, npvi, answers>>

NodeCall(c) ==
    \E t \in Targets : PublishCall(c, t) \/ UnpublishCall(c, t) \/ ExpandCall(c, t)

NodeStep(c) ==
    \/ PublishGet(c) \/ PublishFind(c) \/ PublishMake(c) \/ PublishTarget(c)
    \/ PublishCheck(c) \/ PublishMkdir(c) \/ PublishMount(c) \/ PublishChmod(c)
    \/ PublishRow(c) \/ PublishUndo(c) \/ PublishClear(c)
    \/ UnpublishGet(c) \/ UnpublishCheck(c) \/ UnpublishUnmount(c)
    \/ UnpublishFind(c) \/ UnpublishDetach(c) \/ UnpublishRemove(c)
    \/ UnpublishRow(c)
    \/ ExpandGet(c) \/ ExpandFind(c) \/ ExpandReread(c) \/ ExpandCheck(c)
    \/ ExpandResize(c)

NodeNext ==
    \/ \E c \in Calls : NodeCall(c) \/ NodeStep(c)
    \/ \E v \in Volumes : Grow(v)
    \/ PluginCrash

NodeSpec == NodeInit /\ [][NodeNext]_nodeVars

-----------------------------------------------------------------------------
Layers == [dev: Devices \cup {NoDevice}, ro: BOOLEAN]

NodeTypeOK ==
    /\ use \in Uses
    /\ path \in [Targets -> {"none", "file", "dir"}]
    /\ mounts \in [Targets -> Seq(Layers)]
    /\ loop \in [Devices -> [vol: Volumes \cup {NoVolume}, size: 0 .. MaxSize,
                             closing: BOOLEAN]]
    /\ file \in [Volumes -> 1 .. MaxSize] /\ fsys \in [Volumes -> 0 .. MaxSize]
    /\ intact \subseteq Volumes /\ npvi \in [Targets -> 0 .. 2]
    /\ call \in [Calls -> [at: CallLabels, target: Targets \cup {NoTarget},
                           dev: Devices \cup {NoDevice}, asked: 0 .. MaxSize]]
    /\ \A c \in Calls :
          /\ call[c].at \in {"u_detach", "x_reread", "x_check", "x_resize"}
                => call[c].dev \in Devices
          /\ (At(c, "p_mount") /\ OnBlock(T(c))) => call[c].dev \in Devices
    /\ published \in [Targets -> BOOLEAN] /\ gone \in [Targets -> BOOLEAN]
    /\ fits \in [Volumes -> 0 .. MaxSize]
    /\ faults \in 0 .. MaxFaults

(* A target NodePublishVolume answered OK for has its volume mounted, its  *)
(* loop device still standing for the file of the volume, and its row,     *)
(* until the next publish or unpublish of it is called, whatever happens   *)
(* to the other targets of the node in between.                            *)
PublishedIsMounted ==
    \A t \in Targets : published[t] =>
        /\ Mounted(t) /\ npvi[t] > 0
        /\ OnBlock(t) => Top(t).dev \in LoopsOf(Vol(t))

(* After NodeUnpublishVolume answered OK nothing is left at the target:    *)
(* no layer of a mount, no path and no row, however many publishes of it   *)
(* failed before.                                                          *)
UnpublishedIsClean ==
    \A t \in Targets : gone[t] =>
        ~Mounted(t) /\ path[t] = "none" /\ npvi[t] = 0

(* No RemoveAll of a target path reaches the content of the volume through *)
(* a mount that is still there.                                            *)
DataSpared == intact = Volumes

(* "If no existing loop device for the path, create one"                   *)
(* (volume_path_handler_linux.go:44): a file has one loop device at most,  *)
(* so that the device DetachFileDevice and NodeExpandVolume find is the    *)
(* one that is mounted.                                                    *)
OneLoopPerFile == \A v \in Volumes : Cardinality(LoopsOf(v)) <= 1

(* After NodeExpandVolume answered OK the published device, and the file   *)
(* system on it, are as large as the file was when it was called.          *)
ExpandedFits ==
    \A t \in Targets : published[t] /\ OnBlock(t) =>
        /\ loop[Top(t).dev].size >= fits[Vol(t)]
        /\ Kind(t) = "disk" => fsys[Vol(t)] >= fits[Vol(t)]

(* "Check if the target path is already mounted. Prevent remounting."      *)
(* (nodeserver.go:179): no second layer is ever mounted on a target.       *)
NeverRemounted == \A t \in Targets : Len(mounts[t]) <= 1
=============================================================================
