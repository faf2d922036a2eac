# TLA+ verification of csi-sharedhostpath

csi-sharedhostpath is a CSI driver that serves Kubernetes volumes out of one
directory tree every node mounts ("shared host path").  A PostgreSQL database
holds the catalog of volumes; the volumes themselves are files (block volumes
and disks) or directories (folders) in the shared tree.  This directory holds
TLA+ models of the driver, TLC configurations that check them on small
instances, and TLAPS proofs of what holds for every value of the constants.

Paths below are relative to `src/`; `controllerserver.go`, `utils.go` and
`nodeserver.go` are in `internal/sharedhostpath/`.

## 1. The system

### Processes and what they share

| process | how many | started by | keeps |
|---|---|---|---|
| controller | 3 replicas | `deploy/shp-plugin.yaml`, next to csi-provisioner and csi-attacher, which elect their own leader | `controllerServer.mutex`: one handler at a time in one process |
| node plugin | 1 per node (DaemonSet) | the same file | nothing in memory, no lock; the kernel's mounts and loop devices |
| clean-up job | every 5 minutes, overlapping runs allowed | a CronJob | nothing |
| rebuild job | by hand (`job-rebuildsymlinks`) | an operator | nothing |

They talk to nobody but their CSI callers.  What they share is the database
(tables `volumes`, `node_infos`, `controller_publish_volume_infos`,
`node_publish_volume_infos`) and the file tree (`vols/` with three levels of
prefix directories, `syms/<namespace>/<claim>`).  There is no lock across
processes, and no isolation stronger than PostgreSQL's read committed.
Handlers ignore the gRPC context: a call the caller gave up on keeps running.
When the provisioner's leadership moves to another replica, the handler of the
old one can still be at work, so two controllers can run side by side.

### Components

**Capacity and admission** (`controllerserver.go`, `fixCapacity` in
`utils.go`).  No state.  Validates requests, decides between block and folder,
rounds the capacity up to whole MiB with a minimum of 1GiB and refuses 1TiB
and above.  *Hard*: int64 arithmetic at its limits, the agreement of
CreateVolume with ValidateVolumeCapabilities.  *Correct when*: what is
admitted is large enough, the least such size, below the limit, and confirmed
later for the access it was created for; what is refused could not have been
served.

**Controller service: volumes** (CreateVolume, DeleteVolume,
ControllerExpandVolume).  State: rows with a soft-delete mark, the data in
`vols/`, the claim's link in `syms/`.  Every operation changes several of
these, one after the other; some statements of a "transaction" run on the
connection outside of it and are committed at once (`utils.go:268`,
`utils.go:441`), and some errors are dropped.  *Hard*: the failure or the end
of the process between any two steps, the caller's retry afterwards, two
controllers at once, a COMMIT whose outcome is unknown.  *Correct when*: a
volume that was answered OK has its row and its data, at the capacity that was
answered, until its deletion is asked for; a deletion that was answered OK is
complete and final; names stay unique; capacities and files never shrink.

**Maintenance jobs** (`CleanUpDanglingVolumes`, `ReBuildSymLinks`).  No state;
they compare the tree with the rows and remove what has no row, and remake
every link.  *Hard*: they run beside controllers whose transactions are open,
look first and remove later, and mistake a failed query for an empty answer.
*Correct when*: nothing a caller was promised is removed; what is dangling is
removed in the end; links are restored in the end.

**Node service: publications** (NodePublishVolume, NodeUnpublishVolume,
NodeExpandVolume; `volume_path_handler_linux.go`, `resizefs_linux.go`).
State: target paths, mounts, loop devices, file systems, rows of
`node_publish_volume_infos`.  *Hard*: steps that fail half-way and the undo
that may fail too, a crash that leaves kernel state behind, calls of several
targets on one volume, a retry that overtakes the call it retries.
*Correct when*: a published target keeps its volume mounted, on the loop
device of its own file; an unpublished one is clean; removing a target path
never reaches into a volume; a file has one loop device; an answered expansion
has reached device and file system.

**Controller service: attachments, and the heartbeat** (ControllerPublish,
ControllerUnpublish; NewNodeServer).  State: rows of
`controller_publish_volume_infos`, and `node_infos`, which every node plugin
refreshes at each tick of a 5 s ticker and a controller reads with a window of
30 s.  *Hard*: callers give a call up, which still waits for the mutex or runs
on, and retry at another controller; writes with an unknown outcome; heartbeats
that are slow or fail.  *Correct when*: what was answered last is what the
rows say, until the next call; a node that serves is never taken for gone.

**Listing** (ListVolumes with paging, ControllerGetVolume).  Read only, without
the mutex, in several statements.  *Hard*: paging by offset with no ORDER BY
(`utils.go:361`) while rows come, go and move; a row, its attachments and its
file read at different times; the number of rows counted after the page.
*Correct when*: a full walk lists every volume that was there all the time,
once; what an entry says was true at some time during the call.

**Node statistics** (NodeGetVolumeStats, NodeGetInfo).  They read one row or
ask the kernel, and change nothing.

**Process start, gRPC server, identity service**; **deployment**; **unused
block-volume helpers** (MapDevice and its relatives in
`volume_path_handler.go`).  No state of their own.

## 2. Modules

```
Capacity ---- Admission ---- MCAdmission
   |              \---- AdmissionProofs (with CapacityProofs)
   +---- CapacityProofs
   |
   +---- Storage ---- Controller (refines VolumeCatalog) ---- MCController
            |             |   \---- ControllerProofs ---- ControllerPromises
            |             |          (with CapacityProofs)
            +-- CleanupJob +-- VolumeSystem ---- MCVolumeSystem
                                    \---------- SystemProofs (with ControllerProofs)

NodeServer ---- MCNodeServer
    \---------- NodeProofs

Heartbeat ---- Attach ---- MCAttach
                  \------- AttachProofs

Listing ---- MCListing
    \------- ListingProofs
```

`Attach` is the composition of the controllers' calls with the heartbeats of
the nodes they ask for.  `NodeServer` and `Listing` stand alone: what they see
of the controllers (a file that grows; rows that come, go and move) are actions
of their own.

| module | models | state | actions |
|---|---|---|---|
| `Capacity` | `fixCapacity`, the limit check | none | operators |
| `Admission` | validation of CreateVolume, ValidateVolumeCapabilities | the request, its answer | one per call |
| `Storage` | `volumes` rows, data, links; faults | `rowState, rowInfo, rowCap, disk, sym, faults` | operators on them |
| `Controller` | CreateVolume, DeleteVolume, ControllerExpandVolume | `h[c]`, the handler a controller runs and its locals; history `created, promised, doomed, gone` | one per statement or file operation |
| `VolumeCatalog` | what the controller service promises (abstract) | `state, name, capacity, held, granted, freed` | `Provision, Answer, Grow, Remove, AnswerGone` |
| `CleanupJob` | CleanUpDanglingVolumes, ReBuildSymLinks | `job[k]`, what a job does and has read | one per query or file operation |
| `VolumeSystem` | controllers and jobs over one storage | all of the above | interleaving; fairness |
| `Heartbeat` | the ticker of NewNodeServer, UpdateNodeInfoLastSeen, GetNodeInfo | `seen`, the age of each node's row; `beat`, its goroutine and ticker | one per write and tick; `Elapse`, a period of 5 s |
| `Attach` | ControllerPublishVolume, ControllerUnpublishVolume | `exists, cpvi, call`; history `asked, answered` | one per statement; callers that ask, give up and ask elsewhere |
| `Listing` | ListVolumes, ControllerGetVolume | `table, capacity, size, attached, pending`, `reader`, `walk`, `entry`; history `saw` | one per statement or stat; the controllers' changes |
| `NodeServer` | publish, unpublish, expand on one node | `path, mounts, loop, file, fsys, npvi, call`; history `intact, published, gone, fits` | one per statement, file operation or command |

### How model and code correspond

*Steps.*  One action is one statement of the database, one file operation or
one command (`mount`, `losetup`, `dd`, ...).  Between two of them another
process can run or the process can end.  Where nothing others can see happens
in between, several lines of Go are one action.

*Rows.*  `rowState[v]` is `none` (no row), `open` (inserted by a transaction
that is not committed: invisible to others), `live`, `dead` (`deleted_at` set)
or `void` (rolled back).  A volume id is never used twice: `uuid.New()`.
`Named` sees committed, undeleted rows only, as gorm's default scope does.

*Data.*  `disk[v]` is `Absent`, or the size in units; a folder has size 0.  A
`dd` that fails may leave an empty file.

*Links.*  `sym[k]` is the volume the link of claim `k` leads to.

*Handlers.*  `h[c].at` names the next statement; `vol`, `info`, `want`, `old`
are the locals later statements use.  `Return` drops them whatever the answer.
A new call is possible only at `idle`, which is the mutex.

*Faults.*  A fault is a disjunct of the action it strikes, counted by `faults`
and allowed by `FaultKinds`: `read` (a SELECT fails), `write` (INSERT or
UPDATE fails), `commit` (COMMIT fails, and the row may or may not be there),
`fs` (a file operation fails), `crash` (the process ends; the database rolls
an open transaction back).  On the node also `umount` and `losetup`.  Where
the code ignores an error the model goes on, too.

*Callers.*  DeleteVolume and ControllerExpandVolume come with an id the caller
was given; CreateVolume with any request of `CreateReqs`, at any time, any
number of times: that includes every retry.  The node's targets come with the
use they have for the whole behaviour (`use`): volume, kind (`raw` block,
`disk` with a file system on a loop device, `folder`), read-only or not.

*Layers of mounts.*  `mounts[t]` is a sequence, because a second mount hides
the first and one unmount uncovers it again.

*Time* (`Heartbeat`) is counted in periods of the ticker: an age is the number
of periods that ended since, capped above the window.  The value a heartbeat
writes is the time of its tick, and a ticker's channel holds one tick; both are
in the model, since a tick that waited while a slow write was under way carries
an old time.

*Calls of the attacher* (`Attach`).  A call waits for the mutex
(`p_wait, u_wait`) or runs.  The caller has one call per volume and node that
it knows of (`asked`); one it gave up goes on.  `answered` is what the last
call was answered, and only where no earlier call could still overtake it
(`alone`): the code has nothing against such a late call.

*Pages* (`Listing`).  `table` is the order in which PostgreSQL scans the live
rows: an INSERT or the new version an UPDATE writes may come anywhere in it,
other rows keep their order.  `walk.passed` is how many rows the pages so far
account for, and `walk.spoilt` records what crossed that point.

*Abstractions.*  Names, claims and ids are model values, so sanitising and
joining of paths is left out, except where it decides something: phase 1 of
the clean-up looks for a volume in `vols/<id>`, while CreateVolume puts it
three directories deeper (`StoredAt`, `Phase1Path`).  Sizes are counted in
scaled units with the rounding and the 64-bit wrap kept.  Logging and error
texts are left out.

## 3. What the runs check

`tlc -config <run>.cfg <module>` for each.

| run | question | answer |
|---|---|---|
| `admission` | Is every admitted request served in full, every refusal justified, and an admitted volume later confirmed? | yes |
| `overflow` | Is the granted capacity always at least the bytes asked? | no: see findings |
| `controller_faults` | One controller, two faults anywhere: do answered volumes keep row and data (`AckedHasData`), does any step shrink a row (`CapacityNeverShrinks`) or a file (`DataNeverTruncated`)? Where all the faults were failed SELECTs: are answered capacities there (`PromiseKept`), do row and file agree (`SizeMatchesRow`), is an answered deletion complete and final (`DeletionHolds`)? | they keep, none shrinks; yes |
| `controller_catalog` | Does one controller implement `VolumeCatalog` (`ImplementsCatalog`) and keep names unique, when COMMITs, files and the process fail? | yes |
| `controller_pair` | Two controllers: does one undo or delete what the other answered for? | no |
| `delete_crash` | Is an answered deletion still complete when the process may crash? | no: see findings |
| `system` | A controller and a job: does the clean-up spare what it could have known (`CleanupSparesCommitted`), is dangling data removed in the end (`DanglingDataRemoved`), are links restored (`LinksRebuilt`)? | yes |
| `cleanup_race` | Do answered volumes keep their data beside the clean-up? | no: see findings |
| `node` | Two calls at a time, in turn for one target or one block volume, a fault or a crash anywhere: `PublishedIsMounted, UnpublishedIsClean, DataSpared, OneLoopPerFile, ExpandedFits` | hold |
| `node_remount` | Is a target never mounted twice, when a retry overtakes the call it retries? | no: see findings |
| `attach` | Is what was answered last what the rows say (`AttachedHasRow`, `DetachedIsClean`), with calls given up and retried at another controller, a failed statement or a crash? Is a serving node always found (`ServingIsFound`)? | yes |
| `listing` | Which volumes can a walk miss (`WalkIsComplete`) or repeat (`WalkNeverRepeats`), and was what an entry says true (`EntryIsTrue`)? | only where rows were deleted, inserted or moved among those passed; yes |

### Why some properties are checked under some faults only

The limits below are limits of the code, found by checking with more faults.

* `OneVolumePerName` does not hold when a SELECT fails: CreateVolume takes any
  error of the look-up by name for "not there" and makes a second volume; nor
  with two controllers, since `volumes` has no unique index on the name.  So
  `controller_catalog` has one controller and no failed reads.
* `DeletedLeavesNothing`, `SizeMatchesRow` and `PromiseKept` do not survive a
  crash or a failed write between the row and the file, because the row is
  written outside of the transaction (finding 2).  `DeletionHolds`,
  `SizeMatchesRow` and `PromiseKept` speak of the behaviours in which all
  faults were failed SELECTs (`OnlyReadsFailed`).
* `AckedHasData` with two controllers holds only while the outcome of a COMMIT
  is known: otherwise the second controller can find and answer for the volume
  the first is about to undo.  This is the assumption `SoloOrCertain` of the
  proof, and `controller_pair` leaves `commit` out.
* `CapacityNeverShrinks` and `DataNeverTruncated` are checked for one
  controller: two can both pass the comparison and then write in either order.
* `CleanupSparesCommitted` speaks of volumes whose row was committed and whose
  data was there when the job listed the tree, and whose query did not fail.
  Outside of that the clean-up does remove live data (finding 3): so can a
  second job that listed the tree before the first did, which is why the
  property, and its proof, are about one job at a time.
* `node` has at most one fault.  Two are enough to break `DataSpared`: one
  that sends a publish to its undo, and one in the undo's unmount, after which
  RemoveAll reaches into the volume that is still mounted.  Calls for
  one target do not overlap there, nor calls for one block volume (`InTurn`);
  `node_remount` shows what an overlap does on one target.  On two targets of
  one disk it is worse: both calls find no loop device, both make one, and two
  file systems are mounted from one file (`OneLoopPerFile` with
  `Overlaps = TRUE` and the use of `Mixed` that has a disk twice).  A raw
  volume has one target: the unpublish of one of two would detach the device
  of the other.
* `AttachedHasRow` and `DetachedIsClean` except an answer that a call given up
  before could still overtake (`alone`): it waits for the mutex or runs at
  another controller, and undoes what was answered.
* `WalkIsComplete` excepts walks one of whose queries failed: `ListVolumes`
  looks at `vh.db.Error`, which queries never set, takes a failed query for an
  empty result and answers OK.

### Bounds, and why they are enough

* *Capacities* are scaled: `MiB = 1`, `GiB = 2`, limit 8, `Half = 16` in the
  controller runs; the admission runs use 4, 12, 40 and a 7-bit integer, so
  that the minimum, a value between two MiB, the limit and the wrap are all
  among the requests.
* *Volumes*: three (two in `controller_pair` and `system`): a name's first
  volume, a second one made in its place, and one of the other name that
  shares its claim.  An id that was rolled back is not used again, so that
  two failed creations and a third that succeeds fit in.
* *Names, claims*: two names, one claim: two volumes can fight over one link.
* *Faults*: two in the controller runs, which allows a fault in the undo of a
  fault; one in the system and node runs.
* *Controllers*: two, interchangeable (`ControllerSymmetry`).  *Jobs*: one
  (see above; `SparesWhatItSaw` is proved for any number).
* *Node*: two targets, two volumes, two concurrent calls (interchangeable:
  `CallSymmetry`), three loop devices, of which the third is there for a leak,
  and file sizes 1 and 2, so that each volume can be expanded once.  The uses
  are chosen so that raw, disk and folder, one disk and one folder at
  two targets and read-only publications occur.
* *Attachments*: one volume and one node, because pairs share nothing but the
  controllers' mutex; two controllers and two calls, so that a call given up
  can be behind, beside and before the next; one fault.  (Three calls, two
  faults and a heartbeat without delays were checked as well, with the same
  result.)
* *Heartbeat*: the window is 30 s / 5 s = 6 periods.  With writes that take up
  to `MaxDelay = 1` period, `MaxMisses = 2` writes in a row may fail.  The
  limits are 4 misses without delay, 2 with a delay of one period, and none
  with two: beyond them a serving node is taken for gone.
* *Listing*: three volumes (two block, one folder) and pages of one, two and
  all, so that a walk has up to three pages; two changes, which allow one to
  undo the shift of another; one failed query.
* `ExpandBytes = {9}` in `system` keeps expansions to the refused ones: files
  that grow are the matter of the controller runs.

### Fairness

Safety runs assume none.  `FairSystemSpec` assumes

* weak fairness of every handler's and every job's next step: a goroutine or
  process that was started runs on unless it crashes (a crash is a fault, of
  which there are `MaxFaults`);
* strong fairness of starting the clean-up: the CronJob starts one every five
  minutes, whatever else was started by hand in between.

Calls need not come, and no fault has to happen or to stop happening.

## 4. What is proved

For every value of the constants that meets the named assumptions (`P` stands
for the module's specification in "`P => []Inv`"):

| theorem | says |
|---|---|
| `CapacityProofs!FixCapacityIsLeast` | for a request whose rounding does not overflow, `FixCapacity` is the least multiple of 1MiB that holds both the request and 1GiB |
| `CapacityProofs!AdmittedCapacity` | a request below the limit gets at least what it asked, between 1GiB and the limit |
| `AdmissionProofs!AdmissionTypeCorrect`, `GrantSufficesAlways`, `RefusalJustifiedAlways`, `AdmittedIsConfirmedAlways`, `GrantIsLeastAlways` | `RoundedBytes` implies `P => []TypeOK`, and the same of `GrantSuffices`, `RefusalJustified`, `AdmittedIsConfirmed` and the action property `GrantIsLeast` |
| `ControllerProofs!TypeCorrect` | `P => []TypeOK` |
| `ControllerProofs!AckedHasDataAlways` | `SoloOrCertain` implies `P => []AckedHasData` |
| `ControllerPromises!CapacityNeverShrinksAlways`, `DataNeverTruncatedAlways` | `Solo` implies the two action properties, under every fault |
| `ControllerPromises!PromiseKeptAlways`, `DeletionHoldsAlways`, `SizeMatchesRowAlways` | `Solo` implies `P => []PromiseKept`, `[]DeletionHolds`, `[]SizeMatchesRow` (which speak of failed SELECTs only) |
| `ControllerPromises!OneVolumePerNameAlways` | `Solo` and no failed SELECTs imply `P => []OneVolumePerName` |
| `ControllerPromises!CatalogIsImplemented` | `Solo`, no failed SELECTs or writes, and `RequestsAgree` where COMMITs may fail, imply `P => ImplementsCatalog` |
| `SystemProofs!SystemTypeCorrect` | `P => []SystemTypeOK` |
| `SystemProofs!CleanupSparesAlways` | `SoloOrCertain` and `OneJob` imply `P => []CleanupSparesCommitted` |
| `SystemProofs!SparesWhatItSawAlways` | `SoloOrCertain` implies `P => []SparesWhatItSaw`, for any number of jobs: none is about to remove a volume callers hold that it saw with its row, unless its query failed |
| `NodeProofs!NodeTypeCorrect` | `P => []NodeTypeOK`, overlapping calls included |
| `NodeProofs!OneLoopPerFileAlways`, `UnpublishedIsCleanAlways` | `~Overlaps` implies `P => []OneLoopPerFile`, `P => []UnpublishedIsClean` |
| `NodeProofs!PublishedIsMountedAlways`, `ExpandedFitsAlways` | `~Overlaps` and `RawAlone` imply `P => []PublishedIsMounted`, `P => []ExpandedFits` |
| `NodeProofs!DataSparedAlways` | `~Overlaps` and `MaxFaults <= 1` imply `P => []DataSpared`; for any `MaxFaults`, `OneFaultSparesAlways`: as long as at most one fault has happened |
| `NodeProofs!NeverRemountedInTurn` | `~Overlaps` implies `P => []NeverRemounted`: what `node_remount` refutes needs the overlap |
| `AttachProofs!AttachedHasRowAlways`, `DetachedIsCleanAlways` | `P => []AttachedHasRow`, `P => []DetachedIsClean` |
| `AttachProofs!ServingIsFoundAlways` | `WindowHolds` implies `P => []ServingIsFound` |
| `AttachProofs!AttachTypeOKAlways` | `WindowHolds` implies `P => []AttachTypeOK` |
| `ListingProofs!ListingTypeCorrect`, `WalkIsCompleteAlways`, `WalkNeverRepeatsAlways`, `EntryIsTrueAlways` | `P => []ListingTypeOK`, and the same of `WalkIsComplete`, `WalkNeverRepeats` and `EntryIsTrue`, for any number of volumes, pages of any size, any number of changes and failed queries |

*Assumptions on constants.*  `CapacityAssumption`: the units are positive, 1GiB, the limit
and the range of the integer are whole MiB, and 1MiB <= 1GiB < the limit < the
largest integer.  `StorageAssumption`: the bounds are naturals and the label
of a request that names no claim is not a claim.  `ControllerAssumption`: requests have passed
the admission of module `Admission` and do not overflow; the run `overflow`
shows why the second is not for free.  `HeartbeatAssumption`: the window is
positive, the bounds are naturals.  `AttachAssumption`: the bound on faults is
a natural, modes are Booleans, and the labels for "no call" and "no pair" are
no call and no pair.  `NodeAssumption`: the bounds are naturals and files have
a size, the labels are no volume and no target, every use gives each target a
publication, and a volume is a folder at all its targets or at none, which is
in its row.  `ListingAssumption`: there are finitely many volumes, and no page
is larger than all of them (a larger one is "all").

*Hypotheses of the theorems.*  Each is the weakest the proof found, and outside of it TLC shows
a counterexample, by a run or as section 3 tells.

* `RoundedBytes`: no request lies in the last MiB below 2^63 (`overflow`).
* `SoloOrCertain`: one controller, or no COMMIT of unknown outcome.  `Solo`:
  one controller.  `OneJob`: clean-ups do not overlap.
* `RequestsAgree`: requests of one name ask for one capacity.  csi-provisioner
  derives the name from the claim and does not change the request.  It matters
  only after a COMMIT that was applied though it failed: its row is found
  without data, and CreateVolume populates it anew and answers OK without
  the comparison it makes of a volume that is there (`controllerserver.go:218`).
* `~Overlaps`: calls for one target, and for one block volume, come in turn
  (`node_remount`).  `RawAlone`: a volume that is published raw at one target
  is published at no other.
* `WindowHolds`: `Window > (MaxMisses + 3) * MaxDelay` and
  `Window > MaxMisses + 2`.

*The argument for admission.*  `AdmissionInv` is the properties and `VolumeOK`:
what a CreateVolume that was answered OK established of the volume's
capabilities and its kind, which ValidateVolumeCapabilities decides by later.
The lemma `Granted` draws on `CapacityProofs`.

*The argument for `AckedHasData`.*  The property is not inductive: that a
volume answered OK has its row and data says nothing of a handler that is
about to answer, undo or delete.  `IInv` (in `Controller`) adds

* `HandlerOK(c)`, what each handler may rely on between two steps: the volume
  of an open transaction is `open`, the volume an undo will remove was never
  answered for, a deletion's volume is `doomed`;
* `OwnTransaction`: no two handlers are in the transaction of one volume;
* `AnswersCommitted` and `DeletedWhenAsked`: an answered volume has a
  committed row, and a row is deleted only when that was asked for;
* `Filled(c)`: what a handler populated is there until its COMMIT.

The first three (`RowsInv`) say nothing of data, and hold beside a clean-up,
too; `AckedHasData` and `Filled` are what a clean-up can break.

The proof has two halves.  `StepEffects`, `CallEffects` and `CrashEffects`
show, action by action, that a step of controller `c` has only the effects
`StepOK(c)` allows: on rows, on data, on answers and on handlers.
`StepPreserves` shows that whatever `StepOK(c)` allows keeps `IInv`: `StepKeepsRows`
its first half, which is where the other controllers come in (`OthersOK`),
`StepFills` and `OthersFill` what is left.  `SoloOrCertain` is used
once, in `OthersOK`: a COMMIT of unknown outcome leaves a row live that its
handler will undo.

*The argument for one controller's promises* (`ControllerPromises`).  What a
handler has read stays true while nobody else writes, but how much can be said
of the rows and files depends on what has failed.  So there are four
invariants, each inductive with `IInv` and those before it:

* `SoloInv`, under every fault: `HandlerKnows` (the row the handler read is
  still as it read it; its capacity came from an admitted request; an
  expansion is of a volume some caller holds) and `RowsAsAsked`.  It gives
  `CapacityNeverShrinks` and `DataNeverTruncated`: the new value was compared
  with the `old` one, and `old` is what is there.
* `ReadsInv`, as long as only SELECTs have failed (`OnlyReadsFailed`): every
  live row has its data, what was promised is in the row, a dead row has no data unless
  its deletion is under way, and `HandlerIsExact`.  It contains `DeletionHolds`
  and `SizeMatchesRow`.  A fault of another kind makes it hold vacuously from
  then on, so no step has to be shown after one.
* `NamesInv`, if SELECTs do not fail: between the look-up and the COMMIT no
  live row has the name (`NameFree`).
* `WritesInv`, if writes do not fail: the steps of a deletion after the soft
  delete have a dead row, and a live row without data was never answered for
  (`UndoneUnanswered`).

*The refinement of `VolumeCatalog`.*  `Provision` is the COMMIT of CreateVolume
that is applied, whether its answer is OK or not, `Grow` the UPDATE of the
capacity, `Remove` the soft delete, `Answer` and `AnswerGone` the answers; all
else, an open row, a roll-back, a crash, the files and links, is a stutter
(`CatalogStutters`).  `NamesInv` gives the guard of `Provision`, `SoloInv` that of
`Grow` and `Answer`, `WritesInv` that of `AnswerGone`.

*The argument for the clean-up.*  A controller beside a job keeps `RowsInv`, by
the lemmas above, and a job touches no row (`JobEffects`).  `JobsInv` adds what
a job may rely on: what it saw with its row is committed for good, so that where
its query found no row, and did not fail, the row was deleted, and that was
asked for.  This is `SparesWhatItSaw`.  For `CleanupSparesCommitted` the
controllers' half is `DataStays` (a step takes no data from a volume that is
held) and `NewAnswers` (what is answered for the first
time has its data, or was open when the job looked).

*The argument for the node.*  `NodeInv` is the types (`NodeTypeInv`), `TurnsOK`
(two calls under way are for targets whose calls may overlap), and, part by
part, what holds of each call, target, volume and device:

* `CallGood(c)`: what the call relies on at its statement (`Relies`): the
  device in hand is of its file, nothing is mounted before `mount` and
  something is after it, no device exists when one is about to be made; and
  how many faults it took to get to an undo;
* `TargetGood(t)`: one mount at most, on a path, over the device of the file,
  and what the last answer for the target promised;
* `VolumeGood(v)`: one device at most, and neither it nor the file system is
  smaller than what an expansion was answered;
* `DeviceGood(d)`: a device told to go is kept by a mounted disk only.

`Elsewhere(c)` says what a step of call `c` leaves alone; the lemmas
`OthersCallGood`, `OthersTargetGood` and `OthersVolumeGood` show once that this
keeps the invariant of everything that is not the call's own.  What is left of
each statement (`StepHolds`) is its own call, target and volume.
`OneFaultSpares` follows from the counts in `Relies`: RemoveAll is reached with
a mount in place only after an undo that failed.

*The argument for attachments.*  An answer counts (`alone`) if no earlier call
of its volume and node could still overtake the call.  `AttachInv` (in
`Attach`) says what that means while the call is under way: the other calls of
the pair all hold the mutex the call waits for (`AloneIsLast`), so that there
is none left once it runs (`OneHandler`; lemma `OnlyCall`).  Therefore nobody
inserts a row between its look-up and its INSERT (`InsertIsFirst`), and nobody
is left to change the rows when it was answered (`AnsweredIsQuiet`).  The proof
has one lemma for a handler that goes on (`GotoHolds`), one for a handler that
returns (`ReturnsHolds`), and one for each thing a caller or controller does.

*The argument for `ServingIsFound`.*  Consecutive ticks that are written lie at
most `Gap` periods apart: one, or as long as a write takes, since a tick waits
in the channel while its goroutine writes.  `HeartbeatInv` bounds how much
older the row is than the tick at hand by `Lag`, which grows by `Gap` with each
write that failed.  `WindowHolds` is what is left of the window for the lag
after the most failures, a tick that waited and a write.  TLC finds
it exact for the delay of one period the run has (2 misses fit into a window of
6, not of 5; 3 do not fit into 6) and a period more than needed for the others tried
(4 misses without delay fit into 6).

*The argument for the listing.*  The order of the rows is a sequence without
repetitions, and the proof is about the place of each volume in it.  The
lemmas `InsertMoves`, `RemoveMoves` and `MoveMoves` say where an INSERT, a DELETE and
an UPDATE leave the others; `ChangeOK` sums up what that means for a walk that
has passed the first `walk.passed` places: unless the walk is spoilt no volume
crosses that point.  `CallInv` is

* `OnceOK`: a volume that was listed, or read by a page and not listed yet
  (`Due`), is among the places passed, and no volume is both; hence the next
  page, which begins behind them, repeats none;
* `AllOK`: a steady volume at a place that was passed was listed or is due;
  where the walk ends, the number of rows says that every place was passed;
* `SawOK`: whatever `ReadPath` is going to find was seen to be so.  If the row
  was expanded since it was read, the data did not have the new capacity right
  afterwards ("differs"); if the data has the capacity that was read all the
  same, it had it before the expansion ("fits");
* `ReaderOK`, `ListedOK`: the page under way begins where the last one ended,
  which bounds how often a volume was listed.

*Only model-checked.*  Liveness (`DanglingDataRemoved`, `LinksRebuilt`) depends
on fairness, which the prover does not handle.  Every other property of a
passing run is stated by a theorem.

## 5. Findings

1. `overflow` (`utils.go:665`): `fixCapacity` rounds up in int64.  A request in
   the last MiB below 2^63 wraps to a negative capacity, which is below the
   limit and admitted.
2. `delete_crash` (`utils.go:441`): the soft delete is issued on `vh.db`, not
   on the transaction, so it is committed at once.  A crash before the data is
   removed leaves it there, and the retried DeleteVolume finds no row and
   answers OK.  (The clean-up's phase 2 removes it later: run `system`.)
3. `cleanup_race` (`utils.go:542`): CreateVolume populates the path before its
   COMMIT.  A clean-up that lists the tree in between finds no row, and removes
   the data of a volume whose creation is then answered OK.
4. `node_remount` (`nodeserver.go:180`): the check and the mount are two steps
   with no lock around them; two calls for one target mount it twice.

Seen while modelling, not checked by a run of their own:

* Phase 1 of the clean-up looks in `vols/<id>` (`utils.go:523`), where nothing
  is ever stored; it removes nothing, and phase 2 does the work.
* Nothing keeps the CronJob from starting a clean-up while the last one runs
  (`deploy/shp-plugin.yaml` states no concurrencyPolicy).  A slow job that
  found no row for a volume removes its data even after it was committed, so
  that another job that saw row and data does not find the data any more;
  hence `OneJob` in `CleanupSparesAlways`.
* CreateVolume refuses block access to a folder (`controllerserver.go:164`);
  ValidateVolumeCapabilities confirms it for a volume that was made as one.
* A read-only publish changes the mode of the target after the
  read-only remount; that fails (EROFS), so the publish fails after it mounted.
* A publish that crashes between `losetup` and `mount`, or fails there, leaves
  the loop device; a later publish of the same file takes it up again.
* A volume expanded while a walk over ListVolumes is under way can be missing
  from it, or be in it twice: the UPDATE moves its row, and the pages have no
  ORDER BY.
* ListVolumes answers OK and with nothing where its query failed: the error
  branches for `vh.db.Error` (`utils.go:346-350`, `utils.go:361-366`) are
  never taken.  ControllerGetVolume does look at the result's error.
* A volume expanded between the reading of its row and of its file is reported
  abnormal, "file size dismatch", by a call that began and ended with the two
  in agreement (`EntryIsTrue` allows it: they differed in between).
* ControllerUnpublishVolume without a node id answers OK and deletes no row,
  since it looks for the rows of the node "".
* Once a volume is deleted its attachments can not be removed any more: the
  unpublish is answered NotFound, and the rows stay.
* The goroutine of a node's heartbeat writes to the database itself, so that a
  slow write makes the next one late (`nodeserver.go:50`).
* Publishing a target again that is published already ends, when the row
  cannot be written, in the undo that unmounts it from under the running pod.

## 6. Not modelled, and the plan

Next: the composition of the controller's expansion with NodeExpandVolume: that
an answered expansion reaches the file system, and what a lost answer does
(`controllerserver.go:400`).  The external resizer that would call the two
is not part of the deployment.

Left out for good: the gRPC server, the identity service, flag parsing and
start-up, which hold no state; node statistics, which only read; the unused block
helpers; PostgreSQL itself, the kernel, Kubernetes and its sidecars, which
appear only by what they do to this code.
