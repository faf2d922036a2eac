----------------------------- MODULE CleanupJob -----------------------------
(***************************************************************************)
(* The maintenance processes (cmd/sharedhostpath flags job-cleanupdangling *)
(* and job-rebuildsymlinks): VolumeHelper.CleanUpDanglingVolumes and       *)
(* ReBuildSymLinks of utils.go.  They run beside the controllers, take no  *)
(* lock, and several may run at once.  One action is one query or one file *)
(* operation; the errors of the queries of the clean-up are not looked at. *)
(***************************************************************************)
EXTENDS Storage

CONSTANTS Jobs   \* maintenance processes

VARIABLES job    \* job[k]: what process k is doing

JobLabels == {"idle", "phase1", "glob", "check", "remove", "unlink", "find", "link"}

(* rows: the deleted rows of phase 1, or the live rows ReBuildSymLinks has *)
(* still to link; files: the paths phase 2 has still to check; cur: the    *)
(* one it found no row for; old: history, the live volumes whose data the  *)
(* glob saw; blind: history, the paths whose query failed.                 *)
JobIdle == [at |-> "idle", rows |-> {}, files |-> {}, cur |-> NoVol,
            old |-> {}, blind |-> {}]

JobInit == job = [k \in Jobs |-> JobIdle]

JobTypeOK ==
    job \in [Jobs -> [at: JobLabels, rows: SUBSET Vols, files: SUBSET Vols,
                      cur: Vols \cup {NoVol}, old: SUBSET Vols, blind: SUBSET Vols]]

JobAt(k, label) == job[k].at = label

JobGoto(k, label) == job' = [job EXCEPT ![k] = [@ EXCEPT !.at = label]]

JobReturn(k) == job' = [job EXCEPT ![k] = JobIdle]

Dead == {v \in Vols : rowState[v] = "dead"}

(* CleanUpDanglingVolumes lists the soft-deleted rows; when the query      *)
(* fails the list is empty and the job goes on.                            *)
CleanupStart(k) ==
    /\ JobAt(k, "idle")
    /\ \E rows \in {Dead, {}} :
          /\ job' = [job EXCEPT ![k] = [JobIdle EXCEPT !.at = "phase1", !.rows = rows]]
          /\ IF rows = Dead THEN NoFault ELSE Fault("read")
    /\ UNCHANGED <<rowState, rowInfo, rowCap, disk, sym>>

(* CreateVolume keeps the data of a volume under three prefix directories. *)
StoredAt(v) == <<"xx", "yy", "zz", v>>

(* Phase 1 looks for it directly under the volumes directory.              *)
Phase1Path(v) == <<v>>

Phase1Finds(v) == \E u \in Vols : StoredAt(u) = Phase1Path(v) /\ disk[u] # Absent

CleanupPhase1(k) ==
    /\ JobAt(k, "phase1")
    /\ disk' = [v \in Vols |-> IF v \in job[k].rows /\ Phase1Finds(v) THEN Absent
                               ELSE disk[v]]
    /\ job' = [job EXCEPT ![k] = [@ EXCEPT !.at = "glob", !.rows = {}]]
    /\ UNCHANGED <<rowState, rowInfo, rowCap, sym, faults>>

(* filepath.Glob over vols: every volume path there is at this moment.     *)
CleanupGlob(k) ==
    LET files == {v \in Vols : disk[v] # Absent} IN
    /\ JobAt(k, "glob")
    /\ job' = [job EXCEPT ![k] = [@ EXCEPT !.at = "check", !.files = files,
                                           !.old = {v \in files : Found(v)}]]
    /\ UNCHANGED storageVars

(* Mutant of NoRowFor: the path is taken for dangling unconditionally. *)
AnyPath(v) == TRUE

(* Mutant of NoRowFor: Unscoped(), a soft-deleted row counts. *)
NoRowAtAll(v) == rowState[v] \notin {"live", "dead"}

(* RowsAffected is 0: no live, committed row has this vol_path.            *)
NoRowFor(v) == ~Found(v)

(* The query for one path; a failed one affects no rows either.            *)
CleanupCheck(k) ==
    /\ JobAt(k, "check")
    /\ \E v \in job[k].files :
          \/ /\ ~NoRowFor(v) /\ NoFault
             /\ job' = [job EXCEPT ![k] = [@ EXCEPT !.files = job[k].files \ {v}]]
          \/ /\ NoRowFor(v) /\ NoFault
             /\ job' = [job EXCEPT ![k] = [@ EXCEPT !.at = "remove", !.cur = v,
                                                    !.files = job[k].files \ {v}]]
          \/ /\ Fault("read")
             /\ job' = [job EXCEPT ![k] = [@ EXCEPT !.at = "remove", !.cur = v,
                     !.files = job[k].files \ {v}, !.blind = job[k].blind \cup {v}]]
    /\ UNCHANGED <<rowState, rowInfo, rowCap, disk, sym>>

(* os.RemoveAll of the path; its error is only logged.                     *)
CleanupRemove(k) ==
    /\ JobAt(k, "remove")
    /\ \/ disk' = [disk EXCEPT ![job[k].cur] = Absent] /\ NoFault
       \/ UNCHANGED disk /\ Fault("fs")
    /\ job' = [job EXCEPT ![k] = [@ EXCEPT !.at = "check", !.cur = NoVol]]
    /\ UNCHANGED <<rowState, rowInfo, rowCap, sym>>

(* Phase 3 is ReBuildSymLinks.                                             *)
CleanupPhase3(k) ==
    /\ JobAt(k, "check")
    /\ job[k].files = {}
    /\ job' = [job EXCEPT ![k] = [@ EXCEPT !.at = "unlink", !.old = {},
                                           !.blind = {}]]
    /\ UNCHANGED storageVars

-----------------------------------------------------------------------------
(* ReBuildSymLinks, also a job of its own.                                 *)
RebuildStart(k) ==
    /\ JobAt(k, "idle")
    /\ JobGoto(k, "unlink")
    /\ UNCHANGED storageVars

(* Mutant of NoLinks: the directory is left as it is. *)
OldLinks == sym

NoLinks == [c \in Claims |-> NoVol]

(* RemoveAll of the links' directory, then MkdirAll; a failure may come    *)
(* after some of the links are gone, and ends the job.                     *)
RebuildUnlink(k) ==
    /\ JobAt(k, "unlink")
    /\ \/ sym' = NoLinks /\ JobGoto(k, "find") /\ NoFault
       \/ /\ \E lost \in SUBSET Claims :
                sym' = [c \in Claims |-> IF c \in lost THEN NoVol ELSE sym[c]]
          /\ JobReturn(k) /\ Fault("fs")
    /\ UNCHANGED <<rowState, rowInfo, rowCap, disk>>

RebuildFind(k) ==
    /\ JobAt(k, "find")
    /\ \/ /\ job' = [job EXCEPT ![k] = [@ EXCEPT !.at = "link",
                                                 !.rows = {v \in Vols : Found(v)}]]
          /\ NoFault
       \/ JobReturn(k) /\ Fault("read")
    /\ UNCHANGED <<rowState, rowInfo, rowCap, disk, sym>>

(* One row's link, in whatever order the query gave the rows.              *)
RebuildLink(k) ==
    /\ JobAt(k, "link")
    /\ \E v \in job[k].rows :
          /\ \/ sym' = Linked(sym, rowInfo[v].claim, v) /\ NoFault
             \/ UNCHANGED sym /\ Fault("fs")
          /\ job' = [job EXCEPT ![k] = [@ EXCEPT !.rows = job[k].rows \ {v}]]
    /\ UNCHANGED <<rowState, rowInfo, rowCap, disk>>

RebuildDone(k) ==
    /\ JobAt(k, "link")
    /\ job[k].rows = {}
    /\ JobReturn(k)
    /\ UNCHANGED storageVars

-----------------------------------------------------------------------------
JobCrash(k) ==
    /\ ~JobAt(k, "idle")
    /\ JobReturn(k) /\ Fault("crash")
    /\ UNCHANGED <<rowState, rowInfo, rowCap, disk, sym>>

JobStep(k) ==
    \/ CleanupPhase1(k) \/ CleanupGlob(k) \/ CleanupCheck(k) \/ CleanupRemove(k)
    \/ CleanupPhase3(k) \/ RebuildUnlink(k) \/ RebuildFind(k) \/ RebuildLink(k)
    \/ RebuildDone(k)

JobNext(k) == CleanupStart(k) \/ RebuildStart(k) \/ JobStep(k) \/ JobCrash(k)
=============================================================================
