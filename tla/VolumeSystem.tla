---------------------------- MODULE VolumeSystem ----------------------------
(***************************************************************************)
(* Controllers and maintenance jobs over one database and one shared file  *)
(* system, as deploy/shp-plugin.yaml runs them: replicas of the controller *)
(* and a CronJob.  Nothing but the storage is shared, and no lock covers   *)
(* both.                                                                   *)
(***************************************************************************)
EXTENDS Controller, CleanupJob

systemVars == <<vars, job>>

SystemInit == Init /\ JobInit

SystemNext ==
    \/ \E c \in Controllers : ControllerNext(c) /\ UNCHANGED job
    \/ \E k \in Jobs : JobNext(k) /\ UNCHANGED controllerVars

SystemSpec == SystemInit /\ [][SystemNext]_systemVars

(* A handler or a job that was started keeps running, and the CronJob      *)
(* starts the clean-up again and again.  Calls need not come, and nothing  *)
(* is assumed of the faults but that they are bounded.                     *)
SystemFairness ==
    /\ \A c \in Controllers : WF_systemVars(Step(c) /\ UNCHANGED job)
    /\ \A k \in Jobs : WF_systemVars(JobStep(k) /\ UNCHANGED controllerVars)
    /\ \A k \in Jobs : SF_systemVars(CleanupStart(k) /\ UNCHANGED controllerVars)

FairSystemSpec == SystemSpec /\ SystemFairness

-----------------------------------------------------------------------------
SystemTypeOK == TypeOK /\ JobTypeOK

(* The clean-up spares what was there before it looked: a volume whose row *)
(* was committed and whose data was on disk at the glob keeps its data, as *)
(* long as callers hold it and the query for its path did not fail.  Only  *)
(* a volume committed after the glob, or one the job was blind to, is at   *)
(* risk.  This is for one job at a time: beside it, a second one can still *)
(* remove what it found no row for before this one looked.                 *)
CleanupSparesCommitted ==
    \A k \in Jobs : \A v \in (job[k].old \cap Held) \ job[k].blind : disk[v] # Absent

(* "Phase2 delete vols from disk if not exists on db" (utils.go:532): the  *)
(* data a rolled back, interrupted or half failed CreateVolume or          *)
(* DeleteVolume leaves behind is removed in the end.                       *)
DanglingDataRemoved ==
    \A v \in Vols :
        (disk[v] # Absent /\ rowState[v] \in {"dead", "void"}) ~> (disk[v] = Absent)

(* The only live volume of a claim is linked again and again, whatever     *)
(* removed or misdirected its link.                                        *)
OwnsClaim(v, k) ==
    /\ Found(v) /\ rowInfo[v].claim = k
    /\ \A u \in Vols : Found(u) /\ rowInfo[u].claim = k => u = v

LinksRebuilt ==
    \A v \in Vols, k \in Claims :
        <>[]OwnsClaim(v, k) => []<>(sym[k] = v)
=============================================================================
