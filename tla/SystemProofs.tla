---------------------------- MODULE SystemProofs ----------------------------
(***************************************************************************)
(* Proofs about VolumeSystem, for any number of controllers, jobs, volumes *)
(* and faults: its types, and that a clean-up spares what it had the       *)
(* chance to know.                                                         *)
(***************************************************************************)
EXTENDS VolumeSystem, ControllerProofs

(* Nobody else removes data on the strength of an older look.              *)
OneJob == \A j, k \in Jobs : j = k

JobRecords == [at: JobLabels, rows: SUBSET Vols, files: SUBSET Vols,
               cur: Vols \cup {NoVol}, old: SUBSET Vols, blind: SUBSET Vols]

(* What a job saw with its row is committed for good; if it removes such a *)
(* volume although no query failed, the row was gone, and that was asked   *)
(* for.                                                                    *)
JobOK(k) ==
    /\ \A v \in job[k].old : IsCommitted(v)
    /\ job[k].at = "remove" => job[k].cur \in Vols
    /\ (job[k].at = "remove" /\ job[k].cur \in job[k].old \ job[k].blind)
          => job[k].cur \in doomed

JobsInv == \A k \in Jobs : JobOK(k)

(* No job is about to remove a volume callers hold that it had seen with   *)
(* its row, and whose query did not fail.                                  *)
SparesWhatItSaw ==
    \A k \in Jobs :
        (JobAt(k, "remove") /\ job[k].cur \in job[k].old \ job[k].blind)
            => job[k].cur \notin Held

-----------------------------------------------------------------------------
(* What a job step does to the storage and to its own record.              *)
JobEffect(k) ==
    /\ UNCHANGED <<rowState, rowInfo, rowCap, h, created, promised, doomed, gone>>
    /\ faults' \in FaultHistories
    /\ sym' \in [Claims -> Vols \cup {NoVol}]
    /\ \/ disk' = disk
       \/ job[k].at = "remove" /\ disk' = [disk EXCEPT ![job[k].cur] = Absent]
    /\ job'[k] \in JobRecords
    /\ \A j \in Jobs : j # k => job'[j] = job[j]
    /\ \/ job'[k].old \subseteq job[k].old /\ job[k].blind \subseteq job'[k].blind
       \/ job'[k].old = {}
       \/ job'[k].at # "remove" /\ \A v \in job'[k].old : Found(v) /\ disk'[v] # Absent
    /\ job'[k].at = "remove" =>
          /\ job'[k].cur \in Vols /\ job'[k].old = job[k].old
          /\ job'[k].cur \in job'[k].blind \/ ~Found(job'[k].cur)

-----------------------------------------------------------------------------
(* Every step of a job does no more than that.                             *)
LEMMA JobEffects ==
    ASSUME TypeOK, JobTypeOK, NEW k \in Jobs, JobNext(k), UNCHANGED controllerVars
    PROVE  JobEffect(k)
<1> DEFINE r == job[k]
           r1 == job'[k]
<1>1. job \in [Jobs -> JobRecords] /\ r \in JobRecords
  BY DEF JobTypeOK, JobRecords
<1>2. /\ UNCHANGED <<rowState, rowInfo, rowCap, h, created, promised, doomed, gone>>
      /\ faults' \in FaultHistories
  <2>1. UNCHANGED <<h, created, promised, doomed, gone>>
    BY DEF controllerVars
  <2>2. NoFault \/ Fault("read") \/ Fault("fs") \/ Fault("crash")
    BY DEF JobNext, JobStep, CleanupStart, RebuildStart, CleanupPhase1, CleanupGlob,
       CleanupCheck, CleanupRemove, CleanupPhase3, RebuildUnlink, RebuildFind, RebuildLink,
       RebuildDone, JobCrash, storageVars, NoFault
  <2>3. UNCHANGED <<rowState, rowInfo, rowCap>>
    BY DEF JobNext, JobStep, CleanupStart, RebuildStart, CleanupPhase1, CleanupGlob,
       CleanupCheck, CleanupRemove, CleanupPhase3, RebuildUnlink, RebuildFind, RebuildLink,
       RebuildDone, JobCrash, storageVars
  <2> QED
    BY <2>1, <2>2, <2>3, FaultType DEF NoFault, TypeOK, StorageTypeOK
<1>3. sym' \in [Claims -> Vols \cup {NoVol}]
  <2>1. sym \in [Claims -> Vols \cup {NoVol}]
    BY DEF TypeOK, StorageTypeOK
  <2>2. CASE RebuildUnlink(k)
    BY <2>1, <2>2 DEF RebuildUnlink, NoLinks
  <2>3. CASE RebuildLink(k)
    BY <2>1, <2>3, <1>1 DEF RebuildLink, Linked, JobRecords
  <2>4. CASE ~RebuildUnlink(k) /\ ~RebuildLink(k)
    BY <2>1, <2>4
       DEF JobNext, JobStep, CleanupStart, RebuildStart, CleanupPhase1, CleanupGlob,
           CleanupCheck, CleanupRemove, CleanupPhase3, RebuildFind, RebuildDone, JobCrash,
           storageVars
  <2> QED
    BY <2>2, <2>3, <2>4
<1>4. \A j \in Jobs : j # k => job'[j] = job[j]
  BY <1>1 DEF JobNext, JobStep, CleanupStart, RebuildStart, CleanupPhase1, CleanupGlob,
     CleanupCheck, CleanupRemove, CleanupPhase3, RebuildUnlink, RebuildFind, RebuildLink,
     RebuildDone, JobCrash, JobGoto, JobReturn
<1>5. /\ r.at \in JobLabels /\ r.rows \subseteq Vols /\ r.files \subseteq Vols
      /\ r.cur \in Vols \cup {NoVol} /\ r.old \subseteq Vols /\ r.blind \subseteq Vols
  BY <1>1 DEF JobRecords
<1>6. CASE CleanupStart(k)
  <2>1. PICK rows \in {Dead, {}} :
           job' = [job EXCEPT ![k] = [JobIdle EXCEPT !.at = "phase1", !.rows = rows]]
    BY <1>6 DEF CleanupStart
  <2>2. r1 = [JobIdle EXCEPT !.at = "phase1", !.rows = rows] /\ rows \subseteq Vols
    BY <1>1, <2>1 DEF Dead
  <2>3. r1 \in JobRecords /\ r1.old = {} /\ r1.at = "phase1"
    BY <2>2 DEF JobRecords, JobIdle, JobLabels
  <2> QED
    BY <1>2, <1>3, <1>4, <1>6, <2>3 DEF CleanupStart, JobEffect
<1>7. CASE RebuildStart(k) \/ CleanupPhase3(k)
  <2>1. /\ r1 \in JobRecords /\ r1.at = "unlink"
        /\ r1.old = {} \/ (r1.old = r.old /\ r1.blind = r.blind)
    <3>1. CASE RebuildStart(k)
      BY <1>1, <3>1 DEF RebuildStart, JobGoto, JobRecords, JobLabels
    <3>2. CASE CleanupPhase3(k)
      BY <1>1, <3>2 DEF CleanupPhase3, JobRecords, JobLabels
    <3> QED
      BY <1>7, <3>1, <3>2
  <2> QED
    BY <1>2, <1>3, <1>4, <1>7, <2>1 DEF RebuildStart, CleanupPhase3, storageVars, JobEffect
<1>8. CASE CleanupPhase1(k)
  <2>1. r1 \in JobRecords /\ r1.at = "glob" /\ r1.old = r.old /\ r1.blind = r.blind
    BY <1>1, <1>8 DEF CleanupPhase1, JobRecords, JobLabels
  <2>2. \A v \in Vols : ~Phase1Finds(v)
    BY DEF Phase1Finds, StoredAt, Phase1Path
  <2>3. disk' = disk
    BY <1>8, <2>2 DEF CleanupPhase1, TypeOK
  <2> QED
    BY <1>2, <1>3, <1>4, <2>1, <2>3 DEF JobEffect
<1>9. CASE CleanupGlob(k)
  <2>1. /\ r1.at = "check" /\ r1.rows = r.rows /\ r1.cur = r.cur /\ r1.blind = r.blind
        /\ r1.files = {v \in Vols : disk[v] # Absent}
        /\ r1.old = {v \in r1.files : Found(v)}
        /\ r1 \in JobRecords
    BY <1>1, <1>9 DEF CleanupGlob, JobRecords, JobLabels
  <2> QED
    BY <1>2, <1>3, <1>4, <1>9, <2>1 DEF CleanupGlob, storageVars, JobEffect
<1>10. CASE CleanupCheck(k)
  <2>1. PICK v \in r.files :
          \/ /\ ~NoRowFor(v)
             /\ job' = [job EXCEPT ![k] = [@ EXCEPT !.files = r.files \ {v}]]
          \/ /\ NoRowFor(v)
             /\ job' = [job EXCEPT ![k] = [@ EXCEPT !.at = "remove", !.cur = v,
                                                    !.files = r.files \ {v}]]
          \/ job' = [job EXCEPT ![k] = [@ EXCEPT !.at = "remove", !.cur = v,
                           !.files = r.files \ {v}, !.blind = r.blind \cup {v}]]
    BY <1>10 DEF CleanupCheck
  <2>2. v \in Vols /\ r.at = "check"
    BY <1>5, <1>10 DEF CleanupCheck, JobAt
  <2>3. r.files \ {v} \in SUBSET Vols /\ r.blind \cup {v} \in SUBSET Vols
    BY <1>5, <2>2
  <2>4. /\ r1.old = r.old /\ r.blind \subseteq r1.blind /\ r1 \in JobRecords
        /\ r1.at = "remove" => r1.cur = v /\ (v \in r1.blind \/ NoRowFor(v))
    <3>1. CASE job' = [job EXCEPT ![k] = [@ EXCEPT !.files = r.files \ {v}]]
      BY <1>1, <2>2, <2>3, <3>1 DEF JobRecords
    <3>2. CASE /\ NoRowFor(v)
               /\ job' = [job EXCEPT ![k] = [@ EXCEPT !.at = "remove", !.cur = v,
                                                      !.files = r.files \ {v}]]
      BY <1>1, <2>2, <2>3, <3>2 DEF JobRecords, JobLabels
    <3>3. CASE job' = [job EXCEPT ![k] = [@ EXCEPT !.at = "remove", !.cur = v,
                             !.files = r.files \ {v}, !.blind = r.blind \cup {v}]]
      BY <1>1, <2>2, <2>3, <3>3 DEF JobRecords, JobLabels
    <3> QED
      BY <2>1, <3>1, <3>2, <3>3
  <2> QED
    BY <1>2, <1>3, <1>4, <1>10, <2>2, <2>4 DEF CleanupCheck, NoRowFor, JobEffect
<1>11. CASE CleanupRemove(k)
  <2>1. r1 \in JobRecords /\ r1.at = "check" /\ r1.old = r.old /\ r1.blind = r.blind
    BY <1>1, <1>11 DEF CleanupRemove, JobRecords, JobLabels
  <2> QED
    BY <1>2, <1>3, <1>4, <1>11, <2>1 DEF CleanupRemove, JobAt, JobEffect
<1>12. CASE RebuildUnlink(k) \/ RebuildDone(k) \/ JobCrash(k)
  <2>1. JobReturn(k) => r1 = JobIdle
    BY <1>1 DEF JobReturn
  <2>2. JobGoto(k, "find") => /\ r1 \in JobRecords /\ r1.at = "find"
                              /\ r1.old = r.old /\ r1.blind = r.blind
    BY <1>1 DEF JobGoto, JobRecords, JobLabels
  <2>3. JobIdle \in JobRecords /\ JobIdle.old = {} /\ JobIdle.at = "idle"
    BY DEF JobIdle, JobRecords, JobLabels
  <2>4. JobReturn(k) \/ JobGoto(k, "find")
    BY <1>12 DEF RebuildUnlink, RebuildDone, JobCrash
  <2>5. disk' = disk
    BY <1>12 DEF RebuildUnlink, RebuildDone, JobCrash, storageVars
  <2> QED
    BY <1>2, <1>3, <1>4, <2>1, <2>2, <2>3, <2>4, <2>5 DEF JobEffect
<1>13. CASE RebuildFind(k) \/ RebuildLink(k)
  <2>1. /\ r1 \in JobRecords /\ r1.at \in {"idle", "link"}
        /\ r1.old = {} \/ (r1.old = r.old /\ r1.blind = r.blind)
    <3>1. CASE RebuildFind(k)
      <4>1. JobReturn(k) => r1 = JobIdle
        BY <1>1 DEF JobReturn
      <4>2. JobIdle \in JobRecords /\ JobIdle.old = {} /\ JobIdle.at = "idle"
        BY DEF JobIdle, JobRecords, JobLabels
      <4>3. CASE job' = [job EXCEPT ![k] = [@ EXCEPT !.at = "link",
                                                    !.rows = {v \in Vols : Found(v)}]]
        BY <1>1, <4>3 DEF JobRecords, JobLabels
      <4> QED
        BY <3>1, <4>1, <4>2, <4>3 DEF RebuildFind
    <3>2. CASE RebuildLink(k)
      <4>1. PICK v \in r.rows : job' = [job EXCEPT ![k] = [@ EXCEPT !.rows = r.rows \ {v}]]
        BY <3>2 DEF RebuildLink
      <4>2. r.at = "link" /\ r.rows \ {v} \in SUBSET Vols
        BY <1>5, <3>2 DEF RebuildLink, JobAt
      <4> QED
        BY <1>1, <4>1, <4>2 DEF JobRecords
    <3> QED
      BY <1>13, <3>1, <3>2
  <2>2. disk' = disk
    BY <1>13 DEF RebuildFind, RebuildLink
  <2> QED
    BY <1>2, <1>3, <1>4, <2>1, <2>2 DEF JobEffect
<1> QED
  BY <1>6, <1>7, <1>8, <1>9, <1>10, <1>11, <1>12, <1>13 DEF JobNext, JobStep

-----------------------------------------------------------------------------
(* The types of the system: a controller's step and a job's.               *)
LEMMA SystemTypeNext ==
    ASSUME SystemTypeOK, [SystemNext]_systemVars
    PROVE  SystemTypeOK'
<1>1. CASE UNCHANGED systemVars
  BY <1>1 DEF systemVars, vars, SystemTypeOK, TypeOK, StorageTypeOK, JobTypeOK
<1>2. ASSUME NEW c \in Controllers, ControllerNext(c), UNCHANGED job PROVE SystemTypeOK'
  BY <1>2, NextType DEF SystemTypeOK, JobTypeOK, Next
<1>3. ASSUME NEW k \in Jobs, JobNext(k), UNCHANGED controllerVars PROVE SystemTypeOK'
  <2>1. JobEffect(k) /\ TypeOK /\ JobTypeOK
    BY <1>3, JobEffects DEF SystemTypeOK
  <2>2. disk' \in [Vols -> Capacities \cup {Absent}]
    BY <2>1 DEF JobEffect, TypeOK
  <2>3. TypeOK'
    BY <2>1, <2>2 DEF JobEffect, TypeOK, StorageTypeOK
  <2>4. JobTypeOK'
    <3>1. job \in [Jobs -> JobRecords]
      BY <2>1 DEF JobTypeOK, JobRecords
    <3>2. job' = [j \in Jobs |-> job'[j]]
      BY <1>3, <3>1
         DEF JobNext, JobStep, CleanupStart, RebuildStart, CleanupPhase1, CleanupGlob,
             CleanupCheck, CleanupRemove, CleanupPhase3, RebuildUnlink, RebuildFind,
             RebuildLink, RebuildDone, JobCrash, JobGoto, JobReturn
    <3>3. \A j \in Jobs : job'[j] \in JobRecords
      BY <2>1, <3>1 DEF JobEffect
    <3> QED
      BY <3>2, <3>3 DEF JobTypeOK, JobRecords
  <2> QED
    BY <2>3, <2>4 DEF SystemTypeOK
<1> QED
  BY <1>1, <1>2, <1>3 DEF SystemNext

(* A step of a controller keeps the invariant of rows and answers.         *)
LEMMA ControllerKeepsRows ==
    ASSUME TypeOK, TypeOK', RowsInv, SoloOrCertain, NEW c \in Controllers, ControllerNext(c)
    PROVE  StepOK(c) /\ RowsInv'
BY CallEffects, StepEffects, CrashEffects, StepKeepsRows DEF ControllerNext

(* A step of a controller changes nothing for the jobs, but for what they  *)
(* may remove.                                                             *)
LEMMA ControllerKeepsJobs ==
    ASSUME TypeOK, JobTypeOK, RowsInv, JobsInv, NEW c \in Controllers, StepOK(c), UNCHANGED job
    PROVE  JobsInv'
<1>1. \A k \in Jobs : job[k].old \subseteq Vols
  BY DEF JobTypeOK
<1>2. doomed \subseteq doomed'
  BY DEF StepOK, AnswerEffect
<1>3. ASSUME NEW k \in Jobs PROVE JobOK(k)'
  <2>1. JobOK(k)
    BY DEF JobsInv
  <2>2. \A v \in job[k].old : IsCommitted(v)'
    BY <1>1, <2>1, CommittedStays DEF JobOK, StepOK
  <2> QED
    BY <1>2, <2>1, <2>2 DEF JobOK
<1> QED
  BY <1>3 DEF JobsInv

(* A step of a job touches no row, and finds what its check found.         *)
LEMMA JobKeepsJobs ==
    ASSUME TypeOK, JobTypeOK, RowsInv, JobsInv, NEW k \in Jobs, JobEffect(k)
    PROVE  RowsInv' /\ JobsInv'
<1>1. UNCHANGED <<rowState, h, created, doomed>>
  BY DEF JobEffect
<1>2. RowsInv'
  BY <1>1 DEF RowsInv, AnswersCommitted, DeletedWhenAsked, OwnTransaction, HandlerOK,
     InTransaction, IsCommitted
<1>3. \A v \in Vols : IsCommitted(v) /\ ~Found(v) => v \in doomed
  BY DEF RowsInv, DeletedWhenAsked, IsCommitted, Found
<1>4. \A v \in Vols : IsCommitted(v)' <=> IsCommitted(v)
  BY <1>1 DEF IsCommitted
<1>5. JobOK(k)'
  <2>1. JobOK(k) /\ job[k].old \subseteq Vols /\ job'[k].old \subseteq Vols
    BY DEF JobsInv, JobTypeOK, JobEffect, JobRecords
  <2>2. \A v \in job'[k].old : IsCommitted(v)'
    BY <1>4, <2>1 DEF JobEffect, JobOK, Found, IsCommitted
  <2>3. job'[k].at = "remove" =>
           job'[k].cur \in Vols /\ (job'[k].cur \in job'[k].blind \/ ~Found(job'[k].cur))
    BY DEF JobEffect
  <2> QED
    BY <1>1, <1>3, <1>4, <2>2, <2>3 DEF JobOK
<1>6. \A j \in Jobs : j # k => JobOK(j)'
  <2> SUFFICES ASSUME NEW j \in Jobs, j # k PROVE JobOK(j)'
    OBVIOUS
  <2>1. JobOK(j) /\ job[j].old \subseteq Vols /\ job'[j] = job[j]
    BY DEF JobsInv, JobTypeOK, JobEffect
  <2> QED
    BY <1>1, <1>4, <2>1 DEF JobOK
<1> QED
  BY <1>2, <1>5, <1>6 DEF JobsInv

-----------------------------------------------------------------------------
(* A controller removes the data of no volume that is held, and answers    *)
(* for none a glob saw unless its data is there.                           *)
LEMMA ControllerSpares ==
    ASSUME TypeOK, TypeOK', JobTypeOK, RowsInv, JobsInv, CleanupSparesCommitted,
           NEW c \in Controllers, ControllerNext(c), StepOK(c), UNCHANGED job
    PROVE  CleanupSparesCommitted'
<1> SUFFICES ASSUME NEW k \in Jobs, NEW v \in job[k].old, v \in created', v \notin doomed',
                    v \notin job[k].blind
             PROVE  disk'[v] # Absent
  BY DEF CleanupSparesCommitted, Held
<1>1. v \in Vols /\ IsCommitted(v)
  BY DEF JobTypeOK, JobsInv, JobOK
<1>2. v \notin doomed
  BY DEF StepOK, AnswerEffect
<1>3. CASE v \in created
  <2>1. disk[v] # Absent
    BY <1>2, <1>3 DEF CleanupSparesCommitted, Held
  <2> QED
    BY <1>1, <1>2, <1>3, <2>1, DataStays
<1>4. CASE v \notin created
  <2>1. CASE Step(c)
    BY <1>1, <1>4, <2>1, NewAnswers DEF IsCommitted
  <2>2. CASE Call(c) \/ Crash(c)
    BY <1>4, <2>2, OthersFill DEF FillEffect
  <2> QED
    BY <2>1, <2>2 DEF ControllerNext
<1> QED
  BY <1>3, <1>4

(* The only job removes no data it saw.                                    *)
LEMMA JobSpares ==
    ASSUME TypeOK, JobTypeOK, OneJob, JobsInv, CleanupSparesCommitted,
           NEW k \in Jobs, JobEffect(k)
    PROVE  CleanupSparesCommitted'
<1> SUFFICES ASSUME NEW v \in job'[k].old, v \in created, v \notin doomed, v \notin job'[k].blind
             PROVE  disk'[v] # Absent
  BY DEF CleanupSparesCommitted, Held, OneJob, JobEffect
<1>1. v \in Vols
  BY DEF JobEffect, JobRecords
<1>2. CASE v \in job[k].old /\ v \notin job[k].blind
  <2>1. disk[v] # Absent
    BY <1>2 DEF CleanupSparesCommitted, Held
  <2>2. ~(job[k].at = "remove" /\ job[k].cur = v)
    BY <1>2 DEF JobsInv, JobOK
  <2> QED
    BY <1>1, <2>1, <2>2 DEF JobEffect, TypeOK
<1>3. CASE \A u \in job'[k].old : Found(u) /\ disk'[u] # Absent
  BY <1>3
<1> QED
  BY <1>2, <1>3 DEF JobEffect

-----------------------------------------------------------------------------
(* The initial states satisfy the invariants.                              *)
LEMMA SystemInitHolds ==
    SystemInit => SystemTypeOK /\ RowsInv /\ JobsInv /\ CleanupSparesCommitted
<1> SUFFICES ASSUME SystemInit PROVE SystemTypeOK /\ RowsInv /\ JobsInv /\ CleanupSparesCommitted
  OBVIOUS
<1>1. TypeOK /\ RowsInv
  BY InitType, InitIInv DEF SystemInit, IInv
<1>2. JobTypeOK /\ \A k \in Jobs : job[k].old = {} /\ job[k].at = "idle"
  BY DEF SystemInit, JobInit, JobTypeOK, JobIdle, JobLabels
<1> QED
  BY <1>1, <1>2 DEF SystemTypeOK, JobsInv, JobOK, CleanupSparesCommitted

(* The invariants of rows and jobs are inductive.                          *)
LEMMA SystemNextHolds ==
    ASSUME SoloOrCertain, SystemTypeOK, RowsInv, JobsInv, [SystemNext]_systemVars
    PROVE  /\ SystemTypeOK' /\ RowsInv' /\ JobsInv'
           /\ OneJob /\ CleanupSparesCommitted => CleanupSparesCommitted'
<1>1. SystemTypeOK' /\ TypeOK /\ TypeOK' /\ JobTypeOK
  BY SystemTypeNext DEF SystemTypeOK
<1>2. CASE UNCHANGED systemVars
  BY <1>1, <1>2
     DEF systemVars, vars, RowsInv, AnswersCommitted, DeletedWhenAsked, OwnTransaction,
         HandlerOK, InTransaction, IsCommitted, JobsInv, JobOK, CleanupSparesCommitted, Held
<1>3. ASSUME NEW c \in Controllers, ControllerNext(c), UNCHANGED job
      PROVE  RowsInv' /\ JobsInv' /\ (CleanupSparesCommitted => CleanupSparesCommitted')
  BY <1>1, <1>3, ControllerKeepsRows, ControllerKeepsJobs, ControllerSpares
<1>4. ASSUME NEW k \in Jobs, JobNext(k), UNCHANGED controllerVars
      PROVE  RowsInv' /\ JobsInv' /\ (OneJob /\ CleanupSparesCommitted => CleanupSparesCommitted')
  BY <1>1, <1>4, JobEffects, JobKeepsJobs, JobSpares
<1> QED
  BY <1>1, <1>2, <1>3, <1>4 DEF SystemNext

(* The types of controllers and jobs over one storage.                     *)
THEOREM SystemTypeCorrect == SystemSpec => []SystemTypeOK
<1>1. SystemInit => SystemTypeOK
  BY SystemInitHolds
<1>2. SystemTypeOK /\ [SystemNext]_systemVars => SystemTypeOK'
  BY SystemTypeNext
<1> QED
  BY <1>1, <1>2, PTL DEF SystemSpec

(* However many jobs run: none removes a volume callers hold that it had   *)
(* seen together with its row, unless its query failed.                    *)
THEOREM SparesWhatItSawAlways ==
    ASSUME SoloOrCertain
    PROVE  SystemSpec => []SparesWhatItSaw
<1>1. SystemInit => SystemTypeOK /\ RowsInv /\ JobsInv
  BY SystemInitHolds
<1>2. (SystemTypeOK /\ RowsInv /\ JobsInv) /\ [SystemNext]_systemVars
         => (SystemTypeOK /\ RowsInv /\ JobsInv)'
  BY SystemNextHolds
<1>3. JobsInv => SparesWhatItSaw
  BY DEF JobsInv, JobOK, SparesWhatItSaw, JobAt, Held
<1> QED
  BY <1>1, <1>2, <1>3, PTL DEF SystemSpec

(* Where one job runs at a time, the data of what it saw stays until a     *)
(* deletion is asked for, whatever the controllers do beside it.           *)
THEOREM CleanupSparesAlways ==
    ASSUME SoloOrCertain, OneJob
    PROVE  SystemSpec => []CleanupSparesCommitted
<1> DEFINE I == SystemTypeOK /\ RowsInv /\ JobsInv /\ CleanupSparesCommitted
<1>1. SystemInit => I
  BY SystemInitHolds
<1>2. I /\ [SystemNext]_systemVars => I'
  BY SystemNextHolds
<1> QED
  BY <1>1, <1>2, PTL DEF SystemSpec
=============================================================================
