-------------------------- MODULE ControllerProofs --------------------------
(***************************************************************************)
(* Proofs about Controller, for any number of controllers, volumes, names  *)
(* and faults: its type invariant, and that an answered volume keeps its   *)
(* row and its data until its deletion is asked for.                       *)
(***************************************************************************)
EXTENDS Controller, CapacityProofs

-----------------------------------------------------------------------------
(* Types *)

(* Capacities that were admitted, and their types.                         *)
LEMMA CapacityFacts ==
    /\ 0 \in Capacities /\ Capacities \subseteq Int /\ Absent \notin Capacities
    /\ Absent \in Int
    /\ \A q \in CreateReqs : q.info \in Infos /\ FixCapacity(q.bytes) \in Capacities
    /\ \A bytes \in ExpandBytes :
            WithinLimit(bytes) => FixCapacity(bytes) \in Capacities
<1>1. /\ MaxStorage \in Nat /\ 0 < MaxStorage /\ GiB \in Nat
  BY CapacityAssumption
<1>2. GiB .. MaxStorage - 1 \subseteq Capacities
  BY <1>1 DEF Capacities
<1>3. 0 \in Capacities /\ Capacities \subseteq Int /\ Absent \notin Capacities /\ Absent \in Int
  BY <1>1 DEF Capacities, Absent
<1>4. ASSUME NEW q \in CreateReqs
      PROVE  q.info \in Infos /\ FixCapacity(q.bytes) \in Capacities
  <2>1. q.info \in Infos /\ q.bytes \in Int /\ WithinLimit(q.bytes) /\ NoOverflow(q.bytes)
    BY ControllerAssumption
  <2> QED
    BY <2>1, <1>2, AdmittedCapacity
<1>5. ASSUME NEW bytes \in ExpandBytes, WithinLimit(bytes)
      PROVE  FixCapacity(bytes) \in Capacities
  <2>1. bytes \in Int /\ NoOverflow(bytes)
    BY ControllerAssumption
  <2> QED
    BY <2>1, <1>2, <1>5, AdmittedCapacity
<1> QED
  BY <1>3, <1>4, <1>5

(* A controller at rest has a handler record.                              *)
LEMMA IdleIsHandler == Idle \in Handlers
BY CapacityFacts DEF Idle, Handlers, Labels, NoVol

(* A fault counts within its bound.                                        *)
LEMMA FaultType ==
    ASSUME faults \in FaultHistories, NEW kind, Fault(kind)
    PROVE  faults' \in FaultHistories
BY StorageAssumption DEF Fault, FaultHistories

HandlersOK ==
    /\ h \in [Controllers -> Handlers]
    /\ \A c \in Controllers :
          h[c].at \in {"idle", "c_name", "c_insert"} \/ h[c].vol \in Vols

HistoryOK ==
    /\ created \in SUBSET Vols /\ doomed \in SUBSET Vols /\ gone \in SUBSET Vols
    /\ promised \in [Vols -> Capacities]

StorageOK ==
    /\ rowState \in [Vols -> {"none", "open", "live", "dead", "void"}]
    /\ rowInfo \in [Vols -> Infos \cup {NoInfo}]
    /\ rowCap \in [Vols -> Capacities]
    /\ disk \in [Vols -> Capacities \cup {Absent}]
    /\ sym \in [Claims -> Vols \cup {NoVol}]
    /\ faults \in FaultHistories

(* The type invariant, part by part.                                       *)
LEMMA TypeParts == TypeOK <=> HandlersOK /\ HistoryOK /\ StorageOK
BY CapacityFacts DEF TypeOK, StorageTypeOK, HandlersOK, HistoryOK, StorageOK

(* The same of the next state.                                             *)
LEMMA TypePartsNext == TypeOK' <=> HandlersOK' /\ HistoryOK' /\ StorageOK'
BY CapacityFacts DEF TypeOK, StorageTypeOK, HandlersOK, HistoryOK, StorageOK

(* A handler moves on: its new record is a handler, of a volume if it must *)
(* be.                                                                     *)
LEMMA HandlerStep ==
    ASSUME HandlersOK, NEW c \in Controllers, NEW r \in Handlers,
           r.at \in {"idle", "c_name", "c_insert"} \/ r.vol \in Vols,
           h' = [h EXCEPT ![c] = r]
    PROVE  HandlersOK'
BY DEF HandlersOK

(* A handler that goes on stays a handler.                                 *)
LEMMA GotoType ==
    ASSUME HandlersOK, NEW c \in Controllers, NEW label \in Labels,
           label \in {"idle", "c_name", "c_insert"} \/ h[c].vol \in Vols,
           Goto(c, label)
    PROVE  HandlersOK'
<1> DEFINE r == [h[c] EXCEPT !.at = label]
<1>1. r \in Handlers /\ r.at = label /\ r.vol = h[c].vol
  BY DEF Handlers, HandlersOK
<1>2. h' = [h EXCEPT ![c] = r]
  BY DEF Goto
<1> HIDE DEF r
<1> QED
  BY <1>1, <1>2, HandlerStep

(* A handler that returns is idle.                                         *)
LEMMA ReturnType ==
    ASSUME HandlersOK, NEW c \in Controllers, Return(c)
    PROVE  HandlersOK'
<1>1. Idle.at = "idle"
  BY DEF Idle
<1> QED
  BY <1>1, IdleIsHandler, HandlerStep DEF Return

(* Answers keep the history's types.                                       *)
LEMMA AnswerTypes ==
    ASSUME HandlersOK, HistoryOK, NEW c \in Controllers,
           NEW v \in Vols, NEW capacity \in Capacities
    PROVE  /\ AnswerCreated(c, v, capacity) => HandlersOK' /\ HistoryOK'
           /\ AnswerExpanded(c, v, capacity) => HandlersOK' /\ HistoryOK'
           /\ AnswerDeleted(c, v) => HandlersOK' /\ HistoryOK'
<1>1. Return(c) => HandlersOK'
  BY ReturnType
<1> QED
  BY <1>1 DEF HistoryOK, AnswerCreated, AnswerExpanded, AnswerDeleted

(* An error returns and answers nothing.                                   *)
LEMMA ErrorType ==
    ASSUME HandlersOK, HistoryOK, NEW c \in Controllers, AnswerError(c)
    PROVE  HandlersOK' /\ HistoryOK'
<1>1. HandlersOK'
  BY ReturnType DEF AnswerError
<1> QED
  BY <1>1 DEF HistoryOK, AnswerError, history

(* A step that answers nothing leaves the history alone.                   *)
LEMMA HistoryFrame ==
    ASSUME HistoryOK, UNCHANGED history
    PROVE  HistoryOK'
BY DEF HistoryOK, history

-----------------------------------------------------------------------------
(* Every step of a handler keeps the types.                                *)
LEMMA StepType ==
    ASSUME TypeOK, NEW c \in Controllers, Step(c)
    PROVE  TypeOK'
<1>1. HandlersOK /\ HistoryOK /\ StorageOK
  BY TypeParts
<1>2. /\ h[c] \in Handlers /\ h[c].want \in Capacities /\ h[c].old \in Capacities
      /\ h[c].info \in Infos \cup {NoInfo} /\ h[c].vol \in Vols \cup {NoVol}
      /\ h[c].at \in {"idle", "c_name", "c_insert"} \/ h[c].vol \in Vols
  BY <1>1 DEF HandlersOK, Handlers
<1>3. \A kind : Fault(kind) \/ NoFault => faults' \in FaultHistories
  BY <1>1, FaultType DEF StorageOK, NoFault
<1>4. UNCHANGED history => HistoryOK'
  BY <1>1, HistoryFrame
<1>5. \A label \in Labels :
          (Goto(c, label) /\ (label = "c_insert" \/ h[c].vol \in Vols)) => HandlersOK'
  BY <1>1, GotoType
<1>6. AnswerError(c) => HandlersOK' /\ HistoryOK'
  BY <1>1, ErrorType
<1>7. \A v \in Vols, capacity \in Capacities :
          (\/ AnswerCreated(c, v, capacity) \/ AnswerExpanded(c, v, capacity)
           \/ AnswerDeleted(c, v)) => HandlersOK' /\ HistoryOK'
  BY <1>1, AnswerTypes
<1>8. ASSUME NEW label \in Labels, NEW v \in Vols,
             h' = [h EXCEPT ![c] = [@ EXCEPT !.at = label, !.vol = v]]
      PROVE  HandlersOK'
  <2> DEFINE r == [h[c] EXCEPT !.at = label, !.vol = v]
  <2>1. r \in Handlers /\ r.vol \in Vols
    BY <1>2 DEF Handlers
  <2>2. h' = [h EXCEPT ![c] = r]
    BY <1>8
  <2> HIDE DEF r
  <2> QED
    BY <1>1, <2>1, <2>2, HandlerStep
<1>9. ASSUME NEW label \in Labels, NEW old \in Capacities, h[c].vol \in Vols,
             h' = [h EXCEPT ![c] = [@ EXCEPT !.at = label, !.old = old]]
      PROVE  HandlersOK'
  <2> DEFINE r == [h[c] EXCEPT !.at = label, !.old = old]
  <2>1. r \in Handlers /\ r.vol \in Vols
    BY <1>2, <1>9 DEF Handlers
  <2>2. h' = [h EXCEPT ![c] = r]
    BY <1>9
  <2> HIDE DEF r
  <2> QED
    BY <1>1, <2>1, <2>2, HandlerStep
<1> USE DEF At, Labels
<1>10. CASE CreateName(c)
  <2>1. HandlersOK' /\ HistoryOK'
    BY <1>10, <1>1, <1>2, <1>4, <1>5, <1>6, <1>7, <1>8 DEF CreateName
  <2>2. StorageOK'
    BY <1>10, <1>1, <1>2, <1>3, CapacityFacts DEF CreateName, StorageOK
  <2> QED
    BY <2>1, <2>2, TypePartsNext
<1>11. CASE CreateGet(c)
  <2>1. HandlersOK' /\ HistoryOK'
    BY <1>11, <1>1, <1>2, <1>4, <1>5, <1>6, <1>7, <1>9 DEF CreateGet, StorageOK
  <2>2. StorageOK'
    BY <1>11, <1>1, <1>2, <1>3, CapacityFacts DEF CreateGet, StorageOK
  <2> QED
    BY <2>1, <2>2, TypePartsNext
<1>12. CASE CreateStat(c)
  <2>1. HandlersOK' /\ HistoryOK'
    BY <1>12, <1>1, <1>2, <1>4, <1>5, <1>6, <1>7 DEF CreateStat
  <2>2. StorageOK'
    BY <1>12, <1>1, <1>2, <1>3, CapacityFacts DEF CreateStat, StorageOK
  <2> QED
    BY <2>1, <2>2, TypePartsNext
<1>13. CASE CreateRefill(c)
  <2>1. HandlersOK' /\ HistoryOK'
    BY <1>13, <1>1, <1>2, <1>4, <1>5, <1>6, <1>7 DEF CreateRefill
  <2>2. StorageOK'
    BY <1>13, <1>1, <1>2, <1>3, CapacityFacts DEF CreateRefill, Populated, StorageOK
  <2> QED
    BY <2>1, <2>2, TypePartsNext
<1>14. CASE CreateInsert(c)
  <2>1. HandlersOK' /\ HistoryOK'
    BY <1>14, <1>1, <1>2, <1>4, <1>5, <1>6, <1>7, <1>8 DEF CreateInsert
  <2>2. StorageOK'
    BY <1>14, <1>1, <1>2, <1>3, CapacityFacts DEF CreateInsert, Inserted, StorageOK
  <2> QED
    BY <2>1, <2>2, TypePartsNext
<1>15. CASE CreateFill(c)
  <2>1. HandlersOK' /\ HistoryOK'
    BY <1>15, <1>1, <1>2, <1>4, <1>5, <1>6, <1>7 DEF CreateFill
  <2>2. StorageOK'
    BY <1>15, <1>1, <1>2, <1>3, CapacityFacts DEF CreateFill, RollBack, Populated, StorageOK
  <2> QED
    BY <2>1, <2>2, TypePartsNext
<1>16. CASE CreateLink(c)
  <2>1. HandlersOK' /\ HistoryOK'
    BY <1>16, <1>1, <1>2, <1>4, <1>5, <1>6, <1>7 DEF CreateLink
  <2>2. StorageOK'
    BY <1>16, <1>1, <1>2, <1>3, CapacityFacts DEF CreateLink, Linked, StorageOK
  <2> QED
    BY <2>1, <2>2, TypePartsNext
<1>17. CASE CreateCommit(c)
  <2>1. HandlersOK' /\ HistoryOK'
    BY <1>17, <1>1, <1>2, <1>4, <1>5, <1>6, <1>7 DEF CreateCommit
  <2>2. StorageOK'
    BY <1>17, <1>1, <1>2, <1>3, CapacityFacts DEF CreateCommit, StorageOK
  <2> QED
    BY <2>1, <2>2, TypePartsNext
<1>18. CASE CreateUndo(c)
  <2>1. HandlersOK' /\ HistoryOK'
    BY <1>18, <1>1, <1>2, <1>4, <1>5, <1>6, <1>7 DEF CreateUndo
  <2>2. StorageOK'
    BY <1>18, <1>1, <1>2, <1>3, CapacityFacts DEF CreateUndo, StorageOK
  <2> QED
    BY <2>1, <2>2, TypePartsNext
<1>19. CASE CreateUnlink(c)
  <2>1. HandlersOK' /\ HistoryOK'
    BY <1>19, <1>1, <1>2, <1>4, <1>5, <1>6, <1>7 DEF CreateUnlink
  <2>2. StorageOK'
    BY <1>19, <1>1, <1>2, <1>3, CapacityFacts DEF CreateUnlink, Unlinked, StorageOK
  <2> QED
    BY <2>1, <2>2, TypePartsNext
<1>20. CASE DeleteGet(c)
  <2>1. HandlersOK' /\ HistoryOK'
    BY <1>20, <1>1, <1>2, <1>4, <1>5, <1>6, <1>7 DEF DeleteGet
  <2>2. StorageOK'
    BY <1>20, <1>1, <1>2, <1>3, CapacityFacts DEF DeleteGet, StorageOK
  <2> QED
    BY <2>1, <2>2, TypePartsNext
<1>21. CASE DeleteReget(c)
  <2>1. HandlersOK' /\ HistoryOK'
    BY <1>21, <1>1, <1>2, <1>4, <1>5, <1>6, <1>7 DEF DeleteReget
  <2>2. StorageOK'
    BY <1>21, <1>1, <1>2, <1>3, CapacityFacts DEF DeleteReget, StorageOK
  <2> QED
    BY <2>1, <2>2, TypePartsNext
<1>22. CASE DeleteRow(c)
  <2>1. HandlersOK' /\ HistoryOK'
    BY <1>22, <1>1, <1>2, <1>4, <1>5, <1>6, <1>7 DEF DeleteRow
  <2>2. StorageOK'
    BY <1>22, <1>1, <1>2, <1>3, CapacityFacts DEF DeleteRow, StorageOK
  <2> QED
    BY <2>1, <2>2, TypePartsNext
<1>23. CASE DeleteLink(c)
  <2>1. HandlersOK' /\ HistoryOK'
    BY <1>23, <1>1, <1>2, <1>4, <1>5, <1>6, <1>7 DEF DeleteLink
  <2>2. StorageOK'
    BY <1>23, <1>1, <1>2, <1>3, CapacityFacts DEF DeleteLink, Unlinked, StorageOK
  <2> QED
    BY <2>1, <2>2, TypePartsNext
<1>24. CASE DeleteData(c)
  <2>1. HandlersOK' /\ HistoryOK'
    BY <1>24, <1>1, <1>2, <1>4, <1>5, <1>6, <1>7 DEF DeleteData
  <2>2. StorageOK'
    BY <1>24, <1>1, <1>2, <1>3, CapacityFacts DEF DeleteData, StorageOK
  <2> QED
    BY <2>1, <2>2, TypePartsNext
<1>25. CASE DeleteCommit(c)
  <2>1. HandlersOK' /\ HistoryOK'
    BY <1>25, <1>1, <1>2, <1>4, <1>5, <1>6, <1>7 DEF DeleteCommit
  <2>2. StorageOK'
    BY <1>25, <1>1, <1>2, <1>3, CapacityFacts DEF DeleteCommit, StorageOK
  <2> QED
    BY <2>1, <2>2, TypePartsNext
<1>26. CASE ExpandGet(c)
  <2>1. HandlersOK' /\ HistoryOK'
    BY <1>26, <1>1, <1>2, <1>4, <1>5, <1>6, <1>7, <1>9 DEF ExpandGet, StorageOK
  <2>2. StorageOK'
    BY <1>26, <1>1, <1>2, <1>3, CapacityFacts DEF ExpandGet, StorageOK
  <2> QED
    BY <2>1, <2>2, TypePartsNext
<1>27. CASE ExpandRow(c)
  <2>1. HandlersOK' /\ HistoryOK'
    BY <1>27, <1>1, <1>2, <1>4, <1>5, <1>6, <1>7 DEF ExpandRow, AfterRow
  <2>2. StorageOK'
    BY <1>27, <1>1, <1>2, <1>3, CapacityFacts DEF ExpandRow, AfterRow, StorageOK
  <2> QED
    BY <2>1, <2>2, TypePartsNext
<1>28. CASE ExpandStat(c)
  <2>1. HandlersOK' /\ HistoryOK'
    BY <1>28, <1>1, <1>2, <1>4, <1>5, <1>6, <1>7 DEF ExpandStat
  <2>2. StorageOK'
    BY <1>28, <1>1, <1>2, <1>3, CapacityFacts DEF ExpandStat, StorageOK
  <2> QED
    BY <2>1, <2>2, TypePartsNext
<1>29. CASE ExpandFile(c)
  <2>1. HandlersOK' /\ HistoryOK'
    BY <1>29, <1>1, <1>2, <1>4, <1>5, <1>6, <1>7 DEF ExpandFile
  <2>2. StorageOK'
    BY <1>29, <1>1, <1>2, <1>3, CapacityFacts DEF ExpandFile, StorageOK
  <2> QED
    BY <2>1, <2>2, TypePartsNext
<1>30. CASE ExpandCommit(c)
  <2>1. HandlersOK' /\ HistoryOK'
    BY <1>30, <1>1, <1>2, <1>4, <1>5, <1>6, <1>7 DEF ExpandCommit
  <2>2. StorageOK'
    BY <1>30, <1>1, <1>2, <1>3, CapacityFacts DEF ExpandCommit, StorageOK
  <2> QED
    BY <2>1, <2>2, TypePartsNext
<1> QED
  BY <1>10, <1>11, <1>12, <1>13, <1>14, <1>15, <1>16, <1>17, <1>18, <1>19, <1>20, <1>21, <1>22, <1>23, <1>24, <1>25, <1>26, <1>27, <1>28, <1>29, <1>30 DEF Step

(* A call that starts keeps the types.                                     *)
LEMMA CallType ==
    ASSUME TypeOK, NEW c \in Controllers, Call(c)
    PROVE  TypeOK'
<1>1. HandlersOK /\ HistoryOK /\ StorageOK
  BY TypeParts
<1>2. HandlersOK' /\ HistoryOK'
  <2>1. ASSUME NEW q \in CreateReqs, CreateCall(c, q)
        PROVE  HandlersOK' /\ HistoryOK'
    <3> DEFINE r == [at |-> "c_name", vol |-> NoVol, info |-> q.info,
                     want |-> FixCapacity(q.bytes), old |-> 0]
    <3>1. r \in Handlers /\ r.at = "c_name"
      BY CapacityFacts DEF Handlers, Labels
    <3>2. h' = [h EXCEPT ![c] = r] /\ UNCHANGED history
      BY <2>1 DEF CreateCall
    <3> HIDE DEF r
    <3> QED
      BY <1>1, <3>1, <3>2, HandlerStep, HistoryFrame
  <2>2. ASSUME NEW v \in created, DeleteCall(c, v)
        PROVE  HandlersOK' /\ HistoryOK'
    <3> DEFINE r == [Idle EXCEPT !.at = "d_get", !.vol = v]
    <3>1. v \in Vols
      BY <1>1 DEF HistoryOK
    <3>2. r \in Handlers /\ r.vol \in Vols
      BY <3>1, CapacityFacts DEF Idle, Handlers, Labels
    <3>3. h' = [h EXCEPT ![c] = r]
      BY <2>2 DEF DeleteCall
    <3>4. HistoryOK'
      BY <1>1, <2>2, <3>1 DEF DeleteCall, HistoryOK
    <3> HIDE DEF r
    <3> QED
      BY <1>1, <3>2, <3>3, <3>4, HandlerStep
  <2>3. ASSUME NEW v \in created, NEW bytes \in ExpandBytes, ExpandCall(c, v, bytes)
        PROVE  HandlersOK' /\ HistoryOK'
    <3> DEFINE r == [Idle EXCEPT !.at = "e_get", !.vol = v,
                                 !.want = FixCapacity(bytes)]
    <3>1. v \in Vols /\ FixCapacity(bytes) \in Capacities
      BY <1>1, <2>3, CapacityFacts DEF HistoryOK, ExpandCall
    <3>2. r \in Handlers /\ r.vol \in Vols
      BY <3>1, CapacityFacts DEF Idle, Handlers, Labels
    <3>3. h' = [h EXCEPT ![c] = r] /\ UNCHANGED history
      BY <2>3 DEF ExpandCall
    <3> HIDE DEF r
    <3> QED
      BY <1>1, <3>2, <3>3, HandlerStep, HistoryFrame
  <2> QED
    BY <2>1, <2>2, <2>3 DEF Call
<1>3. StorageOK'
  BY <1>1 DEF Call, CreateCall, DeleteCall, ExpandCall, storageVars, StorageOK
<1> QED
  BY <1>2, <1>3, TypePartsNext

(* A crash keeps the types.                                                *)
LEMMA CrashType ==
    ASSUME TypeOK, NEW c \in Controllers, Crash(c)
    PROVE  TypeOK'
<1>1. HandlersOK /\ HistoryOK /\ StorageOK
  BY TypeParts
<1>2. HandlersOK' /\ HistoryOK'
  BY <1>1, ErrorType DEF Crash
<1>3. StorageOK'
  BY <1>1, FaultType DEF Crash, StorageOK
<1> QED
  BY <1>2, <1>3, TypePartsNext

(* The initial states have the types.                                      *)
LEMMA InitType == Init => TypeOK
<1> SUFFICES ASSUME Init PROVE TypeOK
  OBVIOUS
<1>1. HandlersOK
  BY IdleIsHandler DEF Init, HandlersOK, Idle
<1>2. HistoryOK
  BY CapacityFacts DEF Init, HistoryOK
<1>3. StorageOK
  BY CapacityFacts, StorageAssumption DEF Init, StorageInit, StorageOK, FaultHistories
<1> QED
  BY <1>1, <1>2, <1>3, TypeParts

(* The type invariant is inductive.                                        *)
LEMMA NextType == TypeOK /\ [Next]_vars => TypeOK'
<1> SUFFICES ASSUME TypeOK, [Next]_vars PROVE TypeOK'
  OBVIOUS
<1>1. CASE UNCHANGED vars
  BY <1>1 DEF vars, TypeOK, StorageTypeOK
<1>2. ASSUME NEW c \in Controllers, ControllerNext(c) PROVE TypeOK'
  BY <1>2, CallType, StepType, CrashType DEF ControllerNext
<1> QED
  BY <1>1, <1>2 DEF Next

(* The type invariant of the controller: every capacity in a row, in a     *)
(* file or promised stays below the limit of 1TiB, and every handler works *)
(* on a volume that was inserted.                                          *)
THEOREM TypeCorrect == Spec => []TypeOK
<1>1. Init => TypeOK
  BY InitType
<1>2. TypeOK /\ [Next]_vars => TypeOK'
  BY NextType
<1> QED
  BY <1>1, <1>2, PTL DEF Spec

-----------------------------------------------------------------------------
(* Answered volumes keep their row and their data: each step of a handler  *)
(* is first shown to do only what StepOK(c) allows; StepOK(c) is then      *)
(* shown to preserve IInv.  What is said of the rows does not depend on    *)
(* the data, which a clean-up may remove beside the controllers.           *)

(* What a step of controller c may do to the rows.                         *)
RowEffect(c) ==
    \A v \in Vols :
        \/ rowState'[v] = rowState[v]
        \/ rowState[v] = "none" /\ rowState'[v] = "open"
        \/ /\ v = h[c].vol /\ rowState[v] = "open" /\ InTransaction(c)
           /\ rowState'[v] \in {"live", "void"}
        \/ rowState[v] = "live" /\ rowState'[v] = "dead" /\ v \in doomed

(* ... to the data ...                                                     *)
DataEffect(c) ==
    \A v \in Vols :
        (disk[v] # Absent /\ disk'[v] = Absent) =>
            v \in doomed \/ (h[c].at = "c_undo" /\ v = h[c].vol)

(* ... to what callers were answered ...                                   *)
AnswerEffect ==
    /\ created \subseteq created'
    /\ doomed \subseteq doomed' /\ doomed' \subseteq created'
    /\ \A v \in created' :
          v \in created \/ rowState'[v] \in {"live", "dead"}

(* ... and to the handlers.                                                *)
HandlerEffect(c) ==
    /\ \A d \in Controllers : d # c => h'[d] = h[d]
    /\ InTransaction(c)' => \/ InTransaction(c) /\ h'[c].vol = h[c].vol
                            \/ rowState[h'[c].vol] = "none"
    /\ HandlerOK(c)'

StepOK(c) == RowEffect(c) /\ DataEffect(c) /\ AnswerEffect /\ HandlerEffect(c)

(* What is answered for or about to be committed has its data.             *)
FillEffect(c) ==
    /\ \A v \in created' : v \in created \/ disk'[v] # Absent
    /\ Filled(c)'

-----------------------------------------------------------------------------
(* A committed row stays committed.                                        *)
LEMMA CommittedStays ==
    ASSUME TypeOK, NEW c \in Controllers, RowEffect(c), NEW v \in Vols
    PROVE  /\ IsCommitted(v) => IsCommitted(v)'
           /\ rowState[v] = "void" => rowState'[v] = "void"
BY DEF RowEffect, IsCommitted, TypeOK, StorageTypeOK

(* The handlers of the other controllers are not disturbed.                *)
LEMMA OthersOK ==
    ASSUME TypeOK, RowsInv, SoloOrCertain, NEW c \in Controllers, StepOK(c),
           NEW d \in Controllers, d # c
    PROVE  HandlerOK(d)'
<1> DEFINE v == h[d].vol
<1>1. h'[d] = h[d] /\ HandlerOK(d)
  BY DEF StepOK, HandlerEffect, RowsInv
<1>2. doomed \subseteq doomed' /\ created \subseteq created'
  BY DEF StepOK, AnswerEffect
<1>3. v \in Vols \/ h[d].at \in {"idle", "c_name", "c_insert"}
  BY DEF TypeOK
<1>4. h[d].at # "c_undo"
  BY <1>1 DEF SoloOrCertain, HandlerOK
<1>5. ASSUME InTransaction(d) PROVE rowState'[v] = "open"
  <2>1. v \in Vols /\ rowState[v] = "open"
    BY <1>1, <1>5 DEF HandlerOK
  <2>2. ~(InTransaction(c) /\ h[c].vol = v)
    BY <1>5 DEF RowsInv, OwnTransaction
  <2> QED
    BY <2>1, <2>2 DEF StepOK, RowEffect
<1>7. ASSUME v \in Vols
      PROVE  /\ rowState[v] \in {"live", "dead"} => rowState'[v] \in {"live", "dead"}
             /\ rowState[v] = "void" => rowState'[v] = "void"
  BY <1>7 DEF StepOK, RowEffect
<1> HIDE DEF v
<1>8. InTransaction(d)' <=> InTransaction(d)
  BY <1>1 DEF InTransaction
<1> QED
  BY <1>1, <1>2, <1>3, <1>4, <1>5, <1>7, <1>8 DEF HandlerOK, IsCommitted, v

(* What a step of c may do keeps the invariant of rows, answers and        *)
(* handlers.                                                               *)
LEMMA StepKeepsRows ==
    ASSUME TypeOK, TypeOK', RowsInv, SoloOrCertain, NEW c \in Controllers, StepOK(c)
    PROVE  RowsInv'
<1>1. AnswersCommitted'
  BY CommittedStays DEF StepOK, AnswerEffect, RowsInv, AnswersCommitted, IsCommitted, TypeOK
<1>2. DeletedWhenAsked'
  BY DEF StepOK, AnswerEffect, RowEffect, RowsInv, DeletedWhenAsked
<1>3. \A d \in Controllers : HandlerOK(d)'
  BY OthersOK DEF StepOK, HandlerEffect
<1>4. OwnTransaction'
  <2> SUFFICES ASSUME NEW a \in Controllers, NEW b \in Controllers, a # b,
                      InTransaction(a)', InTransaction(b)', h'[a].vol = h'[b].vol
               PROVE  FALSE
    BY DEF OwnTransaction
  <2>1. ASSUME NEW d \in Controllers, d # c, InTransaction(d)',
               InTransaction(c)', h'[c].vol = h'[d].vol
        PROVE  FALSE
    <3>1. InTransaction(d) /\ h'[d] = h[d]
      BY <2>1 DEF StepOK, HandlerEffect, InTransaction
    <3>2. rowState[h[d].vol] = "open"
      BY <3>1 DEF RowsInv, HandlerOK
    <3>3. InTransaction(c) /\ h'[c].vol = h[c].vol
      BY <2>1, <3>1, <3>2 DEF StepOK, HandlerEffect
    <3> QED
      BY <2>1, <3>1, <3>3 DEF RowsInv, OwnTransaction
  <2>2. ASSUME a # c, b # c PROVE FALSE
    <3>1. h'[a] = h[a] /\ h'[b] = h[b]
      BY <2>2 DEF StepOK, HandlerEffect
    <3> QED
      BY <3>1 DEF InTransaction, RowsInv, OwnTransaction
  <2> QED
    BY <2>1, <2>2
<1> QED
  BY <1>1, <1>2, <1>3, <1>4 DEF RowsInv

(* A volume callers hold has a live row.                                   *)
LEMMA HeldIsLive ==
    ASSUME TypeOK, RowsInv
    PROVE  \A v \in Held : v \in Vols /\ rowState[v] = "live"
BY DEF TypeOK, RowsInv, AnswersCommitted, DeletedWhenAsked, IsCommitted, Held

(* A step of c takes no data from a volume that is held before and after,  *)
(* nor from a transaction.                                                 *)
LEMMA DataStays ==
    ASSUME TypeOK, RowsInv, NEW c \in Controllers, StepOK(c), NEW v \in Vols,
           disk[v] # Absent,
           (v \in created /\ v \notin doomed) \/ rowState[v] = "open"
    PROVE  disk'[v] # Absent
<1>1. v \notin doomed
  BY DEF RowsInv, AnswersCommitted, DeletedWhenAsked, IsCommitted
<1>2. ~(h[c].at = "c_undo" /\ v = h[c].vol)
  BY <1>1 DEF RowsInv, HandlerOK
<1> QED
  BY <1>1, <1>2 DEF StepOK, DataEffect

(* With the data that new answers have, the whole invariant is kept.       *)
LEMMA StepPreserves ==
    ASSUME TypeOK, TypeOK', IInv, SoloOrCertain, NEW c \in Controllers, StepOK(c),
           FillEffect(c)
    PROVE  IInv'
<1>1. RowsInv /\ RowsInv'
  BY StepKeepsRows DEF IInv
<1>2. AckedHasData'
  <2> SUFFICES ASSUME NEW v \in Vols, v \in created', v \notin doomed'
               PROVE  rowState'[v] = "live" /\ disk'[v] # Absent
    BY DEF AckedHasData, Held, TypeOK
  <2>1. rowState'[v] = "live"
    BY <1>1 DEF RowsInv, AnswersCommitted, DeletedWhenAsked, IsCommitted
  <2>2. v \notin doomed
    BY DEF StepOK, AnswerEffect
  <2>3. CASE v \notin created
    BY <2>1, <2>3 DEF FillEffect
  <2>4. CASE v \in created
    <3>1. disk[v] # Absent
      BY <2>2, <2>4 DEF IInv, AckedHasData, Held
    <3> QED
      BY <1>1, <2>1, <2>2, <2>4, <3>1, DataStays
  <2> QED
    BY <2>3, <2>4
<1>3. ASSUME NEW d \in Controllers PROVE Filled(d)'
  <2>1. CASE d = c
    BY <2>1 DEF FillEffect
  <2>2. CASE d # c
    <3>1. h'[d] = h[d] /\ Filled(d)
      BY <2>2 DEF StepOK, HandlerEffect, IInv
    <3>2. InTransaction(d) => h[d].vol \in Vols /\ rowState[h[d].vol] = "open"
      BY <1>1 DEF RowsInv, HandlerOK
    <3> QED
      BY <1>1, <3>1, <3>2, DataStays DEF Filled, InTransaction
  <2> QED
    BY <2>1, <2>2
<1> QED
  BY <1>1, <1>2, <1>3 DEF IInv

-----------------------------------------------------------------------------
(* How a step leaves the records of the handlers.                          *)
LEMMA Moves ==
    ASSUME TypeOK, NEW c \in Controllers
    PROVE  /\ \A label : Goto(c, label) =>
                 /\ h'[c].at = label /\ h'[c].vol = h[c].vol
                 /\ h'[c].info = h[c].info /\ h'[c].want = h[c].want
                 /\ h'[c].old = h[c].old
                 /\ \A d \in Controllers : d # c => h'[d] = h[d]
           /\ Return(c) =>
                 /\ h'[c].at = "idle" /\ h'[c].vol = NoVol
                 /\ \A d \in Controllers : d # c => h'[d] = h[d]
<1>1. h \in [Controllers -> Handlers]
  BY DEF TypeOK
<1> QED
  BY <1>1 DEF Goto, Return, Idle, Handlers

(* Every step of a handler has no other effects than StepOK allows.        *)
LEMMA StepEffects ==
    ASSUME TypeOK, TypeOK', RowsInv, NEW c \in Controllers, Step(c)
    PROVE  StepOK(c)
<1> DEFINE v == h[c].vol
<1>1. HandlerOK(c) /\ AnswersCommitted /\ DeletedWhenAsked
  BY DEF RowsInv
<1>2. /\ h \in [Controllers -> Handlers]
      /\ h[c].at \in {"idle", "c_name", "c_insert"} \/ v \in Vols
      /\ h[c].want # Absent /\ h[c].old # Absent /\ 0 # Absent
  BY CapacityFacts DEF TypeOK, Handlers
<1>3. /\ disk \in [Vols -> Capacities \cup {Absent}]
      /\ rowState \in [Vols -> {"none", "open", "live", "dead", "void"}]
      /\ created \subseteq Vols /\ doomed \subseteq created
  BY <1>1 DEF TypeOK, StorageTypeOK, DeletedWhenAsked
<1>4. UNCHANGED history => AnswerEffect
  BY <1>3 DEF history, AnswerEffect
<1>5. AnswerError(c) => AnswerEffect
  BY <1>4 DEF AnswerError
<1>6. UNCHANGED rowState => RowEffect(c)
  BY DEF RowEffect
<1>7. UNCHANGED disk => DataEffect(c)
  BY DEF DataEffect
<1> USE DEF At
<1>8. CASE CreateName(c)
  <2>1. RowEffect(c)
    BY <1>8, <1>6 DEF CreateName
  <2>2. DataEffect(c)
    BY <1>8, <1>7 DEF CreateName
  <2>3. AnswerEffect
    BY <1>8, <1>4, <1>5 DEF CreateName
  <2>4. HandlerEffect(c)
    <3>1. UNCHANGED <<rowState, disk>>
      BY <1>8 DEF CreateName
    <3>1a. h[c].at = "c_name" /\ UNCHANGED history
      BY <1>8 DEF CreateName
    <3>2. ASSUME NEW u \in Vols, Found(u),
                 h' = [h EXCEPT ![c] = [@ EXCEPT !.at = "c_get", !.vol = u]]
          PROVE  HandlerEffect(c)
      <4>1. /\ h'[c].at = "c_get" /\ h'[c].vol = u
            /\ \A d \in Controllers : d # c => h'[d] = h[d]
        BY <3>2, <1>2 DEF Handlers
      <4> QED
        BY <1>8, <1>1, <1>2, <1>3, <3>1, <3>2, <4>1
           DEF CreateName, HandlerEffect, HandlerOK, InTransaction,
               IsCommitted, IsFirstNamed, Named, Found
    <3>3. ASSUME Goto(c, "c_insert"), UNCHANGED history
          PROVE  HandlerEffect(c)
      BY <1>1, <1>2, <1>3, <3>1, <3>3, <3>1a, Moves
         DEF HandlerEffect, HandlerOK, InTransaction, IsCommitted,
             AnswerError, history
    <3> QED
      BY <1>8, <3>2, <3>3, <3>1a DEF CreateName, IsFirstNamed, Named, Found
  <2> QED
    BY <2>1, <2>2, <2>3, <2>4 DEF StepOK
<1>9. CASE CreateGet(c)
  <2>1. RowEffect(c)
    BY <1>9, <1>6 DEF CreateGet
  <2>2. DataEffect(c)
    BY <1>9, <1>7 DEF CreateGet
  <2>3. AnswerEffect
    BY <1>9, <1>4, <1>5 DEF CreateGet
  <2>4. HandlerEffect(c)
    <3>1. UNCHANGED <<rowState, disk>>
      BY <1>9 DEF CreateGet
    <3>2. ASSUME Found(v), UNCHANGED history,
                 h' = [h EXCEPT ![c] = [@ EXCEPT !.at = "c_stat", !.old = rowCap[v]]]
          PROVE  HandlerEffect(c)
      <4>1. /\ h'[c].at = "c_stat" /\ h'[c].vol = v
            /\ \A d \in Controllers : d # c => h'[d] = h[d]
        BY <3>2, <1>2 DEF Handlers
      <4> QED
        BY <1>9, <1>1, <1>2, <1>3, <3>1, <3>2, <4>1
           DEF CreateGet, HandlerEffect, HandlerOK, InTransaction,
               IsCommitted, Found
    <3>3. ASSUME AnswerError(c)
          PROVE  HandlerEffect(c)
      BY <1>9, <1>1, <1>2, <1>3, <3>1, <3>3, Moves
         DEF CreateGet, HandlerEffect, HandlerOK, InTransaction, IsCommitted,
             AnswerError, history
    <3> QED
      BY <1>9, <3>2, <3>3 DEF CreateGet, Found
  <2> QED
    BY <2>1, <2>2, <2>3, <2>4 DEF StepOK
<1>10. CASE CreateStat(c)
  <2>1. RowEffect(c)
    BY <1>10, <1>6 DEF CreateStat
  <2>2. DataEffect(c)
    BY <1>10, <1>7 DEF CreateStat
  <2>3. AnswerEffect
    BY <1>10, <1>1, <1>2, <1>3, <1>4, <1>5
       DEF CreateStat, Missing, HandlerOK, IsCommitted, AnswerEffect,
           AnswerCreated
  <2>4. HandlerEffect(c)
    BY <1>10, <1>1, <1>2, <1>3, Moves
       DEF CreateStat, Missing, HandlerEffect, HandlerOK, InTransaction,
           IsCommitted, AnswerError, AnswerCreated, history
  <2> QED
    BY <2>1, <2>2, <2>3, <2>4 DEF StepOK
<1>11. CASE CreateRefill(c)
  <2>1. RowEffect(c)
    BY <1>11, <1>6 DEF CreateRefill
  <2>2. DataEffect(c)
    BY <1>11, <1>1, <1>2, <1>3
       DEF CreateRefill, Populated, DataEffect, HandlerOK
  <2>3. AnswerEffect
    BY <1>11, <1>1, <1>2, <1>3, <1>4, <1>5
       DEF CreateRefill, Populated, HandlerOK, IsCommitted, AnswerEffect,
           AnswerCreated
  <2>4. HandlerEffect(c)
    BY <1>11, <1>1, <1>2, <1>3, Moves
       DEF CreateRefill, Populated, HandlerEffect, HandlerOK, InTransaction,
           IsCommitted, AnswerError, AnswerCreated, history
  <2> QED
    BY <2>1, <2>2, <2>3, <2>4 DEF StepOK
<1>12. CASE CreateInsert(c)
  <2>1. RowEffect(c)
    BY <1>12, <1>1, <1>3
       DEF CreateInsert, Fresh, Inserted, RowEffect, HandlerOK, InTransaction
  <2>2. DataEffect(c)
    BY <1>12, <1>7 DEF CreateInsert
  <2>3. AnswerEffect
    BY <1>12, <1>4, <1>5 DEF CreateInsert
  <2>4. HandlerEffect(c)
    <3>1. UNCHANGED <<disk>>
      BY <1>12 DEF CreateInsert
    <3>2. ASSUME NEW u \in Vols, Fresh(u), UNCHANGED history,
                 rowState' = [rowState EXCEPT ![u] = Inserted],
                 h' = [h EXCEPT ![c] = [@ EXCEPT !.at = "c_fill", !.vol = u]]
          PROVE  HandlerEffect(c)
      <4>1. /\ h'[c].at = "c_fill" /\ h'[c].vol = u
            /\ \A d \in Controllers : d # c => h'[d] = h[d]
        BY <3>2, <1>2 DEF Handlers
      <4> QED
        BY <1>12, <1>1, <1>2, <1>3, <3>1, <3>2, <4>1
           DEF HandlerEffect, HandlerOK, InTransaction, IsCommitted, Fresh,
               Inserted
    <3>3. ASSUME AnswerError(c), UNCHANGED rowState
          PROVE  HandlerEffect(c)
      BY <1>12, <1>1, <1>2, <1>3, <3>1, <3>3, Moves
         DEF HandlerEffect, HandlerOK, InTransaction, IsCommitted,
             AnswerError, history
    <3> QED
      BY <1>12, <3>2, <3>3 DEF CreateInsert, Fresh, Inserted
  <2> QED
    BY <2>1, <2>2, <2>3, <2>4 DEF StepOK
<1>13. CASE CreateFill(c)
  <2>1. RowEffect(c)
    BY <1>13, <1>1, <1>3
       DEF CreateFill, RollBack, Populated, RowEffect, HandlerOK,
           InTransaction
  <2>2. DataEffect(c)
    BY <1>13, <1>1, <1>2, <1>3
       DEF CreateFill, RollBack, Populated, DataEffect, HandlerOK
  <2>3. AnswerEffect
    BY <1>13, <1>4, <1>5 DEF CreateFill
  <2>4. HandlerEffect(c)
    BY <1>13, <1>1, <1>2, <1>3, Moves
       DEF CreateFill, RollBack, Populated, HandlerEffect, HandlerOK,
           InTransaction, IsCommitted, AnswerError, history
  <2> QED
    BY <2>1, <2>2, <2>3, <2>4 DEF StepOK
<1>14. CASE CreateLink(c)
  <2>1. RowEffect(c)
    BY <1>14, <1>6 DEF CreateLink
  <2>2. DataEffect(c)
    BY <1>14, <1>7 DEF CreateLink
  <2>3. AnswerEffect
    BY <1>14, <1>4, <1>5 DEF CreateLink
  <2>4. HandlerEffect(c)
    BY <1>14, <1>1, <1>2, <1>3, Moves
       DEF CreateLink, HandlerEffect, HandlerOK, InTransaction, IsCommitted,
           AnswerError, history
  <2> QED
    BY <2>1, <2>2, <2>3, <2>4 DEF StepOK
<1>15. CASE CreateCommit(c)
  <2>1. RowEffect(c)
    BY <1>15, <1>1, <1>3 DEF CreateCommit, RowEffect, HandlerOK, InTransaction
  <2>2. DataEffect(c)
    BY <1>15, <1>7 DEF CreateCommit
  <2>3. AnswerEffect
    BY <1>15, <1>1, <1>2, <1>3, <1>4, <1>5
       DEF CreateCommit, HandlerOK, IsCommitted, AnswerEffect, AnswerCreated
  <2>4. HandlerEffect(c)
    BY <1>15, <1>1, <1>2, <1>3, Moves
       DEF CreateCommit, HandlerEffect, HandlerOK, InTransaction,
           IsCommitted, AnswerError, AnswerCreated, history, Fault,
           AnswersCommitted
  <2> QED
    BY <2>1, <2>2, <2>3, <2>4 DEF StepOK
<1>16. CASE CreateUndo(c)
  <2>1. RowEffect(c)
    BY <1>16, <1>6 DEF CreateUndo
  <2>2. DataEffect(c)
    BY <1>16, <1>1, <1>2, <1>3 DEF CreateUndo, DataEffect, HandlerOK
  <2>3. AnswerEffect
    BY <1>16, <1>4, <1>5 DEF CreateUndo
  <2>4. HandlerEffect(c)
    BY <1>16, <1>1, <1>2, <1>3, Moves
       DEF CreateUndo, HandlerEffect, HandlerOK, InTransaction, IsCommitted,
           AnswerError, history
  <2> QED
    BY <2>1, <2>2, <2>3, <2>4 DEF StepOK
<1>17. CASE CreateUnlink(c)
  <2>1. RowEffect(c)
    BY <1>17, <1>6 DEF CreateUnlink
  <2>2. DataEffect(c)
    BY <1>17, <1>7 DEF CreateUnlink
  <2>3. AnswerEffect
    BY <1>17, <1>4, <1>5 DEF CreateUnlink
  <2>4. HandlerEffect(c)
    BY <1>17, <1>1, <1>2, <1>3, Moves
       DEF CreateUnlink, HandlerEffect, HandlerOK, InTransaction,
           IsCommitted, AnswerError, history
  <2> QED
    BY <2>1, <2>2, <2>3, <2>4 DEF StepOK
<1>18. CASE DeleteGet(c)
  <2>1. RowEffect(c)
    BY <1>18, <1>6 DEF DeleteGet
  <2>2. DataEffect(c)
    BY <1>18, <1>7 DEF DeleteGet
  <2>3. AnswerEffect
    BY <1>18, <1>3, <1>4, <1>5 DEF DeleteGet, AnswerEffect, AnswerDeleted
  <2>4. HandlerEffect(c)
    BY <1>18, <1>1, <1>2, <1>3, Moves
       DEF DeleteGet, Found, HandlerEffect, HandlerOK, InTransaction,
           IsCommitted, AnswerError, AnswerDeleted, history
  <2> QED
    BY <2>1, <2>2, <2>3, <2>4 DEF StepOK
<1>19. CASE DeleteReget(c)
  <2>1. RowEffect(c)
    BY <1>19, <1>6 DEF DeleteReget
  <2>2. DataEffect(c)
    BY <1>19, <1>7 DEF DeleteReget
  <2>3. AnswerEffect
    BY <1>19, <1>4, <1>5 DEF DeleteReget
  <2>4. HandlerEffect(c)
    BY <1>19, <1>1, <1>2, <1>3, Moves
       DEF DeleteReget, Found, HandlerEffect, HandlerOK, InTransaction,
           IsCommitted, AnswerError, history
  <2> QED
    BY <2>1, <2>2, <2>3, <2>4 DEF StepOK
<1>20. CASE DeleteRow(c)
  <2>1. RowEffect(c)
    BY <1>20, <1>1, <1>3
       DEF DeleteRow, Found, RowEffect, HandlerOK, InTransaction
  <2>2. DataEffect(c)
    BY <1>20, <1>7 DEF DeleteRow
  <2>3. AnswerEffect
    BY <1>20, <1>4, <1>5 DEF DeleteRow
  <2>4. HandlerEffect(c)
    BY <1>20, <1>1, <1>2, <1>3, Moves
       DEF DeleteRow, Found, HandlerEffect, HandlerOK, InTransaction,
           IsCommitted, AnswerError, history
  <2> QED
    BY <2>1, <2>2, <2>3, <2>4 DEF StepOK
<1>21. CASE DeleteLink(c)
  <2>1. RowEffect(c)
    BY <1>21, <1>6 DEF DeleteLink
  <2>2. DataEffect(c)
    BY <1>21, <1>7 DEF DeleteLink
  <2>3. AnswerEffect
    BY <1>21, <1>4, <1>5 DEF DeleteLink
  <2>4. HandlerEffect(c)
    BY <1>21, <1>1, <1>2, <1>3, Moves
       DEF DeleteLink, HandlerEffect, HandlerOK, InTransaction, IsCommitted,
           AnswerError, history
  <2> QED
    BY <2>1, <2>2, <2>3, <2>4 DEF StepOK
<1>22. CASE DeleteData(c)
  <2>1. RowEffect(c)
    BY <1>22, <1>6 DEF DeleteData
  <2>2. DataEffect(c)
    BY <1>22, <1>1, <1>2, <1>3 DEF DeleteData, DataEffect, HandlerOK
  <2>3. AnswerEffect
    BY <1>22, <1>4, <1>5 DEF DeleteData
  <2>4. HandlerEffect(c)
    BY <1>22, <1>1, <1>2, <1>3, Moves
       DEF DeleteData, HandlerEffect, HandlerOK, InTransaction, IsCommitted,
           AnswerError, history
  <2> QED
    BY <2>1, <2>2, <2>3, <2>4 DEF StepOK
<1>23. CASE DeleteCommit(c)
  <2>1. RowEffect(c)
    BY <1>23, <1>6 DEF DeleteCommit
  <2>2. DataEffect(c)
    BY <1>23, <1>7 DEF DeleteCommit
  <2>3. AnswerEffect
    BY <1>23, <1>3, <1>4, <1>5 DEF DeleteCommit, AnswerEffect, AnswerDeleted
  <2>4. HandlerEffect(c)
    BY <1>23, <1>1, <1>2, <1>3, Moves
       DEF DeleteCommit, HandlerEffect, HandlerOK, InTransaction,
           IsCommitted, AnswerError, AnswerDeleted, history
  <2> QED
    BY <2>1, <2>2, <2>3, <2>4 DEF StepOK
<1>24. CASE ExpandGet(c)
  <2>1. RowEffect(c)
    BY <1>24, <1>6 DEF ExpandGet
  <2>2. DataEffect(c)
    BY <1>24, <1>7 DEF ExpandGet
  <2>3. AnswerEffect
    BY <1>24, <1>3, <1>4, <1>5 DEF ExpandGet, AnswerEffect, AnswerExpanded
  <2>4. HandlerEffect(c)
    <3>1. UNCHANGED <<rowState, disk>>
      BY <1>24 DEF ExpandGet
    <3>2. ASSUME Found(v), UNCHANGED history,
                 h' = [h EXCEPT ![c] = [@ EXCEPT !.at = "e_row", !.old = rowCap[v]]]
          PROVE  HandlerEffect(c)
      <4>1. /\ h'[c].at = "e_row" /\ h'[c].vol = v
            /\ \A d \in Controllers : d # c => h'[d] = h[d]
        BY <3>2, <1>2 DEF Handlers
      <4> QED
        BY <1>24, <1>1, <1>2, <1>3, <3>1, <3>2, <4>1
           DEF ExpandGet, HandlerEffect, HandlerOK, InTransaction,
               IsCommitted, Found
    <3>3. ASSUME AnswerError(c) \/ AnswerExpanded(c, v, rowCap[v])
          PROVE  HandlerEffect(c)
      BY <1>24, <1>1, <1>2, <1>3, <3>1, <3>3, Moves
         DEF ExpandGet, HandlerEffect, HandlerOK, InTransaction, IsCommitted,
             AnswerError, AnswerExpanded, history
    <3> QED
      BY <1>24, <3>2, <3>3 DEF ExpandGet, Found
  <2> QED
    BY <2>1, <2>2, <2>3, <2>4 DEF StepOK
<1>25. CASE ExpandRow(c)
  <2>1. RowEffect(c)
    BY <1>25, <1>6 DEF ExpandRow
  <2>2. DataEffect(c)
    BY <1>25, <1>7 DEF ExpandRow
  <2>3. AnswerEffect
    BY <1>25, <1>4, <1>5 DEF ExpandRow
  <2>4. HandlerEffect(c)
    BY <1>25, <1>1, <1>2, <1>3, Moves
       DEF ExpandRow, AfterRow, HandlerEffect, HandlerOK, InTransaction,
           IsCommitted, AnswerError, history
  <2> QED
    BY <2>1, <2>2, <2>3, <2>4 DEF StepOK
<1>26. CASE ExpandStat(c)
  <2>1. RowEffect(c)
    BY <1>26, <1>6 DEF ExpandStat
  <2>2. DataEffect(c)
    BY <1>26, <1>7 DEF ExpandStat
  <2>3. AnswerEffect
    BY <1>26, <1>4, <1>5 DEF ExpandStat
  <2>4. HandlerEffect(c)
    BY <1>26, <1>1, <1>2, <1>3, Moves
       DEF ExpandStat, HandlerEffect, HandlerOK, InTransaction, IsCommitted,
           AnswerError, history
  <2> QED
    BY <2>1, <2>2, <2>3, <2>4 DEF StepOK
<1>27. CASE ExpandFile(c)
  <2>1. RowEffect(c)
    BY <1>27, <1>6 DEF ExpandFile
  <2>2. DataEffect(c)
    BY <1>27, <1>1, <1>2, <1>3 DEF ExpandFile, DataEffect, HandlerOK
  <2>3. AnswerEffect
    BY <1>27, <1>4, <1>5 DEF ExpandFile
  <2>4. HandlerEffect(c)
    BY <1>27, <1>1, <1>2, <1>3, Moves
       DEF ExpandFile, HandlerEffect, HandlerOK, InTransaction, IsCommitted,
           AnswerError, history
  <2> QED
    BY <2>1, <2>2, <2>3, <2>4 DEF StepOK
<1>28. CASE ExpandCommit(c)
  <2>1. RowEffect(c)
    BY <1>28, <1>6 DEF ExpandCommit
  <2>2. DataEffect(c)
    BY <1>28, <1>7 DEF ExpandCommit
  <2>3. AnswerEffect
    BY <1>28, <1>3, <1>4, <1>5 DEF ExpandCommit, AnswerEffect, AnswerExpanded
  <2>4. HandlerEffect(c)
    BY <1>28, <1>1, <1>2, <1>3, Moves
       DEF ExpandCommit, HandlerEffect, HandlerOK, InTransaction,
           IsCommitted, AnswerError, AnswerExpanded, history
  <2> QED
    BY <2>1, <2>2, <2>3, <2>4 DEF StepOK
<1> QED
  BY <1>8, <1>9, <1>10, <1>11, <1>12, <1>13, <1>14, <1>15, <1>16, <1>17,
     <1>18, <1>19, <1>20, <1>21, <1>22, <1>23, <1>24, <1>25, <1>26, <1>27,
     <1>28
     DEF Step

(* Nor has a call that starts.                                             *)
LEMMA CallEffects ==
    ASSUME TypeOK, RowsInv, NEW c \in Controllers, Call(c)
    PROVE  StepOK(c)
<1>1. HandlerOK(c) /\ AnswersCommitted /\ DeletedWhenAsked
  BY DEF RowsInv
<1>2. h \in [Controllers -> Handlers] /\ created \subseteq Vols
  BY DEF TypeOK
<1>3. UNCHANGED storageVars /\ created' = created
  BY DEF Call, CreateCall, DeleteCall, ExpandCall, history
<1>4. RowEffect(c) /\ DataEffect(c)
  BY <1>3 DEF storageVars, RowEffect, DataEffect
<1>5. doomed \subseteq doomed' /\ doomed' \subseteq created
  BY <1>1
     DEF Call, CreateCall, DeleteCall, ExpandCall, history, DeletedWhenAsked
<1>6. AnswerEffect
  BY <1>3, <1>5 DEF AnswerEffect
<1>7. \A d \in Controllers : d # c => h'[d] = h[d]
  BY <1>2 DEF Call, CreateCall, DeleteCall, ExpandCall
<1>8. \/ h'[c].at = "c_name" /\ h'[c].vol = NoVol
      \/ h'[c].at = "d_get" /\ h'[c].vol \in doomed' /\ h'[c].vol \in created
      \/ h'[c].at = "e_get" /\ h'[c].vol \in created
  <2>1. ASSUME NEW q \in CreateReqs, CreateCall(c, q)
        PROVE  h'[c].at = "c_name" /\ h'[c].vol = NoVol
    BY <2>1, <1>2 DEF CreateCall
  <2>2. ASSUME NEW v \in created, DeleteCall(c, v)
        PROVE  h'[c].at = "d_get" /\ h'[c].vol = v /\ v \in doomed'
    BY <2>2, <1>2 DEF DeleteCall, Idle
  <2>3. ASSUME NEW v \in created, NEW bytes \in ExpandBytes, ExpandCall(c, v, bytes)
        PROVE  h'[c].at = "e_get" /\ h'[c].vol = v
    BY <2>3, <1>2 DEF ExpandCall, Idle
  <2> QED
    BY <2>1, <2>2, <2>3 DEF Call
<1>9. h'[c].vol \in created => h'[c].vol \in Vols /\ rowState'[h'[c].vol] \in {"live", "dead"}
  BY <1>1, <1>2, <1>3 DEF AnswersCommitted, IsCommitted, storageVars
<1>10. HandlerEffect(c)
  BY <1>7, <1>8, <1>9 DEF HandlerEffect, HandlerOK, InTransaction, IsCommitted
<1> QED
  BY <1>4, <1>6, <1>10 DEF StepOK

(* Nor has a crash.                                                        *)
LEMMA CrashEffects ==
    ASSUME TypeOK, RowsInv, NEW c \in Controllers, Crash(c)
    PROVE  StepOK(c)
<1> DEFINE v == h[c].vol
<1>1. HandlerOK(c) /\ DeletedWhenAsked
  BY DEF RowsInv
<1>2. \A u \in Vols : rowState'[u] = IF v = u /\ rowState[u] = "open"
                                     THEN "void" ELSE rowState[u]
  BY DEF Crash
<1>3. v \in Vols /\ rowState[v] = "open" => InTransaction(c)
  <2>1. /\ h[c].at \in Labels
        /\ v \in Vols => v # NoVol
    BY DEF TypeOK, Handlers, Vols, NoVol
  <2> QED
    BY <1>1, <2>1 DEF HandlerOK, InTransaction, IsCommitted, Labels
<1>4. RowEffect(c)
  BY <1>2, <1>3 DEF RowEffect
<1>5. DataEffect(c)
  BY DEF Crash, DataEffect
<1>6. AnswerEffect
  BY <1>1 DEF Crash, AnswerError, history, AnswerEffect, DeletedWhenAsked
<1>7. HandlerEffect(c)
  BY Moves DEF Crash, AnswerError, HandlerEffect, HandlerOK, InTransaction
<1> QED
  BY <1>4, <1>5, <1>6, <1>7 DEF StepOK

(* The statements of a transaction follow each other.                      *)
LEMMA StepsElsewhere ==
    ASSUME TypeOK, NEW c \in Controllers, Step(c), ~CreateFill(c), ~CreateLink(c)
    PROVE  h'[c].at \notin {"c_link", "c_commit"}
<1>1. h \in [Controllers -> Handlers]
  BY DEF TypeOK
<1>2. CASE CreateName(c) \/ CreateGet(c) \/ CreateInsert(c) \/ ExpandGet(c)
  <2>1. ASSUME NEW u, h' = [h EXCEPT ![c] = [@ EXCEPT !.at = "c_get", !.vol = u]]
        PROVE  h'[c].at = "c_get"
    BY <1>1, <2>1 DEF Handlers
  <2>2. ASSUME NEW u, h' = [h EXCEPT ![c] = [@ EXCEPT !.at = "c_stat", !.old = u]]
        PROVE  h'[c].at = "c_stat"
    BY <1>1, <2>2 DEF Handlers
  <2>3. ASSUME NEW u, h' = [h EXCEPT ![c] = [@ EXCEPT !.at = "c_fill", !.vol = u]]
        PROVE  h'[c].at = "c_fill"
    BY <1>1, <2>3 DEF Handlers
  <2>4. ASSUME NEW u, h' = [h EXCEPT ![c] = [@ EXCEPT !.at = "e_row", !.old = u]]
        PROVE  h'[c].at = "e_row"
    BY <1>1, <2>4 DEF Handlers
  <2>5. CASE CreateName(c)
    <3>1. \/ \E u \in Vols : h' = [h EXCEPT ![c] = [@ EXCEPT !.at = "c_get", !.vol = u]]
          \/ Goto(c, "c_insert")
      BY <2>5 DEF CreateName
    <3>2. CASE Goto(c, "c_insert")
      BY <3>2, Moves
    <3>3. CASE \E u \in Vols : h' = [h EXCEPT ![c] = [@ EXCEPT !.at = "c_get", !.vol = u]]
      <4>1. PICK u \in Vols : h' = [h EXCEPT ![c] = [@ EXCEPT !.at = "c_get", !.vol = u]]
        BY <3>3
      <4> QED
        BY <2>1, <4>1
    <3> QED
      BY <3>1, <3>2, <3>3
  <2>6. CASE CreateGet(c)
    BY <2>2, <2>6, Moves DEF CreateGet, AnswerError
  <2>7. CASE CreateInsert(c)
    BY <2>3, <2>7, Moves DEF CreateInsert, AnswerError
  <2>8. CASE ExpandGet(c)
    BY <2>4, <2>8, Moves DEF ExpandGet, AnswerError, AnswerExpanded
  <2> QED
    BY <1>2, <2>5, <2>6, <2>7, <2>8
<1>3. CASE CreateStat(c) \/ CreateRefill(c) \/ CreateCommit(c) \/ CreateUndo(c) \/ CreateUnlink(c)
  BY <1>3, Moves DEF CreateStat, CreateRefill, CreateCommit, CreateUndo, CreateUnlink,
     AnswerError, AnswerCreated
<1>4. CASE DeleteGet(c) \/ DeleteReget(c) \/ DeleteRow(c) \/ DeleteLink(c) \/ DeleteData(c)
           \/ DeleteCommit(c)
  BY <1>4, Moves DEF DeleteGet, DeleteReget, DeleteRow, DeleteLink, DeleteData, DeleteCommit,
     AnswerError, AnswerDeleted
<1>5. CASE ExpandRow(c) \/ ExpandStat(c) \/ ExpandFile(c) \/ ExpandCommit(c)
  BY <1>5, Moves DEF ExpandRow, AfterRow, ExpandStat, ExpandFile, ExpandCommit,
     AnswerError, AnswerExpanded
<1> QED
  BY <1>2, <1>3, <1>4, <1>5 DEF Step

(* A new answer is given for a volume whose data is there, if it was there *)
(* when the transaction it ends was populated.                             *)
LEMMA NewAnswers ==
    ASSUME TypeOK, TypeOK', RowsInv, NEW c \in Controllers, Step(c),
           NEW v \in created', v \notin created
    PROVE  \/ disk'[v] # Absent
           \/ h[c].at = "c_commit" /\ h[c].vol = v /\ rowState[v] = "open" /\ disk' = disk
<1>1. HandlerOK(c) /\ v \in Vols
  BY DEF RowsInv, TypeOK
<1>2. \/ CreateStat(c) \/ CreateRefill(c) \/ CreateCommit(c)
  BY DEF Step, CreateName, CreateGet, CreateInsert, CreateFill, CreateLink, CreateUndo,
         CreateUnlink, DeleteGet, DeleteReget, DeleteRow, DeleteLink, DeleteData,
         DeleteCommit, ExpandGet, ExpandRow, ExpandStat, ExpandFile, ExpandCommit,
         AnswerError, AnswerDeleted, AnswerExpanded, history
<1>3. CASE CreateStat(c)
  BY <1>3 DEF CreateStat, Missing, AnswerCreated, AnswerError, history
<1>4. CASE CreateRefill(c)
  <2>1. v = h[c].vol /\ disk' = [disk EXCEPT ![v] = Populated(rowInfo[v].block, h[c].old)]
    BY <1>4 DEF CreateRefill, AnswerCreated, AnswerError, history
  <2>2. h[c].old # Absent /\ 0 # Absent /\ disk \in [Vols -> Capacities \cup {Absent}]
    BY CapacityFacts DEF TypeOK, Handlers
  <2> QED
    BY <1>1, <2>1, <2>2 DEF Populated
<1>5. CASE CreateCommit(c)
  BY <1>1, <1>5 DEF CreateCommit, AnswerCreated, At, HandlerOK, InTransaction, history
<1> QED
  BY <1>2, <1>3, <1>4, <1>5

(* While nobody else removes data, every step fills what it answers for.   *)
LEMMA StepFills ==
    ASSUME TypeOK, TypeOK', IInv, NEW c \in Controllers, Step(c)
    PROVE  FillEffect(c)
<1>1. RowsInv /\ Filled(c) /\ HandlerOK(c)
  BY DEF IInv, RowsInv
<1>2. ASSUME NEW v \in created', v \notin created PROVE disk'[v] # Absent
  BY <1>1, <1>2, NewAnswers DEF Filled
<1>3. Filled(c)'
  <2>1. /\ h \in [Controllers -> Handlers]
        /\ h[c].want # Absent /\ 0 # Absent /\ disk \in [Vols -> Capacities \cup {Absent}]
    BY CapacityFacts DEF TypeOK, Handlers
  <2>2. CASE CreateFill(c)
    <3>1. h'[c].at = "c_link" =>
             disk' = [disk EXCEPT ![h[c].vol] = Populated(h[c].info.block, h[c].want)]
      BY <2>2, Moves DEF CreateFill, AnswerError
    <3>2. h'[c].at \in {"c_link", "idle"} /\ (h'[c].at = "c_link" => h'[c].vol = h[c].vol)
      BY <2>2, Moves DEF CreateFill, AnswerError
    <3>3. h[c].vol \in Vols
      BY <1>1, <2>2 DEF CreateFill, HandlerOK, InTransaction, At
    <3> QED
      BY <2>1, <3>1, <3>2, <3>3 DEF Filled, Populated
  <2>3. CASE CreateLink(c)
    BY <1>1, <2>3, Moves DEF CreateLink, Filled, At
  <2>4. CASE ~CreateFill(c) /\ ~CreateLink(c)
    BY <2>4, StepsElsewhere DEF Filled
  <2> QED
    BY <2>2, <2>3, <2>4
<1> QED
  BY <1>2, <1>3 DEF FillEffect

(* Calls and crashes answer nothing.                                       *)
LEMMA OthersFill ==
    ASSUME TypeOK, NEW c \in Controllers, Call(c) \/ Crash(c)
    PROVE  FillEffect(c)
<1>1. created' = created
  BY DEF Call, CreateCall, DeleteCall, ExpandCall, Crash, AnswerError, history
<1>2. h'[c].at \in {"c_name", "d_get", "e_get", "idle"}
  <2>1. h \in [Controllers -> Handlers]
    BY DEF TypeOK
  <2>2. ASSUME NEW q \in CreateReqs, CreateCall(c, q) PROVE h'[c].at = "c_name"
    BY <2>1, <2>2 DEF CreateCall
  <2>3. ASSUME NEW v \in created, DeleteCall(c, v) PROVE h'[c].at = "d_get"
    BY <2>1, <2>3 DEF DeleteCall, Idle
  <2>4. ASSUME NEW v \in created, NEW bytes \in ExpandBytes, ExpandCall(c, v, bytes)
        PROVE  h'[c].at = "e_get"
    BY <2>1, <2>4 DEF ExpandCall, Idle
  <2>5. ASSUME Crash(c) PROVE h'[c].at = "idle"
    BY <2>5, Moves DEF Crash, AnswerError
  <2> QED
    BY <2>2, <2>3, <2>4, <2>5 DEF Call
<1> QED
  BY <1>1, <1>2 DEF FillEffect, Filled

(* The initial states satisfy the invariant.                               *)
LEMMA InitIInv == Init => IInv
<1> SUFFICES ASSUME Init PROVE IInv
  OBVIOUS
<1>1. AckedHasData /\ AnswersCommitted /\ DeletedWhenAsked
  BY
     DEF Init, StorageInit, AckedHasData, Held, AnswersCommitted,
         DeletedWhenAsked
<1>2. \A c \in Controllers : h[c].at = "idle" /\ h[c].vol = NoVol
  BY DEF Init, Idle
<1>3. OwnTransaction /\ \A c \in Controllers : HandlerOK(c) /\ Filled(c)
  BY <1>2 DEF OwnTransaction, HandlerOK, InTransaction, Filled
<1> QED
  BY <1>1, <1>3 DEF IInv, RowsInv

(* The invariant is inductive.                                             *)
LEMMA NextIInv ==
    ASSUME SoloOrCertain
    PROVE  TypeOK /\ TypeOK' /\ IInv /\ [Next]_vars => IInv'
<1> SUFFICES ASSUME TypeOK, TypeOK', IInv, [Next]_vars PROVE IInv'
  OBVIOUS
<1>1. CASE UNCHANGED vars
  BY <1>1 DEF vars, IInv, RowsInv, AckedHasData, Held, AnswersCommitted, IsCommitted,
              DeletedWhenAsked, OwnTransaction, InTransaction, HandlerOK, Filled
<1>2. ASSUME NEW c \in Controllers, ControllerNext(c) PROVE IInv'
  <2>1. RowsInv
    BY DEF IInv
  <2>2. StepOK(c)
    BY <1>2, <2>1, CallEffects, StepEffects, CrashEffects DEF ControllerNext
  <2>3. FillEffect(c)
    BY <1>2, StepFills, OthersFill DEF ControllerNext
  <2> QED
    BY <2>2, <2>3, StepPreserves
<1> QED
  BY <1>1, <1>2 DEF Next

(* An answered volume keeps its row and its data until its deletion is     *)
(* asked for: for any number of controllers when no COMMIT has an unknown  *)
(* outcome, and for a single controller under every fault of the model.    *)
THEOREM AckedHasDataAlways ==
    ASSUME SoloOrCertain
    PROVE  Spec => []AckedHasData
<1>1. Init => TypeOK /\ IInv
  BY InitType, InitIInv
<1>2. (TypeOK /\ IInv) /\ [Next]_vars => (TypeOK /\ IInv)'
  BY NextType, NextIInv
<1>3. TypeOK /\ IInv => AckedHasData
  BY DEF IInv
<1> QED
  BY <1>1, <1>2, <1>3, PTL DEF Spec
=============================================================================
