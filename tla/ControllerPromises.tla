------------------------- MODULE ControllerPromises -------------------------
(***************************************************************************)
(* What one controller guarantees that several do not: it implements       *)
(* VolumeCatalog, shrinks neither a row nor a file, keeps names unique,    *)
(* and keeps what it answered about capacities and deletions.  Each of     *)
(* these is proved under exactly the faults it survives.                   *)
(***************************************************************************)
EXTENDS ControllerProofs

Solo == \A c, d \in Controllers : c = d

Creating(c) == h[c].at \in {"c_name", "c_get", "c_stat", "c_refill", "c_insert"}

(* What the only handler has read is still so, since nobody else writes.   *)
HandlerKnows(c) ==
    LET v == h[c].vol
        l == h[c].at IN
    /\ Creating(c) \/ InTransaction(c) =>
          \E q \in CreateReqs : h[c].info = q.info /\ h[c].want = FixCapacity(q.bytes)
    /\ InTransaction(c) => rowInfo[v] = h[c].info /\ rowCap[v] = h[c].want
    /\ l \in {"c_get", "c_stat", "c_refill"} => Found(v) /\ rowInfo[v].name = h[c].info.name
    /\ l \in {"c_stat", "c_refill"} => rowCap[v] = h[c].old
    /\ l = "c_refill" => disk[v] = Absent
    /\ l = "d_row" => Found(v)
    /\ l \in {"e_get", "e_row", "e_stat", "e_dd", "e_commit"} => v \in created
    /\ l \in {"e_row", "e_stat", "e_dd", "e_commit"} => Found(v)
    /\ l = "e_row" => rowCap[v] = h[c].old
    /\ l \in {"e_row", "e_stat", "e_dd"} => h[c].want > h[c].old
    /\ l \in {"e_stat", "e_dd", "e_commit"} => rowCap[v] = h[c].want
    /\ l = "e_dd" => disk[v] = h[c].old

(* Only what is committed was promised, and a row no answer was given for  *)
(* is as some request asked.                                               *)
PromisesCommitted == \A v \in Vols : ~IsCommitted(v) => promised[v] = 0

RowsAsAsked ==
    \A v \in Vols : Found(v) /\ v \notin created =>
        \E q \in CreateReqs : rowInfo[v].name = q.info.name /\ rowCap[v] = FixCapacity(q.bytes)

SoloInv ==
    /\ PromisesCommitted
    /\ RowsAsAsked
    /\ \A c \in Controllers : HandlerKnows(c)

(* While no SELECT can fail: a handler inserts under a name no other has.  *)
NameFree(c) ==
    h[c].at = "c_insert" \/ InTransaction(c) => Named(h[c].info.name) = {}

NamesInv == OneVolumePerName /\ \A c \in Controllers : NameFree(c)

(* While no UPDATE can fail: the steps after the soft delete have a        *)
(* deleted row, and a live row lacks its data only after the undo of a     *)
(* COMMIT that was applied all the same.                                   *)
RowDeleted(c) ==
    h[c].at \in {"d_link", "d_data", "d_commit"} => rowState[h[c].vol] = "dead"

UndoneUnanswered ==
    \A v \in Vols : Found(v) /\ disk[v] = Absent => v \notin created /\ "commit" \in FaultKinds

WritesInv == UndoneUnanswered /\ \A c \in Controllers : RowDeleted(c)

(* While SELECTs alone have failed.                                        *)
HandlerIsExact(c) ==
    LET v == h[c].vol
        l == h[c].at IN
    /\ l \notin {"c_undo", "c_unlink"}
    /\ l \in {"c_link", "c_commit"} => disk[v] = Populated(h[c].info.block, h[c].want)
    /\ l \in {"e_stat", "e_dd"} =>
          rowInfo[v].block /\ disk[v] = h[c].old /\ promised[v] <= h[c].old
    /\ l \in {"d_link", "d_data", "d_commit"} => rowState[v] = "dead"
    /\ l = "d_commit" => disk[v] = Absent

LiveHasData == \A v \in Vols : Found(v) => disk[v] # Absent

PromisesRecorded == \A v \in Vols : promised[v] <= rowCap[v]

Deleting(v) == \E c \in Controllers : h[c].vol = v /\ h[c].at \in {"d_link", "d_data"}

DeadIsCleared == \A v \in Vols : rowState[v] = "dead" => disk[v] = Absent \/ Deleting(v)

ReadsInv ==
    OnlyReadsFailed =>
        /\ LiveHasData
        /\ PromisesRecorded
        /\ DeadIsCleared
        /\ DeletionHolds
        /\ SizeMatchesRow
        /\ \A c \in Controllers : HandlerIsExact(c)

-----------------------------------------------------------------------------
(* What the handler has read stays true: SoloInv is inductive under every  *)
(* fault.                                                                  *)
LEMMA SoloStep ==
    ASSUME TypeOK, TypeOK', IInv, Solo, SoloInv, NEW c \in Controllers, Step(c)
    PROVE  SoloInv'
<1> DEFINE v == h[c].vol
<1>1. /\ HandlerOK(c) /\ HandlerKnows(c) /\ AnswersCommitted /\ DeletedWhenAsked
      /\ PromisesCommitted /\ RowsAsAsked
  BY DEF IInv, RowsInv, SoloInv
<1>2. /\ h \in [Controllers -> Handlers]
      /\ h[c].at \in {"idle", "c_name", "c_insert"} \/ v \in Vols
      /\ h[c].want \in Int /\ h[c].old \in Int
  BY CapacityFacts DEF TypeOK, Handlers
<1>3. /\ disk \in [Vols -> Capacities \cup {Absent}]
      /\ rowState \in [Vols -> {"none", "open", "live", "dead", "void"}]
      /\ rowInfo \in [Vols -> Infos \cup {NoInfo}]
      /\ rowCap \in [Vols -> Capacities] /\ promised \in [Vols -> Capacities]
      /\ created \subseteq Vols /\ Capacities \subseteq Int
  BY CapacityFacts DEF TypeOK, StorageTypeOK
<1>4. Return(c) => HandlerKnows(c)'
  BY Moves DEF HandlerKnows, Creating, InTransaction
<1>5. \A d \in Controllers : d = c
  BY DEF Solo
<1>6. ASSUME UNCHANGED <<rowState, rowInfo, rowCap>>, created \subseteq created',
             \A u \in Vols : promised'[u] = promised[u] \/ IsCommitted(u)
      PROVE  PromisesCommitted' /\ RowsAsAsked'
  BY <1>1, <1>6 DEF PromisesCommitted, RowsAsAsked, IsCommitted, Found
<1>7. UNCHANGED history => created \subseteq created' /\ promised' = promised
  BY DEF history
<1> USE DEF At
<1>8. ASSUME CreateName(c)
      PROVE  PromisesCommitted' /\ RowsAsAsked' /\ HandlerKnows(c)'
  <2>1. PromisesCommitted' /\ RowsAsAsked'
    BY <1>8, <1>1, <1>2, <1>3, <1>6, <1>7 DEF CreateName, AnswerError, HandlerOK, HandlerKnows
  <2>2. HandlerKnows(c)'
    <3>1. UNCHANGED <<rowState, rowInfo, rowCap, disk>> /\ h[c].at = "c_name"
      BY <1>8 DEF CreateName
    <3>2. ASSUME NEW u \in Vols, IsFirstNamed(h[c].info.name, u),
                 h' = [h EXCEPT ![c] = [@ EXCEPT !.at = "c_get", !.vol = u]]
          PROVE  HandlerKnows(c)'
      <4>1. /\ h'[c].at = "c_get" /\ h'[c].vol = u
            /\ h'[c].info = h[c].info /\ h'[c].want = h[c].want
        BY <3>2, <1>2 DEF Handlers
      <4> QED
        BY <1>1, <3>1, <3>2, <4>1
           DEF HandlerKnows, Creating, InTransaction, IsFirstNamed, Named, Found
    <3>3. ASSUME Goto(c, "c_insert") PROVE HandlerKnows(c)'
      BY <1>1, <3>1, <3>3, Moves DEF HandlerKnows, Creating, InTransaction
    <3> QED
      BY <1>8, <3>2, <3>3 DEF CreateName
  <2> QED
    BY <2>1, <2>2
<1>9. ASSUME CreateGet(c)
      PROVE  PromisesCommitted' /\ RowsAsAsked' /\ HandlerKnows(c)'
  <2>1. PromisesCommitted' /\ RowsAsAsked'
    BY <1>9, <1>1, <1>2, <1>3, <1>6, <1>7 DEF CreateGet, AnswerError, HandlerOK, HandlerKnows
  <2>2. HandlerKnows(c)'
    <3>1. UNCHANGED <<rowState, rowInfo, rowCap, disk>> /\ h[c].at = "c_get"
      BY <1>9 DEF CreateGet
    <3>2. ASSUME Found(v),
                 h' = [h EXCEPT ![c] = [@ EXCEPT !.at = "c_stat", !.old = rowCap[v]]]
          PROVE  HandlerKnows(c)'
      <4>1. /\ h'[c].at = "c_stat" /\ h'[c].vol = v /\ h'[c].old = rowCap[v]
            /\ h'[c].info = h[c].info /\ h'[c].want = h[c].want
        BY <3>2, <1>2 DEF Handlers
      <4> QED
        BY <1>1, <3>1, <3>2, <4>1
           DEF HandlerKnows, Creating, InTransaction, Found
    <3> QED
      BY <1>9, <1>4, <3>2 DEF CreateGet, AnswerError
  <2> QED
    BY <2>1, <2>2
<1>10. ASSUME CreateStat(c)
      PROVE  PromisesCommitted' /\ RowsAsAsked' /\ HandlerKnows(c)'
  <2>1. PromisesCommitted' /\ RowsAsAsked'
    BY <1>10, <1>1, <1>2, <1>3, <1>6, <1>7 DEF CreateStat, AnswerError, HandlerOK, HandlerKnows, AnswerCreated, IsCommitted, Found
  <2>2. HandlerKnows(c)'
    BY <1>10, <1>1, <1>2, <1>3, <1>4, Moves
       DEF CreateStat, HandlerOK, HandlerKnows, Creating, InTransaction, Found,
           AnswerError, AnswerCreated, Missing
  <2> QED
    BY <2>1, <2>2
<1>11. ASSUME CreateRefill(c)
      PROVE  PromisesCommitted' /\ RowsAsAsked' /\ HandlerKnows(c)'
  <2>1. PromisesCommitted' /\ RowsAsAsked'
    BY <1>11, <1>1, <1>2, <1>3, <1>6, <1>7 DEF CreateRefill, AnswerError, HandlerOK, HandlerKnows, AnswerCreated, IsCommitted, Found
  <2>2. HandlerKnows(c)'
    BY <1>11, <1>1, <1>2, <1>3, <1>4, Moves
       DEF CreateRefill, HandlerOK, HandlerKnows, Creating, InTransaction, Found,
           AnswerError, AnswerCreated
  <2> QED
    BY <2>1, <2>2
<1>12. ASSUME CreateInsert(c)
      PROVE  PromisesCommitted' /\ RowsAsAsked' /\ HandlerKnows(c)'
  <2>1. PromisesCommitted' /\ RowsAsAsked'
    <3>1. ASSUME NEW u \in Vols, rowState[u] = "none", UNCHANGED history,
                 rowState' = [rowState EXCEPT ![u] = "open"],
                 rowInfo' = [rowInfo EXCEPT ![u] = h[c].info],
                 rowCap' = [rowCap EXCEPT ![u] = h[c].want]
          PROVE  PromisesCommitted' /\ RowsAsAsked'
      BY <1>1, <1>3, <3>1
         DEF PromisesCommitted, RowsAsAsked, IsCommitted, Found, history
    <3>2. ASSUME UNCHANGED <<rowState, rowInfo, rowCap, history>>
          PROVE  PromisesCommitted' /\ RowsAsAsked'
      BY <1>6, <1>7, <3>2
    <3> QED
      BY <1>12, <3>1, <3>2 DEF CreateInsert, AnswerError, Fresh, Inserted
  <2>2. HandlerKnows(c)'
    <3>1. UNCHANGED disk /\ h[c].at = "c_insert"
      BY <1>12 DEF CreateInsert
    <3>2. ASSUME NEW u \in Vols,
                 rowState' = [rowState EXCEPT ![u] = Inserted],
                 rowInfo' = [rowInfo EXCEPT ![u] = h[c].info],
                 rowCap' = [rowCap EXCEPT ![u] = h[c].want],
                 h' = [h EXCEPT ![c] = [@ EXCEPT !.at = "c_fill", !.vol = u]]
          PROVE  HandlerKnows(c)'
      <4>1. /\ h'[c].at = "c_fill" /\ h'[c].vol = u
            /\ h'[c].info = h[c].info /\ h'[c].want = h[c].want
        BY <3>2, <1>2 DEF Handlers
      <4> QED
        BY <1>1, <1>3, <3>1, <3>2, <4>1
           DEF HandlerKnows, Creating, InTransaction, Found
    <3> QED
      BY <1>12, <1>4, <3>2 DEF CreateInsert, AnswerError
  <2> QED
    BY <2>1, <2>2
<1>13. ASSUME CreateFill(c)
      PROVE  PromisesCommitted' /\ RowsAsAsked' /\ HandlerKnows(c)'
  <2>1. PromisesCommitted' /\ RowsAsAsked'
    BY <1>13, <1>1, <1>2, <1>3, <1>6, <1>7
       DEF CreateFill, HandlerOK, HandlerKnows, InTransaction, PromisesCommitted,
           RowsAsAsked, IsCommitted, Found, AnswerError, RollBack
  <2>2. HandlerKnows(c)'
    BY <1>13, <1>1, <1>2, <1>3, <1>4, Moves
       DEF CreateFill, HandlerOK, HandlerKnows, Creating, InTransaction, Found,
           AnswerError
  <2> QED
    BY <2>1, <2>2
<1>14. ASSUME CreateLink(c)
      PROVE  PromisesCommitted' /\ RowsAsAsked' /\ HandlerKnows(c)'
  <2>1. PromisesCommitted' /\ RowsAsAsked'
    BY <1>14, <1>1, <1>2, <1>3, <1>6, <1>7 DEF CreateLink, AnswerError, HandlerOK, HandlerKnows
  <2>2. HandlerKnows(c)'
    BY <1>14, <1>1, <1>2, <1>3, <1>4, Moves
       DEF CreateLink, HandlerOK, HandlerKnows, Creating, InTransaction, Found,
           AnswerError
  <2> QED
    BY <2>1, <2>2
<1>15. ASSUME CreateCommit(c)
      PROVE  PromisesCommitted' /\ RowsAsAsked' /\ HandlerKnows(c)'
  <2>1. PromisesCommitted' /\ RowsAsAsked'
    BY <1>15, <1>1, <1>2, <1>3, <1>6, <1>7
       DEF CreateCommit, HandlerOK, HandlerKnows, InTransaction, PromisesCommitted,
           RowsAsAsked, IsCommitted, Found, AnswerError, AnswerCreated
  <2>2. HandlerKnows(c)'
    BY <1>15, <1>1, <1>2, <1>3, <1>4, Moves
       DEF CreateCommit, HandlerOK, HandlerKnows, Creating, InTransaction, Found,
           AnswerError, AnswerCreated
  <2> QED
    BY <2>1, <2>2
<1>16. ASSUME CreateUndo(c)
      PROVE  PromisesCommitted' /\ RowsAsAsked' /\ HandlerKnows(c)'
  <2>1. PromisesCommitted' /\ RowsAsAsked'
    BY <1>16, <1>1, <1>2, <1>3, <1>6, <1>7 DEF CreateUndo, AnswerError, HandlerOK, HandlerKnows
  <2>2. HandlerKnows(c)'
    BY <1>16, <1>1, <1>2, <1>3, <1>4, Moves
       DEF CreateUndo, HandlerOK, HandlerKnows, Creating, InTransaction, Found,
           AnswerError
  <2> QED
    BY <2>1, <2>2
<1>17. ASSUME CreateUnlink(c)
      PROVE  PromisesCommitted' /\ RowsAsAsked' /\ HandlerKnows(c)'
  <2>1. PromisesCommitted' /\ RowsAsAsked'
    BY <1>17, <1>1, <1>2, <1>3, <1>6, <1>7 DEF CreateUnlink, AnswerError, HandlerOK, HandlerKnows
  <2>2. HandlerKnows(c)'
    BY <1>17, <1>1, <1>2, <1>3, <1>4, Moves
       DEF CreateUnlink, HandlerOK, HandlerKnows, Creating, InTransaction, Found,
           AnswerError
  <2> QED
    BY <2>1, <2>2
<1>18. ASSUME DeleteGet(c)
      PROVE  PromisesCommitted' /\ RowsAsAsked' /\ HandlerKnows(c)'
  <2>1. PromisesCommitted' /\ RowsAsAsked'
    BY <1>18, <1>1, <1>2, <1>3, <1>6, <1>7 DEF DeleteGet, AnswerError, HandlerOK, HandlerKnows, AnswerDeleted
  <2>2. HandlerKnows(c)'
    BY <1>18, <1>1, <1>2, <1>3, <1>4, Moves
       DEF DeleteGet, HandlerOK, HandlerKnows, Creating, InTransaction, Found,
           AnswerError, AnswerDeleted
  <2> QED
    BY <2>1, <2>2
<1>19. ASSUME DeleteReget(c)
      PROVE  PromisesCommitted' /\ RowsAsAsked' /\ HandlerKnows(c)'
  <2>1. PromisesCommitted' /\ RowsAsAsked'
    BY <1>19, <1>1, <1>2, <1>3, <1>6, <1>7 DEF DeleteReget, AnswerError, HandlerOK, HandlerKnows
  <2>2. HandlerKnows(c)'
    BY <1>19, <1>1, <1>2, <1>3, <1>4, Moves
       DEF DeleteReget, HandlerOK, HandlerKnows, Creating, InTransaction, Found,
           AnswerError
  <2> QED
    BY <2>1, <2>2
<1>20. ASSUME DeleteRow(c)
      PROVE  PromisesCommitted' /\ RowsAsAsked' /\ HandlerKnows(c)'
  <2>1. PromisesCommitted' /\ RowsAsAsked'
    BY <1>20, <1>1, <1>2, <1>3, <1>6, <1>7
       DEF DeleteRow, HandlerOK, HandlerKnows, InTransaction, PromisesCommitted,
           RowsAsAsked, IsCommitted, Found, AnswerError
  <2>2. HandlerKnows(c)'
    BY <1>20, <1>1, <1>2, <1>3, <1>4, Moves
       DEF DeleteRow, HandlerOK, HandlerKnows, Creating, InTransaction, Found,
           AnswerError
  <2> QED
    BY <2>1, <2>2
<1>21. ASSUME DeleteLink(c)
      PROVE  PromisesCommitted' /\ RowsAsAsked' /\ HandlerKnows(c)'
  <2>1. PromisesCommitted' /\ RowsAsAsked'
    BY <1>21, <1>1, <1>2, <1>3, <1>6, <1>7 DEF DeleteLink, AnswerError, HandlerOK, HandlerKnows
  <2>2. HandlerKnows(c)'
    BY <1>21, <1>1, <1>2, <1>3, <1>4, Moves
       DEF DeleteLink, HandlerOK, HandlerKnows, Creating, InTransaction, Found,
           AnswerError
  <2> QED
    BY <2>1, <2>2
<1>22. ASSUME DeleteData(c)
      PROVE  PromisesCommitted' /\ RowsAsAsked' /\ HandlerKnows(c)'
  <2>1. PromisesCommitted' /\ RowsAsAsked'
    BY <1>22, <1>1, <1>2, <1>3, <1>6, <1>7 DEF DeleteData, AnswerError, HandlerOK, HandlerKnows
  <2>2. HandlerKnows(c)'
    BY <1>22, <1>1, <1>2, <1>3, <1>4, Moves
       DEF DeleteData, HandlerOK, HandlerKnows, Creating, InTransaction, Found,
           AnswerError
  <2> QED
    BY <2>1, <2>2
<1>23. ASSUME DeleteCommit(c)
      PROVE  PromisesCommitted' /\ RowsAsAsked' /\ HandlerKnows(c)'
  <2>1. PromisesCommitted' /\ RowsAsAsked'
    BY <1>23, <1>1, <1>2, <1>3, <1>6, <1>7 DEF DeleteCommit, AnswerError, HandlerOK, HandlerKnows, AnswerDeleted
  <2>2. HandlerKnows(c)'
    BY <1>23, <1>1, <1>2, <1>3, <1>4, Moves
       DEF DeleteCommit, HandlerOK, HandlerKnows, Creating, InTransaction, Found,
           AnswerError, AnswerDeleted
  <2> QED
    BY <2>1, <2>2
<1>24. ASSUME ExpandGet(c)
      PROVE  PromisesCommitted' /\ RowsAsAsked' /\ HandlerKnows(c)'
  <2>1. PromisesCommitted' /\ RowsAsAsked'
    BY <1>24, <1>1, <1>2, <1>3, <1>6, <1>7 DEF ExpandGet, AnswerError, HandlerOK, HandlerKnows, AnswerExpanded, IsCommitted, Found
  <2>2. HandlerKnows(c)'
    <3>1. UNCHANGED <<rowState, rowInfo, rowCap, disk>> /\ h[c].at = "e_get"
      BY <1>24 DEF ExpandGet
    <3>2. ASSUME Found(v), IsLarger(h[c].want, rowCap[v]), UNCHANGED history,
                 h' = [h EXCEPT ![c] = [@ EXCEPT !.at = "e_row", !.old = rowCap[v]]]
          PROVE  HandlerKnows(c)'
      <4>1. /\ h'[c].at = "e_row" /\ h'[c].vol = v /\ h'[c].old = rowCap[v]
            /\ h'[c].info = h[c].info /\ h'[c].want = h[c].want
        BY <3>2, <1>2 DEF Handlers
      <4> QED
        BY <1>1, <1>7, <3>1, <3>2, <4>1
           DEF HandlerKnows, Creating, InTransaction, Found, IsLarger
    <3> QED
      BY <1>24, <1>4, <3>2 DEF ExpandGet, AnswerError, AnswerExpanded
  <2> QED
    BY <2>1, <2>2
<1>25. ASSUME ExpandRow(c)
      PROVE  PromisesCommitted' /\ RowsAsAsked' /\ HandlerKnows(c)'
  <2>1. PromisesCommitted' /\ RowsAsAsked'
    BY <1>25, <1>1, <1>2, <1>3, <1>6, <1>7
       DEF ExpandRow, HandlerOK, HandlerKnows, InTransaction, PromisesCommitted,
           RowsAsAsked, IsCommitted, Found, AnswerError
  <2>2. HandlerKnows(c)'
    BY <1>25, <1>1, <1>2, <1>3, <1>4, <1>7, Moves
       DEF ExpandRow, HandlerOK, HandlerKnows, Creating, InTransaction, Found,
           AnswerError, AfterRow
  <2> QED
    BY <2>1, <2>2
<1>26. ASSUME ExpandStat(c)
      PROVE  PromisesCommitted' /\ RowsAsAsked' /\ HandlerKnows(c)'
  <2>1. PromisesCommitted' /\ RowsAsAsked'
    BY <1>26, <1>1, <1>2, <1>3, <1>6, <1>7 DEF ExpandStat, AnswerError, HandlerOK, HandlerKnows
  <2>2. HandlerKnows(c)'
    BY <1>26, <1>1, <1>2, <1>3, <1>4, <1>7, Moves
       DEF ExpandStat, HandlerOK, HandlerKnows, Creating, InTransaction, Found,
           AnswerError
  <2> QED
    BY <2>1, <2>2
<1>27. ASSUME ExpandFile(c)
      PROVE  PromisesCommitted' /\ RowsAsAsked' /\ HandlerKnows(c)'
  <2>1. PromisesCommitted' /\ RowsAsAsked'
    BY <1>27, <1>1, <1>2, <1>3, <1>6, <1>7 DEF ExpandFile, AnswerError, HandlerOK, HandlerKnows
  <2>2. HandlerKnows(c)'
    BY <1>27, <1>1, <1>2, <1>3, <1>4, <1>7, Moves
       DEF ExpandFile, HandlerOK, HandlerKnows, Creating, InTransaction, Found,
           AnswerError
  <2> QED
    BY <2>1, <2>2
<1>28. ASSUME ExpandCommit(c)
      PROVE  PromisesCommitted' /\ RowsAsAsked' /\ HandlerKnows(c)'
  <2>1. PromisesCommitted' /\ RowsAsAsked'
    BY <1>28, <1>1, <1>2, <1>3, <1>6, <1>7 DEF ExpandCommit, AnswerError, HandlerOK, HandlerKnows, AnswerExpanded, IsCommitted, Found
  <2>2. HandlerKnows(c)'
    BY <1>28, <1>1, <1>2, <1>3, <1>4, Moves
       DEF ExpandCommit, HandlerOK, HandlerKnows, Creating, InTransaction, Found,
           AnswerError, AnswerExpanded
  <2> QED
    BY <2>1, <2>2
<1>29. PromisesCommitted' /\ RowsAsAsked' /\ HandlerKnows(c)'
  BY <1>8, <1>9, <1>10, <1>11, <1>12, <1>13, <1>14, <1>15, <1>16, <1>17, <1>18, <1>19, <1>20, <1>21, <1>22, <1>23, <1>24, <1>25, <1>26, <1>27, <1>28 DEF Step
<1> QED
  BY <1>5, <1>29 DEF SoloInv

(* Nor does a call that starts, or a crash, disturb it.                    *)
LEMMA SoloCall ==
    ASSUME TypeOK, IInv, Solo, SoloInv, NEW c \in Controllers, Call(c)
    PROVE  SoloInv'
<1>1. PromisesCommitted /\ RowsAsAsked /\ h \in [Controllers -> Handlers]
  BY DEF SoloInv, TypeOK
<1>2. UNCHANGED <<rowState, rowInfo, rowCap, disk, created, promised>>
  BY DEF Call, CreateCall, DeleteCall, ExpandCall, storageVars, history
<1>3. PromisesCommitted' /\ RowsAsAsked'
  BY <1>1, <1>2 DEF PromisesCommitted, RowsAsAsked, IsCommitted, Found
<1>4. HandlerKnows(c)'
  <2>1. ASSUME NEW q \in CreateReqs, CreateCall(c, q)
        PROVE  HandlerKnows(c)'
    <3>1. h'[c].at = "c_name" /\ h'[c].info = q.info /\ h'[c].want = FixCapacity(q.bytes)
      BY <1>1, <2>1 DEF CreateCall
    <3> QED
      BY <3>1 DEF HandlerKnows, Creating, InTransaction
  <2>2. ASSUME NEW v \in created, DeleteCall(c, v)
        PROVE  HandlerKnows(c)'
    <3>1. h'[c].at = "d_get"
      BY <1>1, <2>2 DEF DeleteCall, Idle
    <3> QED
      BY <3>1 DEF HandlerKnows, Creating, InTransaction
  <2>3. ASSUME NEW v \in created, NEW bytes \in ExpandBytes, ExpandCall(c, v, bytes)
        PROVE  HandlerKnows(c)'
    <3>1. h'[c].at = "e_get" /\ h'[c].vol = v
      BY <1>1, <2>3 DEF ExpandCall, Idle
    <3> QED
      BY <1>2, <3>1 DEF HandlerKnows, Creating, InTransaction
  <2> QED
    BY <2>1, <2>2, <2>3 DEF Call
<1> QED
  BY <1>3, <1>4 DEF Solo, SoloInv

(* Nor does a crash, which voids an open transaction.                      *)
LEMMA SoloCrash ==
    ASSUME TypeOK, IInv, Solo, SoloInv, NEW c \in Controllers, Crash(c)
    PROVE  SoloInv'
<1>1. PromisesCommitted /\ RowsAsAsked
  BY DEF SoloInv
<1>2. \A u \in Vols : rowState'[u] = rowState[u] \/ (rowState[u] = "open" /\ rowState'[u] = "void")
  BY DEF Crash
<1>3. UNCHANGED <<rowInfo, rowCap, created, promised>>
  BY DEF Crash, AnswerError, history
<1>4. PromisesCommitted' /\ RowsAsAsked'
  BY <1>1, <1>2, <1>3 DEF PromisesCommitted, RowsAsAsked, IsCommitted, Found
<1>5. h'[c].at = "idle"
  BY Moves DEF Crash, AnswerError
<1>6. HandlerKnows(c)'
  BY <1>5 DEF HandlerKnows, Creating, InTransaction
<1> QED
  BY <1>4, <1>6 DEF Solo, SoloInv

(* A call begins with its first statement.                                 *)
LEMMA CallMoves ==
    ASSUME TypeOK, NEW c \in Controllers, Call(c)
    PROVE  h'[c].at \in {"c_name", "d_get", "e_get"}
<1>1. h \in [Controllers -> Handlers]
  BY DEF TypeOK
<1>2. ASSUME NEW q \in CreateReqs, CreateCall(c, q) PROVE h'[c].at = "c_name"
  BY <1>1, <1>2 DEF CreateCall
<1>3. ASSUME NEW v \in created, DeleteCall(c, v) PROVE h'[c].at = "d_get"
  BY <1>1, <1>3 DEF DeleteCall, Idle
<1>4. ASSUME NEW v \in created, NEW bytes \in ExpandBytes, ExpandCall(c, v, bytes)
      PROVE  h'[c].at = "e_get"
  BY <1>1, <1>4 DEF ExpandCall, Idle
<1> QED
  BY <1>2, <1>3, <1>4 DEF Call

-----------------------------------------------------------------------------
(* Where no SELECT fails, names are unique.                                *)
LEMMA NamesStep ==
    ASSUME TypeOK, TypeOK', IInv, Solo, SoloInv, NamesInv, "read" \notin FaultKinds,
           NEW c \in Controllers, Step(c)
    PROVE  NamesInv'
<1> DEFINE v == h[c].vol
           n == h[c].info.name
<1>1. HandlerOK(c) /\ HandlerKnows(c) /\ NameFree(c) /\ OneVolumePerName
  BY DEF IInv, RowsInv, SoloInv, NamesInv
<1>2. /\ h[c].at \in {"idle", "c_name", "c_insert"} \/ v \in Vols
      /\ rowState \in [Vols -> {"none", "open", "live", "dead", "void"}]
      /\ rowInfo \in [Vols -> Infos \cup {NoInfo}]
  BY DEF TypeOK, StorageTypeOK
<1>3. ASSUME \A u \in Vols : Found(u)' => Found(u) /\ rowInfo'[u] = rowInfo[u]
      PROVE  OneVolumePerName' /\ (Named(n) = {} => \A u \in Vols : Found(u)' => rowInfo'[u].name # n)
  BY <1>1, <1>3 DEF OneVolumePerName, Named
<1>4. ~Fault("read")
  BY DEF Fault
<1> USE DEF At
<1>5. CASE CreateCommit(c)
  <2>1. /\ rowInfo' = rowInfo /\ rowInfo[v].name = n /\ Named(n) = {}
        /\ \A u \in Vols : Found(u)' => Found(u) \/ u = v
    BY <1>1, <1>2, <1>5 DEF CreateCommit, HandlerKnows, NameFree, InTransaction, Found
  <2>2. OneVolumePerName'
    BY <1>1, <2>1 DEF OneVolumePerName, Named
  <2>3. h'[c].at \in {"idle", "c_undo"}
    BY <1>5, Moves DEF CreateCommit, AnswerCreated
  <2> QED
    BY <2>2, <2>3 DEF NameFree, InTransaction, NamesInv, Solo
<1>6. ASSUME ~CreateCommit(c)
      PROVE  \A u \in Vols : Found(u)' => Found(u) /\ rowInfo'[u] = rowInfo[u]
  <2>1. CASE CreateInsert(c)
    BY <1>2, <2>1 DEF CreateInsert, Fresh, Inserted, Found
  <2>2. CASE CreateFill(c)
    BY <1>2, <2>2 DEF CreateFill, RollBack, Found
  <2>3. CASE DeleteRow(c)
    BY <1>2, <2>3 DEF DeleteRow, Found
  <2>4. CASE UNCHANGED <<rowState, rowInfo>>
    BY <2>4 DEF Found
  <2> QED
    BY <1>6, <2>1, <2>2, <2>3, <2>4
       DEF Step, CreateName, CreateGet, CreateStat, CreateRefill, CreateLink,
           CreateUndo, CreateUnlink, DeleteGet, DeleteReget, DeleteLink,
           DeleteData, DeleteCommit, ExpandGet, ExpandRow, ExpandStat,
           ExpandFile, ExpandCommit
<1>7. ASSUME ~CreateCommit(c), h'[c].at = "c_insert" \/ InTransaction(c)'
      PROVE  Named(n) = {} /\ h'[c].info = h[c].info
  <2>1. CASE CreateName(c)
    <3>1. ASSUME NEW u \in Vols,
                 h' = [h EXCEPT ![c] = [@ EXCEPT !.at = "c_get", !.vol = u]]
          PROVE  FALSE
      <4>1. h'[c].at = "c_get"
        BY <3>1 DEF TypeOK, Handlers
      <4> QED
        BY <1>7, <4>1 DEF InTransaction
    <3> QED
      BY <1>4, <2>1, <3>1, Moves DEF CreateName, IsFirstNamed, Named
  <2>2. CASE CreateInsert(c)
    <3>1. h'[c].info = h[c].info \/ h'[c].at = "idle"
      <4>1. ASSUME NEW u \in Vols,
                   h' = [h EXCEPT ![c] = [@ EXCEPT !.at = "c_fill", !.vol = u]]
            PROVE  h'[c].info = h[c].info
        BY <4>1 DEF TypeOK, Handlers
      <4> QED
        BY <2>2, <4>1, Moves DEF CreateInsert, AnswerError
    <3> QED
      BY <1>1, <1>7, <2>2, <3>1 DEF CreateInsert, NameFree, InTransaction
  <2>3. CASE CreateFill(c) \/ CreateLink(c)
    <3>1. h'[c].info = h[c].info \/ h'[c].at = "idle"
      BY <2>3, Moves DEF CreateFill, CreateLink, AnswerError
    <3> QED
      BY <1>1, <1>7, <2>3, <3>1 DEF CreateFill, CreateLink, NameFree, InTransaction
  <2>4. CASE ~(CreateName(c) \/ CreateInsert(c) \/ CreateFill(c) \/ CreateLink(c))
    <3>1. \/ h'[c].at = "idle"
          \/ h'[c].at \in {"c_refill", "c_unlink", "d_reget", "d_row", "d_link", "d_data",
                           "d_commit", "e_stat", "e_dd", "e_commit", "c_stat", "e_row"}
      <4>1. CASE CreateGet(c) \/ ExpandGet(c)
        <5>1. ASSUME NEW label \in {"c_stat", "e_row"},
                     h' = [h EXCEPT ![c] = [@ EXCEPT !.at = label, !.old = rowCap[v]]]
              PROVE  h'[c].at \in {"c_stat", "e_row"}
          BY <5>1 DEF TypeOK, Handlers
        <5> QED
          BY <4>1, <5>1, Moves DEF CreateGet, ExpandGet, AnswerError, AnswerExpanded
      <4>2. CASE ~(CreateGet(c) \/ ExpandGet(c))
        BY <1>7, <2>4, <4>2, Moves
           DEF Step, CreateStat, CreateRefill, CreateUndo, CreateUnlink,
               DeleteGet, DeleteReget, DeleteRow, DeleteLink, DeleteData,
               DeleteCommit, ExpandRow, AfterRow, ExpandStat, ExpandFile,
               ExpandCommit, AnswerError, AnswerCreated, AnswerDeleted,
               AnswerExpanded
      <4> QED
        BY <4>1, <4>2
    <3> QED
      BY <1>7, <3>1 DEF InTransaction
  <2> QED
    BY <2>1, <2>2, <2>3, <2>4
<1>8. ASSUME ~CreateCommit(c) PROVE NamesInv'
  <2>1. OneVolumePerName'
    BY <1>3, <1>6, <1>8
  <2>2. NameFree(c)'
    BY <1>3, <1>6, <1>7, <1>8 DEF NameFree, Named
  <2> QED
    BY <2>1, <2>2 DEF NamesInv, Solo
<1> QED
  BY <1>5, <1>8

(* A call that starts has read no name,                                    *)
LEMMA NamesCall ==
    ASSUME TypeOK, Solo, NamesInv, NEW c \in Controllers, Call(c)
    PROVE  NamesInv'
<1>1. UNCHANGED <<rowState, rowInfo>> /\ h \in [Controllers -> Handlers]
  BY DEF Call, CreateCall, DeleteCall, ExpandCall, storageVars, TypeOK
<1>2. OneVolumePerName'
  BY <1>1 DEF NamesInv, OneVolumePerName, Found
<1>3. h'[c].at \in {"c_name", "d_get", "e_get"}
  BY CallMoves
<1> QED
  BY <1>2, <1>3 DEF NamesInv, NameFree, InTransaction, Solo

(* and a crash forgets the name that was read.                             *)
LEMMA NamesCrash ==
    ASSUME TypeOK, Solo, NamesInv, NEW c \in Controllers, Crash(c)
    PROVE  NamesInv'
<1>1. rowInfo' = rowInfo /\ \A u \in Vols : rowState'[u] = rowState[u] \/ rowState'[u] = "void"
  BY DEF Crash
<1>2. OneVolumePerName'
  BY <1>1 DEF NamesInv, OneVolumePerName, Found
<1>3. h'[c].at = "idle"
  BY Moves DEF Crash, AnswerError
<1> QED
  BY <1>2, <1>3 DEF NamesInv, NameFree, InTransaction, Solo

-----------------------------------------------------------------------------
(* Where no UPDATE fails, a deletion deletes its row, and only the undo of *)
(* a COMMIT that was applied leaves a live row without data.               *)
LEMMA WritesStep ==
    ASSUME TypeOK, TypeOK', IInv, Solo, SoloInv, WritesInv, "write" \notin FaultKinds,
           NEW c \in Controllers, Step(c)
    PROVE  WritesInv'
<1> DEFINE v == h[c].vol
<1>1. HandlerOK(c) /\ Filled(c) /\ HandlerKnows(c) /\ RowDeleted(c) /\ UndoneUnanswered
      /\ DeletedWhenAsked
  BY DEF IInv, RowsInv, SoloInv, WritesInv
<1>2. /\ h[c].at \in {"idle", "c_name", "c_insert"} \/ v \in Vols
      /\ rowState \in [Vols -> {"none", "open", "live", "dead", "void"}]
      /\ disk \in [Vols -> Capacities \cup {Absent}]
      /\ Absent \notin Capacities /\ 0 \in Capacities
      /\ h[c].old \in Capacities /\ h[c].want \in Capacities
  BY CapacityFacts DEF TypeOK, StorageTypeOK, Handlers
<1>3. ~Fault("write")
  BY DEF Fault
<1> USE DEF At
<1>4. RowDeleted(c)'
  <2>1. CASE DeleteRow(c)
    BY <1>1, <1>2, <1>3, <2>1, Moves DEF DeleteRow, HandlerKnows, RowDeleted, Found
  <2>2. CASE DeleteLink(c) \/ DeleteData(c)
    BY <1>1, <2>2, Moves DEF DeleteLink, DeleteData, AnswerError, RowDeleted
  <2>3. CASE ~(DeleteRow(c) \/ DeleteLink(c) \/ DeleteData(c))
    <3>1. h'[c].at \notin {"d_link", "d_data", "d_commit"}
      <4>1. ASSUME NEW label \in {"c_stat", "e_row"},
                   h' = [h EXCEPT ![c] = [@ EXCEPT !.at = label, !.old = rowCap[v]]]
            PROVE  h'[c].at \in {"c_stat", "e_row"}
        BY <4>1 DEF TypeOK, Handlers
      <4>3. CASE CreateName(c)
        <5>1. \/ Goto(c, "c_insert")
              \/ \E u \in Vols : h' = [h EXCEPT ![c] = [@ EXCEPT !.at = "c_get", !.vol = u]]
          BY <4>3 DEF CreateName
        <5>2. ASSUME NEW u \in Vols,
                     h' = [h EXCEPT ![c] = [@ EXCEPT !.at = "c_get", !.vol = u]]
              PROVE  h'[c].at = "c_get"
          BY <5>2 DEF TypeOK, Handlers
        <5>3. CASE Goto(c, "c_insert")
          BY <5>3, Moves
        <5> QED
          BY <5>1, <5>2, <5>3
      <4>8. ASSUME NEW u \in Vols,
                   h' = [h EXCEPT ![c] = [@ EXCEPT !.at = "c_fill", !.vol = u]]
            PROVE  h'[c].at = "c_fill"
        BY <4>8 DEF TypeOK, Handlers
      <4>9. CASE CreateInsert(c)
        BY <4>8, <4>9, Moves DEF CreateInsert, AnswerError
      <4>7. CASE CreateGet(c) \/ ExpandGet(c)
        BY <4>1, <4>7, Moves DEF CreateGet, ExpandGet, AnswerError, AnswerExpanded
      <4>4. CASE DeleteGet(c) \/ DeleteReget(c) \/ DeleteCommit(c)
        BY <4>4, Moves
           DEF DeleteGet, DeleteReget, DeleteCommit, AnswerError, AnswerDeleted
      <4>5. CASE CreateStat(c) \/ CreateRefill(c) \/ CreateFill(c) \/ CreateLink(c)
                 \/ CreateCommit(c) \/ CreateUndo(c) \/ CreateUnlink(c)
        BY <4>5, Moves
           DEF CreateStat, CreateRefill, CreateFill, CreateLink, CreateCommit,
               CreateUndo, CreateUnlink, AnswerError, AnswerCreated
      <4>6. CASE ExpandRow(c) \/ ExpandStat(c) \/ ExpandFile(c) \/ ExpandCommit(c)
        BY <4>6, Moves
           DEF ExpandRow, AfterRow, ExpandStat, ExpandFile, ExpandCommit,
               AnswerError, AnswerExpanded
      <4> QED
        BY <2>3, <4>3, <4>4, <4>5, <4>6, <4>7, <4>9 DEF Step
    <3> QED
      BY <3>1 DEF RowDeleted
  <2> QED
    BY <2>1, <2>2, <2>3
<1>5. UndoneUnanswered'
  <2> SUFFICES ASSUME NEW u \in Vols, Found(u)', disk'[u] = Absent
               PROVE  u \notin created' /\ "commit" \in FaultKinds
    BY DEF UndoneUnanswered
  <2>1. ASSUME disk' = disk, created' = created, Found(u)
        PROVE  u \notin created' /\ "commit" \in FaultKinds
    BY <1>1, <2>1 DEF UndoneUnanswered
  <2>2. CASE CreateStat(c)
    BY <1>1, <2>2
       DEF CreateStat, AnswerError, AnswerCreated, Missing, history,
           UndoneUnanswered, Found
  <2>3. CASE CreateRefill(c)
    BY <1>1, <1>2, <2>3
       DEF CreateRefill, Populated, AnswerError, AnswerCreated, history,
           UndoneUnanswered, Found
  <2>4. CASE CreateInsert(c)
    BY <1>2, <2>1, <2>4
       DEF CreateInsert, Fresh, Inserted, AnswerError, history, Found
  <2>5. CASE CreateFill(c)
    BY <1>1, <1>2, <2>5
       DEF CreateFill, RollBack, Populated, AnswerError, history, HandlerOK,
           InTransaction, UndoneUnanswered, Found
  <2>6. CASE CreateCommit(c)
    BY <1>1, <1>2, <2>6
       DEF CreateCommit, AnswerCreated, history, HandlerOK, Filled, At, InTransaction,
           UndoneUnanswered, Found
  <2>7. CASE CreateUndo(c)
    BY <1>1, <1>2, <2>7
       DEF CreateUndo, history, HandlerOK, UndoneUnanswered, Found
  <2>8. CASE DeleteRow(c)
    BY <1>2, <2>1, <2>8 DEF DeleteRow, history, Found
  <2>9. CASE DeleteData(c)
    BY <1>1, <1>2, <2>9
       DEF DeleteData, AnswerError, history, HandlerOK, RowDeleted,
           UndoneUnanswered, Found
  <2>10. CASE ExpandFile(c)
    BY <1>1, <1>2, <2>10
       DEF ExpandFile, AnswerError, history, UndoneUnanswered, Found
  <2>11. ASSUME UNCHANGED <<rowState, disk, created>>
         PROVE  u \notin created' /\ "commit" \in FaultKinds
    BY <2>1, <2>11 DEF Found
  <2> QED
    BY <2>2, <2>3, <2>4, <2>5, <2>6, <2>7, <2>8, <2>9, <2>10, <2>11
       DEF Step, CreateName, CreateGet, CreateLink, CreateUnlink, DeleteGet,
           DeleteReget, DeleteLink, DeleteCommit, ExpandGet, ExpandRow,
           ExpandStat, ExpandCommit, AnswerError, AnswerDeleted,
           AnswerExpanded, history
<1> QED
  BY <1>4, <1>5 DEF WritesInv, Solo

(* A call that starts has written nothing,                                 *)
LEMMA WritesCall ==
    ASSUME TypeOK, Solo, WritesInv, NEW c \in Controllers, Call(c)
    PROVE  WritesInv'
<1>1. UNCHANGED <<rowState, disk, created>> /\ h \in [Controllers -> Handlers]
  BY DEF Call, CreateCall, DeleteCall, ExpandCall, storageVars, history, TypeOK
<1>2. UndoneUnanswered'
  BY <1>1 DEF WritesInv, UndoneUnanswered, Found
<1>3. h'[c].at \in {"c_name", "d_get", "e_get"}
  BY CallMoves
<1> QED
  BY <1>2, <1>3 DEF WritesInv, RowDeleted, Solo

(* and a crash writes nothing.                                             *)
LEMMA WritesCrash ==
    ASSUME TypeOK, Solo, WritesInv, NEW c \in Controllers, Crash(c)
    PROVE  WritesInv'
<1>1. /\ UNCHANGED <<disk, created>>
      /\ \A u \in Vols : rowState'[u] = rowState[u] \/ rowState'[u] = "void"
  BY DEF Crash, AnswerError, history
<1>2. UndoneUnanswered'
  BY <1>1 DEF WritesInv, UndoneUnanswered, Found
<1>3. h'[c].at = "idle"
  BY Moves DEF Crash, AnswerError
<1> QED
  BY <1>2, <1>3 DEF WritesInv, RowDeleted, Solo

-----------------------------------------------------------------------------
(* While SELECTs alone have failed.  Of the handlers one is under way.     *)
Cleared(c) ==
    \A v \in Vols : rowState[v] = "dead" =>
        disk[v] = Absent \/ (h[c].vol = v /\ h[c].at \in {"d_link", "d_data"})

Sized(c) ==
    \A v \in Vols :
        (/\ Found(v) /\ rowInfo[v].block /\ disk[v] # Absent
         /\ ~(h[c].vol = v /\ h[c].at \in {"e_stat", "e_dd"})) => disk[v] = rowCap[v]

(* The invariants part by part, for the steps of one controller.           *)
LEMMA SoloForms ==
    ASSUME Solo, NEW c \in Controllers
    PROVE  /\ OnlyReadsFailed =>
                 (ReadsInv <=> /\ LiveHasData /\ PromisesRecorded /\ DeletedLeavesNothing
                               /\ Cleared(c) /\ Sized(c) /\ HandlerIsExact(c))
           /\ OnlyReadsFailed' =>
                 (ReadsInv' <=> /\ LiveHasData' /\ PromisesRecorded' /\ DeletedLeavesNothing'
                                /\ Cleared(c)' /\ Sized(c)' /\ HandlerIsExact(c)')
<1>1. \A d \in Controllers : d = c
  BY DEF Solo
<1>2. (DeadIsCleared <=> Cleared(c)) /\ (DeadIsCleared' <=> Cleared(c)')
  BY <1>1 DEF DeadIsCleared, Cleared, Deleting
<1>3. \A v \in Vols : /\ Expanding(v) <=> h[c].vol = v /\ h[c].at \in {"e_stat", "e_dd"}
                      /\ Expanding(v)' <=> h'[c].vol = v /\ h'[c].at \in {"e_stat", "e_dd"}
  BY <1>1 DEF Expanding
<1>4. /\ OnlyReadsFailed => (SizeMatchesRow <=> Sized(c))
      /\ OnlyReadsFailed' => (SizeMatchesRow' <=> Sized(c)')
  BY <1>3 DEF SizeMatchesRow, Sized
<1>5. /\ (\A d \in Controllers : HandlerIsExact(d)) <=> HandlerIsExact(c)
      /\ (\A d \in Controllers : HandlerIsExact(d)') <=> HandlerIsExact(c)'
  BY <1>1
<1> QED
  BY <1>2, <1>4, <1>5 DEF ReadsInv, DeletionHolds

(* A step has no fault, or one that counts.                                *)
LEMMA OnlyReadsBefore ==
    ASSUME TypeOK, NEW c \in Controllers, ControllerNext(c), OnlyReadsFailed'
    PROVE  OnlyReadsFailed /\ \A kind : Fault(kind) => kind = "read"
<1>1. NoFault \/ \E kind : Fault(kind)
  <2>1. CASE Step(c)
    <3>1. CASE CreateName(c) \/ CreateGet(c) \/ CreateStat(c) \/ CreateRefill(c)
      BY <3>1 DEF CreateName, CreateGet, CreateStat, CreateRefill
    <3>2. CASE CreateInsert(c) \/ CreateFill(c) \/ CreateLink(c) \/ CreateCommit(c)
      BY <3>2 DEF CreateInsert, CreateFill, CreateLink, CreateCommit
    <3>3. CASE CreateUndo(c) \/ CreateUnlink(c)
      BY <3>3 DEF CreateUndo, CreateUnlink
    <3>4. CASE \/ DeleteGet(c) \/ DeleteReget(c) \/ DeleteRow(c)
               \/ DeleteLink(c) \/ DeleteData(c) \/ DeleteCommit(c)
      BY <3>4
         DEF DeleteGet, DeleteReget, DeleteRow, DeleteLink, DeleteData, DeleteCommit
    <3>5. CASE \/ ExpandGet(c) \/ ExpandRow(c) \/ ExpandStat(c) \/ ExpandFile(c)
               \/ ExpandCommit(c)
      BY <3>5 DEF ExpandGet, ExpandRow, ExpandStat, ExpandFile, ExpandCommit
    <3> QED
      BY <2>1, <3>1, <3>2, <3>3, <3>4, <3>5 DEF Step
  <2>2. CASE Call(c)
    BY <2>2 DEF Call, CreateCall, DeleteCall, ExpandCall, storageVars, NoFault
  <2>3. CASE Crash(c)
    BY <2>3 DEF Crash
  <2> QED
    BY <2>1, <2>2, <2>3 DEF ControllerNext
<1>2. ASSUME NEW kind, Fault(kind) PROVE OnlyReadsFailed /\ kind = "read"
  BY <1>2 DEF Fault, OnlyReadsFailed
<1>3. NoFault => OnlyReadsFailed
  BY DEF NoFault, OnlyReadsFailed
<1> QED
  BY <1>1, <1>2, <1>3

(* A step keeps what the reads of the handler found true.                  *)
LEMMA ReadsStep ==
    ASSUME TypeOK, TypeOK', IInv, Solo, SoloInv, ReadsInv, NEW c \in Controllers, Step(c)
    PROVE  ReadsInv'
<1> SUFFICES ASSUME OnlyReadsFailed' PROVE ReadsInv'
  BY DEF ReadsInv
<1> DEFINE v == h[c].vol
<1>1. OnlyReadsFailed /\ ~Fault("write") /\ ~Fault("fs") /\ ~Fault("commit")
  BY OnlyReadsBefore DEF ControllerNext
<1>2. /\ LiveHasData /\ PromisesRecorded /\ DeletedLeavesNothing
      /\ Cleared(c) /\ Sized(c) /\ HandlerIsExact(c)
  BY <1>1, SoloForms
<1>3. HandlerOK(c) /\ Filled(c) /\ HandlerKnows(c) /\ PromisesCommitted
  BY DEF IInv, RowsInv, SoloInv
<1>4. /\ h[c].at \in {"idle", "c_name", "c_insert"} \/ v \in Vols
      /\ h[c].want \in Capacities /\ h[c].old \in Capacities
  BY DEF TypeOK, Handlers
<1>5. /\ disk \in [Vols -> Capacities \cup {Absent}]
      /\ rowState \in [Vols -> {"none", "open", "live", "dead", "void"}]
      /\ rowInfo \in [Vols -> Infos \cup {NoInfo}]
      /\ rowCap \in [Vols -> Capacities] /\ promised \in [Vols -> Capacities]
      /\ gone \subseteq Vols
  BY DEF TypeOK, StorageTypeOK
<1>6. /\ Capacities \subseteq Int /\ Absent \notin Capacities /\ 0 \in Capacities
      /\ h[c].want \in Int /\ h[c].old \in Int /\ 0 <= h[c].want
      /\ \A u \in Vols : rowCap[u] \in Int /\ promised[u] \in Int /\ rowCap[u] \in Capacities
  BY <1>4, <1>5, CapacityFacts DEF Capacities
<1>7. h'[c].at \notin {"c_undo", "c_unlink", "c_link", "c_commit", "e_stat", "e_dd",
                      "d_link", "d_data", "d_commit"} => HandlerIsExact(c)'
  BY DEF HandlerIsExact
<1>8. UNCHANGED history => UNCHANGED <<created, promised, doomed, gone>>
  BY DEF history
<1>9. ASSUME UNCHANGED <<rowState, disk>>
      PROVE  LiveHasData' /\ (gone' = gone => DeletedLeavesNothing')
  BY <1>2, <1>9 DEF LiveHasData, DeletedLeavesNothing, Found
<1>10. ASSUME UNCHANGED <<promised, rowCap>> PROVE PromisesRecorded'
  BY <1>2, <1>10 DEF PromisesRecorded
<1>11. ASSUME UNCHANGED <<rowState, rowInfo, rowCap, disk>>,
              h[c].at \notin {"d_link", "d_data", "e_stat", "e_dd"}
       PROVE  Cleared(c)' /\ Sized(c)'
  BY <1>2, <1>11 DEF Cleared, Sized, Found
<1>12. ASSUME NEW x \in Int, v \in Vols, rowCap' = rowCap, x <= rowCap[v],
              promised' = [promised EXCEPT ![v] = IF x > @ THEN x ELSE @]
       PROVE  PromisesRecorded'
  <2>1. \A u \in Vols : promised'[u] <= rowCap[u]
    BY <1>2, <1>5, <1>6, <1>12 DEF PromisesRecorded
  <2> QED
    BY <1>12, <2>1 DEF PromisesRecorded
<1> USE DEF At
<1>13. ASSUME CreateName(c)
      PROVE  /\ HandlerIsExact(c)'
             /\ LiveHasData' /\ PromisesRecorded' /\ DeletedLeavesNothing'
             /\ Cleared(c)' /\ Sized(c)'
  <2>1. HandlerIsExact(c)'
    <3>1. ASSUME NEW u,
                 h' = [h EXCEPT ![c] = [@ EXCEPT !.at = "c_get", !.vol = u]]
          PROVE  HandlerIsExact(c)'
      <4>1. h'[c].at = "c_get"
        BY <3>1 DEF TypeOK, Handlers
      <4> QED
        BY <1>7, <4>1
    <3>2. Goto(c, "c_insert") => HandlerIsExact(c)'
      BY <1>7, Moves
    <3> QED
      BY <1>13, <3>1, <3>2 DEF CreateName
  <2>2. LiveHasData' /\ PromisesRecorded' /\ DeletedLeavesNothing'
    BY <1>13, <1>8, <1>9, <1>10
       DEF CreateName
  <2>3. Cleared(c)' /\ Sized(c)'
    BY <1>13, <1>11
       DEF CreateName
  <2> QED
    BY <2>1, <2>2, <2>3
<1>14. ASSUME CreateGet(c)
      PROVE  /\ HandlerIsExact(c)'
             /\ LiveHasData' /\ PromisesRecorded' /\ DeletedLeavesNothing'
             /\ Cleared(c)' /\ Sized(c)'
  <2>1. HandlerIsExact(c)'
    <3>1. ASSUME NEW u,
                 h' = [h EXCEPT ![c] = [@ EXCEPT !.at = "c_stat", !.old = u]]
          PROVE  HandlerIsExact(c)'
      <4>1. h'[c].at = "c_stat"
        BY <3>1 DEF TypeOK, Handlers
      <4> QED
        BY <1>7, <4>1
    <3>2. Return(c) => HandlerIsExact(c)'
      BY <1>7, Moves
    <3> QED
      BY <1>14, <3>1, <3>2 DEF CreateGet, AnswerError
  <2>2. LiveHasData' /\ PromisesRecorded' /\ DeletedLeavesNothing'
    BY <1>14, <1>8, <1>9, <1>10
       DEF CreateGet, AnswerError
  <2>3. Cleared(c)' /\ Sized(c)'
    BY <1>14, <1>11
       DEF CreateGet
  <2> QED
    BY <2>1, <2>2, <2>3
<1>15. ASSUME CreateStat(c)
      PROVE  /\ HandlerIsExact(c)'
             /\ LiveHasData' /\ PromisesRecorded' /\ DeletedLeavesNothing'
             /\ Cleared(c)' /\ Sized(c)'
  <2>1. HandlerIsExact(c)'
    BY <1>15, <1>7, Moves
       DEF CreateStat, AnswerError, AnswerCreated
  <2>2. LiveHasData' /\ PromisesRecorded' /\ DeletedLeavesNothing'
    <3>1. LiveHasData' /\ DeletedLeavesNothing'
      BY <1>15, <1>8, <1>9 DEF CreateStat, AnswerError, AnswerCreated
    <3>2. PromisesRecorded'
      BY <1>15, <1>3, <1>4, <1>6, <1>8, <1>10, <1>12
         DEF CreateStat, AnswerError, AnswerCreated, Suits, HandlerKnows
    <3> QED
      BY <3>1, <3>2
  <2>3. Cleared(c)' /\ Sized(c)'
    BY <1>15, <1>11
       DEF CreateStat
  <2> QED
    BY <2>1, <2>2, <2>3
<1>16. ~CreateRefill(c)
    BY <1>2, <1>3, <1>4
       DEF CreateRefill, HandlerKnows, LiveHasData
<1>17. ASSUME CreateInsert(c)
      PROVE  /\ HandlerIsExact(c)'
             /\ LiveHasData' /\ PromisesRecorded' /\ DeletedLeavesNothing'
             /\ Cleared(c)' /\ Sized(c)'
  <2>1. HandlerIsExact(c)'
    <3>1. ASSUME NEW u,
                 h' = [h EXCEPT ![c] = [@ EXCEPT !.at = "c_fill", !.vol = u]]
          PROVE  HandlerIsExact(c)'
      <4>1. h'[c].at = "c_fill"
        BY <3>1 DEF TypeOK, Handlers
      <4> QED
        BY <1>7, <4>1
    <3>2. Return(c) => HandlerIsExact(c)'
      BY <1>7, Moves
    <3> QED
      BY <1>17, <3>1, <3>2 DEF CreateInsert, AnswerError
  <2>2. LiveHasData' /\ PromisesRecorded' /\ DeletedLeavesNothing'
    <3>1. ASSUME NEW u \in Vols, rowState[u] = "none", UNCHANGED <<disk, history>>,
                 rowState' = [rowState EXCEPT ![u] = "open"],
                 rowCap' = [rowCap EXCEPT ![u] = h[c].want]
          PROVE  LiveHasData' /\ PromisesRecorded' /\ DeletedLeavesNothing'
      <4>1. LiveHasData' /\ DeletedLeavesNothing'
        BY <1>2, <1>5, <1>8, <3>1 DEF LiveHasData, DeletedLeavesNothing, Found
      <4>2. promised[u] = 0 /\ promised' = promised
        BY <1>3, <1>8, <3>1 DEF PromisesCommitted, IsCommitted
      <4>3. \A w \in Vols : promised'[w] <= rowCap'[w]
        BY <1>2, <1>4, <1>5, <1>6, <3>1, <4>2 DEF PromisesRecorded
      <4> QED
        BY <4>1, <4>3 DEF PromisesRecorded
    <3>2. ASSUME UNCHANGED <<rowState, rowCap, disk, history>>
          PROVE  LiveHasData' /\ PromisesRecorded' /\ DeletedLeavesNothing'
      BY <1>8, <1>9, <1>10, <3>2
    <3> QED
      BY <1>17, <3>1, <3>2 DEF CreateInsert, AnswerError, Fresh, Inserted
  <2>3. Cleared(c)' /\ Sized(c)'
    <3>1. ASSUME NEW u \in Vols, rowState[u] = "none", UNCHANGED disk,
                 rowState' = [rowState EXCEPT ![u] = "open"],
                 rowInfo' = [rowInfo EXCEPT ![u] = h[c].info],
                 rowCap' = [rowCap EXCEPT ![u] = h[c].want],
                 h[c].at = "c_insert"
          PROVE  Cleared(c)' /\ Sized(c)'
      BY <1>2, <1>5, <3>1 DEF Cleared, Sized, Found
    <3> QED
      BY <1>17, <1>11, <3>1 DEF CreateInsert, Fresh, Inserted
  <2> QED
    BY <2>1, <2>2, <2>3
<1>18. ASSUME CreateFill(c)
      PROVE  /\ HandlerIsExact(c)'
             /\ LiveHasData' /\ PromisesRecorded' /\ DeletedLeavesNothing'
             /\ Cleared(c)' /\ Sized(c)'
  <2>1. HandlerIsExact(c)'
    BY <1>18, <1>1, <1>2, <1>3, <1>4, <1>5, <1>6, <1>8, Moves
       DEF CreateFill, HandlerOK, HandlerKnows, InTransaction,
           HandlerIsExact, Populated
  <2>2. LiveHasData' /\ PromisesRecorded' /\ DeletedLeavesNothing'
    BY <1>18, <1>1, <1>2, <1>3, <1>4, <1>5, <1>6, <1>8
       DEF CreateFill, HandlerOK, HandlerKnows, InTransaction, LiveHasData,
           PromisesRecorded, DeletedLeavesNothing, Found, Populated
  <2>3. Cleared(c)' /\ Sized(c)'
    BY <1>18, <1>1, <1>2, <1>3, <1>4, <1>5, <1>6, <1>8, Moves
       DEF CreateFill, HandlerOK, HandlerKnows, InTransaction, Cleared,
           Sized, Found
  <2> QED
    BY <2>1, <2>2, <2>3
<1>19. ASSUME CreateLink(c)
      PROVE  /\ HandlerIsExact(c)'
             /\ LiveHasData' /\ PromisesRecorded' /\ DeletedLeavesNothing'
             /\ Cleared(c)' /\ Sized(c)'
  <2>1. HandlerIsExact(c)'
    BY <1>19, <1>1, <1>2, <1>3, <1>4, <1>5, <1>6, <1>8, Moves
       DEF CreateLink, HandlerOK, HandlerKnows, InTransaction,
           HandlerIsExact
  <2>2. LiveHasData' /\ PromisesRecorded' /\ DeletedLeavesNothing'
    BY <1>19, <1>2, <1>3, <1>4, <1>5, <1>6, <1>8, <1>9, <1>10
       DEF CreateLink
  <2>3. Cleared(c)' /\ Sized(c)'
    BY <1>19, <1>11
       DEF CreateLink
  <2> QED
    BY <2>1, <2>2, <2>3
<1>20. ASSUME CreateCommit(c)
      PROVE  /\ HandlerIsExact(c)'
             /\ LiveHasData' /\ PromisesRecorded' /\ DeletedLeavesNothing'
             /\ Cleared(c)' /\ Sized(c)'
  <2>1. HandlerIsExact(c)'
    BY <1>20, <1>1, <1>7, Moves
       DEF CreateCommit, AnswerCreated
  <2>2. LiveHasData' /\ PromisesRecorded' /\ DeletedLeavesNothing'
    <3>1. LiveHasData' /\ DeletedLeavesNothing'
      BY <1>20, <1>1, <1>2, <1>3, <1>4, <1>5
         DEF CreateCommit, HandlerOK, Filled, InTransaction, LiveHasData,
             DeletedLeavesNothing, Found, AnswerCreated
    <3>2. PromisesRecorded'
      BY <1>20, <1>1, <1>3, <1>4, <1>6, <1>12
         DEF CreateCommit, AnswerCreated, HandlerKnows, InTransaction
    <3> QED
      BY <3>1, <3>2
  <2>3. Cleared(c)' /\ Sized(c)'
    BY <1>20, <1>1, <1>2, <1>3, <1>4, <1>5, <1>6, <1>8, Moves
       DEF CreateCommit, HandlerOK, HandlerKnows, InTransaction, Cleared,
           Sized, Found, HandlerIsExact, Populated, AnswerCreated
  <2> QED
    BY <2>1, <2>2, <2>3
<1>21. ~CreateUndo(c)
    BY <1>2
       DEF CreateUndo, HandlerIsExact
<1>22. ~CreateUnlink(c)
    BY <1>2
       DEF CreateUnlink, HandlerIsExact
<1>23. ASSUME DeleteGet(c)
      PROVE  /\ HandlerIsExact(c)'
             /\ LiveHasData' /\ PromisesRecorded' /\ DeletedLeavesNothing'
             /\ Cleared(c)' /\ Sized(c)'
  <2>1. HandlerIsExact(c)'
    BY <1>23, <1>7, Moves
       DEF DeleteGet, AnswerDeleted
  <2>2. LiveHasData' /\ PromisesRecorded' /\ DeletedLeavesNothing'
    BY <1>23, <1>1, <1>2, <1>3, <1>4, <1>5, <1>6, <1>8
       DEF DeleteGet, HandlerOK, HandlerKnows, InTransaction, LiveHasData,
           PromisesRecorded, DeletedLeavesNothing, Found, Cleared,
           IsCommitted, AnswerDeleted
  <2>3. Cleared(c)' /\ Sized(c)'
    BY <1>23, <1>11
       DEF DeleteGet
  <2> QED
    BY <2>1, <2>2, <2>3
<1>24. ASSUME DeleteReget(c)
      PROVE  /\ HandlerIsExact(c)'
             /\ LiveHasData' /\ PromisesRecorded' /\ DeletedLeavesNothing'
             /\ Cleared(c)' /\ Sized(c)'
  <2>1. HandlerIsExact(c)'
    BY <1>24, <1>7, Moves
       DEF DeleteReget, AnswerError
  <2>2. LiveHasData' /\ PromisesRecorded' /\ DeletedLeavesNothing'
    BY <1>24, <1>2, <1>3, <1>4, <1>5, <1>6, <1>8, <1>9, <1>10
       DEF DeleteReget, AnswerError
  <2>3. Cleared(c)' /\ Sized(c)'
    BY <1>24, <1>11
       DEF DeleteReget
  <2> QED
    BY <2>1, <2>2, <2>3
<1>25. ASSUME DeleteRow(c)
      PROVE  /\ HandlerIsExact(c)'
             /\ LiveHasData' /\ PromisesRecorded' /\ DeletedLeavesNothing'
             /\ Cleared(c)' /\ Sized(c)'
  <2>1. HandlerIsExact(c)'
    BY <1>25, <1>1, <1>2, <1>3, <1>4, <1>5, <1>6, <1>8, Moves
       DEF DeleteRow, HandlerOK, HandlerKnows, InTransaction,
           HandlerIsExact, Found
  <2>2. LiveHasData' /\ PromisesRecorded' /\ DeletedLeavesNothing'
    BY <1>25, <1>1, <1>2, <1>3, <1>4, <1>5, <1>6, <1>8
       DEF DeleteRow, HandlerOK, HandlerKnows, InTransaction, LiveHasData,
           PromisesRecorded, DeletedLeavesNothing, Found
  <2>3. Cleared(c)' /\ Sized(c)'
    BY <1>25, <1>1, <1>2, <1>3, <1>4, <1>5, <1>6, <1>8, Moves
       DEF DeleteRow, HandlerOK, HandlerKnows, InTransaction, Cleared,
           Sized, Found
  <2> QED
    BY <2>1, <2>2, <2>3
<1>26. ASSUME DeleteLink(c)
      PROVE  /\ HandlerIsExact(c)'
             /\ LiveHasData' /\ PromisesRecorded' /\ DeletedLeavesNothing'
             /\ Cleared(c)' /\ Sized(c)'
  <2>1. HandlerIsExact(c)'
    BY <1>26, <1>1, <1>2, <1>3, <1>4, <1>5, <1>6, <1>8, Moves
       DEF DeleteLink, HandlerOK, HandlerKnows, InTransaction,
           HandlerIsExact
  <2>2. LiveHasData' /\ PromisesRecorded' /\ DeletedLeavesNothing'
    BY <1>26, <1>2, <1>3, <1>4, <1>5, <1>6, <1>8, <1>9, <1>10
       DEF DeleteLink
  <2>3. Cleared(c)' /\ Sized(c)'
    BY <1>26, <1>1, <1>2, <1>3, <1>4, <1>5, <1>6, <1>8, Moves
       DEF DeleteLink, HandlerOK, HandlerKnows, InTransaction, Cleared,
           Sized, Found
  <2> QED
    BY <2>1, <2>2, <2>3
<1>27. ASSUME DeleteData(c)
      PROVE  /\ HandlerIsExact(c)'
             /\ LiveHasData' /\ PromisesRecorded' /\ DeletedLeavesNothing'
             /\ Cleared(c)' /\ Sized(c)'
  <2>1. HandlerIsExact(c)'
    BY <1>27, <1>1, <1>2, <1>3, <1>4, <1>5, <1>6, <1>8, Moves
       DEF DeleteData, HandlerOK, HandlerKnows, InTransaction,
           HandlerIsExact
  <2>2. LiveHasData' /\ PromisesRecorded' /\ DeletedLeavesNothing'
    BY <1>27, <1>1, <1>2, <1>3, <1>4, <1>5, <1>6, <1>8
       DEF DeleteData, HandlerOK, HandlerKnows, InTransaction, LiveHasData,
           PromisesRecorded, DeletedLeavesNothing, Found, HandlerIsExact
  <2>3. Cleared(c)' /\ Sized(c)'
    BY <1>27, <1>1, <1>2, <1>3, <1>4, <1>5, <1>6, <1>8, Moves
       DEF DeleteData, HandlerOK, HandlerKnows, InTransaction, Cleared,
           Sized, Found
  <2> QED
    BY <2>1, <2>2, <2>3
<1>28. ASSUME DeleteCommit(c)
      PROVE  /\ HandlerIsExact(c)'
             /\ LiveHasData' /\ PromisesRecorded' /\ DeletedLeavesNothing'
             /\ Cleared(c)' /\ Sized(c)'
  <2>1. HandlerIsExact(c)'
    BY <1>28, <1>7, Moves
       DEF DeleteCommit, AnswerDeleted, AnswerError
  <2>2. LiveHasData' /\ PromisesRecorded' /\ DeletedLeavesNothing'
    BY <1>28, <1>1, <1>2, <1>3, <1>4, <1>5, <1>6, <1>8
       DEF DeleteCommit, HandlerOK, HandlerKnows, InTransaction,
           LiveHasData, PromisesRecorded, DeletedLeavesNothing, Found,
           HandlerIsExact, AnswerDeleted
  <2>3. Cleared(c)' /\ Sized(c)'
    BY <1>28, <1>11
       DEF DeleteCommit
  <2> QED
    BY <2>1, <2>2, <2>3
<1>29. ASSUME ExpandGet(c)
      PROVE  /\ HandlerIsExact(c)'
             /\ LiveHasData' /\ PromisesRecorded' /\ DeletedLeavesNothing'
             /\ Cleared(c)' /\ Sized(c)'
  <2>1. HandlerIsExact(c)'
    <3>1. ASSUME NEW u,
                 h' = [h EXCEPT ![c] = [@ EXCEPT !.at = "e_row", !.old = u]]
          PROVE  HandlerIsExact(c)'
      <4>1. h'[c].at = "e_row"
        BY <3>1 DEF TypeOK, Handlers
      <4> QED
        BY <1>7, <4>1
    <3>2. Return(c) => HandlerIsExact(c)'
      BY <1>7, Moves
    <3> QED
      BY <1>29, <3>1, <3>2 DEF ExpandGet, AnswerError, AnswerExpanded
  <2>2. LiveHasData' /\ PromisesRecorded' /\ DeletedLeavesNothing'
    BY <1>29, <1>2, <1>3, <1>4, <1>5, <1>6, <1>8, <1>9, <1>10
       DEF ExpandGet, AnswerError, AnswerExpanded, PromisesRecorded
  <2>3. Cleared(c)' /\ Sized(c)'
    BY <1>29, <1>11
       DEF ExpandGet
  <2> QED
    BY <2>1, <2>2, <2>3
<1>30. ASSUME ExpandRow(c)
      PROVE  /\ HandlerIsExact(c)'
             /\ LiveHasData' /\ PromisesRecorded' /\ DeletedLeavesNothing'
             /\ Cleared(c)' /\ Sized(c)'
  <2>1. HandlerIsExact(c)'
    BY <1>30, <1>1, <1>2, <1>3, <1>4, <1>5, <1>6, <1>8, Moves
       DEF ExpandRow, HandlerOK, HandlerKnows, InTransaction,
           HandlerIsExact, AfterRow, Sized, LiveHasData, PromisesRecorded,
           Found
  <2>2. LiveHasData' /\ PromisesRecorded' /\ DeletedLeavesNothing'
    <3>1. LiveHasData' /\ DeletedLeavesNothing'
      BY <1>30, <1>1, <1>8, <1>9 DEF ExpandRow
    <3>2. PromisesRecorded'
      <4>1. /\ rowCap' = [rowCap EXCEPT ![v] = h[c].want] /\ promised' = promised
            /\ v \in Vols /\ h[c].want > rowCap[v]
        BY <1>30, <1>1, <1>3, <1>4, <1>8 DEF ExpandRow, HandlerKnows
      <4>2. \A u \in Vols : promised'[u] <= rowCap'[u]
        BY <1>2, <1>4, <1>5, <1>6, <4>1 DEF PromisesRecorded
      <4> QED
        BY <4>2 DEF PromisesRecorded
    <3> QED
      BY <3>1, <3>2
  <2>3. Cleared(c)' /\ Sized(c)'
    BY <1>30, <1>1, <1>2, <1>3, <1>4, <1>5, <1>6, <1>8, Moves
       DEF ExpandRow, HandlerOK, HandlerKnows, InTransaction, Cleared,
           Sized, Found, AfterRow
  <2> QED
    BY <2>1, <2>2, <2>3
<1>31. ASSUME ExpandStat(c)
      PROVE  /\ HandlerIsExact(c)'
             /\ LiveHasData' /\ PromisesRecorded' /\ DeletedLeavesNothing'
             /\ Cleared(c)' /\ Sized(c)'
  <2>1. HandlerIsExact(c)'
    BY <1>31, <1>1, <1>2, <1>3, <1>4, <1>5, <1>6, <1>8, Moves
       DEF ExpandStat, HandlerOK, HandlerKnows, InTransaction,
           HandlerIsExact
  <2>2. LiveHasData' /\ PromisesRecorded' /\ DeletedLeavesNothing'
    BY <1>31, <1>2, <1>8, <1>9, <1>10
       DEF ExpandStat, HandlerIsExact, AnswerError
  <2>3. Cleared(c)' /\ Sized(c)'
    BY <1>31, <1>1, <1>2, <1>3, <1>4, <1>5, <1>6, <1>8, Moves
       DEF ExpandStat, HandlerOK, HandlerKnows, InTransaction, Cleared,
           Sized, Found, HandlerIsExact
  <2> QED
    BY <2>1, <2>2, <2>3
<1>32. ASSUME ExpandFile(c)
      PROVE  /\ HandlerIsExact(c)'
             /\ LiveHasData' /\ PromisesRecorded' /\ DeletedLeavesNothing'
             /\ Cleared(c)' /\ Sized(c)'
  <2>1. HandlerIsExact(c)'
    BY <1>32, <1>1, <1>7, Moves
       DEF ExpandFile
  <2>2. LiveHasData' /\ PromisesRecorded' /\ DeletedLeavesNothing'
    BY <1>32, <1>1, <1>2, <1>3, <1>4, <1>5, <1>6, <1>8
       DEF ExpandFile, HandlerOK, HandlerKnows, InTransaction, LiveHasData,
           PromisesRecorded, DeletedLeavesNothing, Found, HandlerIsExact
  <2>3. Cleared(c)' /\ Sized(c)'
    BY <1>32, <1>1, <1>2, <1>3, <1>4, <1>5, <1>6, <1>8, Moves
       DEF ExpandFile, HandlerOK, HandlerKnows, InTransaction, Cleared,
           Sized, Found
  <2> QED
    BY <2>1, <2>2, <2>3
<1>33. ASSUME ExpandCommit(c)
      PROVE  /\ HandlerIsExact(c)'
             /\ LiveHasData' /\ PromisesRecorded' /\ DeletedLeavesNothing'
             /\ Cleared(c)' /\ Sized(c)'
  <2>1. HandlerIsExact(c)'
    BY <1>33, <1>7, Moves
       DEF ExpandCommit, AnswerExpanded, AnswerError
  <2>2. LiveHasData' /\ PromisesRecorded' /\ DeletedLeavesNothing'
    <3>1. LiveHasData' /\ DeletedLeavesNothing'
      BY <1>33, <1>8, <1>9 DEF ExpandCommit, AnswerError, AnswerExpanded
    <3>2. PromisesRecorded'
      BY <1>33, <1>1, <1>3, <1>4, <1>6, <1>12
         DEF ExpandCommit, AnswerExpanded, HandlerKnows
    <3> QED
      BY <3>1, <3>2
  <2>3. Cleared(c)' /\ Sized(c)'
    BY <1>33, <1>11
       DEF ExpandCommit
  <2> QED
    BY <2>1, <2>2, <2>3
<1>34. /\ HandlerIsExact(c)'
      /\ LiveHasData' /\ PromisesRecorded' /\ DeletedLeavesNothing'
      /\ Cleared(c)' /\ Sized(c)'
  BY <1>13, <1>14, <1>15, <1>16, <1>17, <1>18, <1>19, <1>20, <1>21, <1>22, <1>23,
     <1>24, <1>25, <1>26, <1>27, <1>28, <1>29, <1>30, <1>31, <1>32, <1>33 DEF Step
<1> QED
  BY <1>34, SoloForms

(* A call that starts relies on no read.                                   *)
LEMMA ReadsCall ==
    ASSUME TypeOK, Solo, ReadsInv, NEW c \in Controllers, Call(c)
    PROVE  ReadsInv'
<1> SUFFICES ASSUME OnlyReadsFailed' PROVE ReadsInv'
  BY DEF ReadsInv
<1>1. /\ LiveHasData /\ PromisesRecorded /\ DeletedLeavesNothing
      /\ Cleared(c) /\ Sized(c)
  BY OnlyReadsBefore, SoloForms DEF ControllerNext
<1>2. /\ UNCHANGED <<rowState, rowInfo, rowCap, disk, promised, gone>>
      /\ h[c].at = "idle"
  BY DEF Call, CreateCall, DeleteCall, ExpandCall, storageVars, history, At
<1>3. HandlerIsExact(c)'
  BY CallMoves DEF HandlerIsExact
<1>4. LiveHasData' /\ PromisesRecorded' /\ DeletedLeavesNothing'
  BY <1>1, <1>2 DEF LiveHasData, PromisesRecorded, DeletedLeavesNothing, Found
<1>5. Cleared(c)' /\ Sized(c)'
  BY <1>1, <1>2 DEF Cleared, Sized, Found
<1> QED
  BY <1>3, <1>4, <1>5, SoloForms

-----------------------------------------------------------------------------
(* The invariants hold at first.                                           *)
LEMMA InitSolo == Init => SoloInv /\ ReadsInv /\ NamesInv /\ WritesInv
<1> SUFFICES ASSUME Init PROVE SoloInv /\ ReadsInv /\ NamesInv /\ WritesInv
  OBVIOUS
<1>1. /\ \A v \in Vols : /\ rowState[v] = "none" /\ rowCap[v] = 0 /\ promised[v] = 0
                         /\ ~Found(v)
      /\ gone = {} /\ \A c \in Controllers : h[c].at = "idle"
  BY DEF Init, StorageInit, Idle, Found
<1>2. SoloInv
  BY <1>1
     DEF SoloInv, PromisesCommitted, RowsAsAsked, HandlerKnows, Creating, InTransaction
<1>3. ReadsInv
  BY <1>1
     DEF ReadsInv, LiveHasData, PromisesRecorded, DeadIsCleared, DeletionHolds,
         DeletedLeavesNothing, SizeMatchesRow, HandlerIsExact
<1>4. NamesInv
  BY <1>1 DEF NamesInv, OneVolumePerName, NameFree, InTransaction
<1>5. WritesInv
  BY <1>1 DEF WritesInv, UndoneUnanswered, RowDeleted
<1> QED
  BY <1>2, <1>3, <1>4, <1>5

(* They are inductive for one controller.                                  *)
LEMMA NextSolo ==
    ASSUME Solo, TypeOK, TypeOK', IInv, SoloInv, [Next]_vars
    PROVE  /\ SoloInv'
           /\ ReadsInv => ReadsInv'
           /\ "read" \notin FaultKinds => (NamesInv => NamesInv')
           /\ "write" \notin FaultKinds => (WritesInv => WritesInv')
<1>1. CASE UNCHANGED vars
  <2>1. SoloInv'
    BY <1>1
       DEF vars, SoloInv, PromisesCommitted, RowsAsAsked, IsCommitted, Found,
           HandlerKnows, Creating, InTransaction
  <2>2. ReadsInv => ReadsInv'
    BY <1>1
       DEF vars, ReadsInv, OnlyReadsFailed, LiveHasData, PromisesRecorded,
           DeadIsCleared, Deleting, DeletionHolds, DeletedLeavesNothing,
           SizeMatchesRow, Expanding, Found, HandlerIsExact
  <2>3. NamesInv => NamesInv'
    BY <1>1
       DEF vars, NamesInv, OneVolumePerName, Found, NameFree, Named, InTransaction
  <2>4. WritesInv => WritesInv'
    BY <1>1 DEF vars, WritesInv, UndoneUnanswered, Found, RowDeleted
  <2> QED
    BY <2>1, <2>2, <2>3, <2>4
<1>2. ASSUME NEW c \in Controllers, Step(c)
      PROVE  /\ SoloInv'
             /\ ReadsInv => ReadsInv'
             /\ "read" \notin FaultKinds => (NamesInv => NamesInv')
             /\ "write" \notin FaultKinds => (WritesInv => WritesInv')
  BY <1>2, SoloStep, ReadsStep, NamesStep, WritesStep
<1>3. ASSUME NEW c \in Controllers, Call(c)
      PROVE  /\ SoloInv'
             /\ ReadsInv => ReadsInv'
             /\ "read" \notin FaultKinds => (NamesInv => NamesInv')
             /\ "write" \notin FaultKinds => (WritesInv => WritesInv')
  BY <1>3, SoloCall, ReadsCall, NamesCall, WritesCall
<1>4. ASSUME NEW c \in Controllers, Crash(c)
      PROVE  /\ SoloInv'
             /\ ReadsInv => ReadsInv'
             /\ "read" \notin FaultKinds => (NamesInv => NamesInv')
             /\ "write" \notin FaultKinds => (WritesInv => WritesInv')
  <2>1. Fault("crash") /\ ControllerNext(c)
    BY <1>4 DEF Crash, ControllerNext
  <2>2. ~OnlyReadsFailed'
    BY <2>1, OnlyReadsBefore
  <2> QED
    BY <1>4, <2>2, SoloCrash, NamesCrash, WritesCrash DEF ReadsInv
<1> QED
  BY <1>1, <1>2, <1>3, <1>4 DEF Next, ControllerNext

(* What always holds of one controller.                                    *)
LEMMA SoloAlways ==
    ASSUME Solo
    PROVE  Spec => [](TypeOK /\ IInv /\ SoloInv /\ ReadsInv)
<1>1. SoloOrCertain
  BY DEF Solo, SoloOrCertain
<1>2. Init => TypeOK /\ IInv /\ SoloInv /\ ReadsInv
  BY InitType, InitIInv, InitSolo
<1>3. (TypeOK /\ IInv /\ SoloInv /\ ReadsInv) /\ [Next]_vars
         => (TypeOK /\ IInv /\ SoloInv /\ ReadsInv)'
  BY <1>1, NextType, NextIInv, NextSolo
<1> QED
  BY <1>2, <1>3, PTL DEF Spec

-----------------------------------------------------------------------------
(* While SELECTs alone fail, the capacity a caller was answered is in the  *)
(* row and on disk: CreateVolume compares what it finds, and                *)
(* ControllerExpandVolume answers after both were written.                 *)
THEOREM PromiseKeptAlways ==
    ASSUME Solo
    PROVE  Spec => []PromiseKept
<1>1. ASSUME TypeOK, IInv, ReadsInv, OnlyReadsFailed, NEW v \in Held
      PROVE  /\ rowCap[v] >= promised[v]
             /\ rowInfo[v].block => disk[v] >= promised[v]
  <2>1. v \in Vols /\ Found(v) /\ disk[v] # Absent
    BY <1>1 DEF IInv, RowsInv, AckedHasData, Held, Found, TypeOK
  <2>2. rowCap[v] \in Int /\ promised[v] \in Int /\ promised[v] <= rowCap[v]
    BY <1>1, <2>1, CapacityFacts DEF ReadsInv, PromisesRecorded, TypeOK
  <2>3. disk[v] \in Int
    BY <1>1, <2>1, CapacityFacts DEF TypeOK
  <2>4. CASE Expanding(v)
    <3>1. PICK c \in Controllers : h[c].vol = v /\ h[c].at \in {"e_stat", "e_dd"}
      BY <2>4 DEF Expanding
    <3>2. disk[v] = h[c].old /\ promised[v] <= h[c].old
      BY <1>1, <3>1 DEF ReadsInv, HandlerIsExact
    <3> QED
      BY <2>2, <2>3, <3>2
  <2>5. CASE ~Expanding(v)
    <3>1. rowInfo[v].block => disk[v] = rowCap[v]
      BY <1>1, <2>1, <2>5 DEF ReadsInv, SizeMatchesRow
    <3> QED
      BY <2>2, <2>3, <3>1
  <2> QED
    BY <2>4, <2>5
<1>2. TypeOK /\ IInv /\ SoloInv /\ ReadsInv => PromiseKept
  BY <1>1 DEF PromiseKept
<1> QED
  BY <1>2, SoloAlways, PTL

(* While SELECTs alone fail, an answered deletion is complete, and no      *)
(* later call brings the volume back.                                      *)
THEOREM DeletionHoldsAlways ==
    ASSUME Solo
    PROVE  Spec => []DeletionHolds
<1>1. TypeOK /\ IInv /\ SoloInv /\ ReadsInv => DeletionHolds
  BY DEF ReadsInv, DeletionHolds
<1> QED
  BY <1>1, SoloAlways, PTL

(* While SELECTs alone fail, row and file of a block volume agree whenever *)
(* no expansion is between the two.                                        *)
THEOREM SizeMatchesRowAlways ==
    ASSUME Solo
    PROVE  Spec => []SizeMatchesRow
<1>1. TypeOK /\ IInv /\ SoloInv /\ ReadsInv => SizeMatchesRow
  BY DEF ReadsInv, SizeMatchesRow
<1> QED
  BY <1>1, SoloAlways, PTL

(* Where no SELECT fails, one controller makes no two volumes of a name,   *)
(* whatever else fails or crashes and however often it is asked again.     *)
THEOREM OneVolumePerNameAlways ==
    ASSUME Solo, "read" \notin FaultKinds
    PROVE  Spec => []OneVolumePerName
<1>1. Init => NamesInv
  BY InitSolo
<1>2. (TypeOK /\ IInv /\ SoloInv /\ ReadsInv) /\ (TypeOK /\ IInv /\ SoloInv /\ ReadsInv)'
         /\ [Next]_vars /\ NamesInv => NamesInv'
  BY NextSolo
<1>3. NamesInv => OneVolumePerName
  BY DEF NamesInv
<1> QED
  BY <1>1, <1>2, <1>3, SoloAlways, PTL DEF Spec

(* The capacity of a committed row never goes down, whatever fails: the    *)
(* only update follows a comparison with a value nobody else changes.      *)
THEOREM CapacityNeverShrinksAlways ==
    ASSUME Solo
    PROVE  Spec => CapacityNeverShrinks
<1>1. ASSUME TypeOK, SoloInv, Next, NEW v \in Vols, Found(v)
      PROVE  rowCap'[v] >= rowCap[v]
  <2>1. rowCap \in [Vols -> Capacities] /\ rowCap[v] \in Int
    BY <1>1, CapacityFacts DEF TypeOK
  <2>2. PICK c \in Controllers : ControllerNext(c)
    BY <1>1 DEF Next
  <2>3. CreateInsert(c) => rowCap'[v] = rowCap[v]
    BY <1>1, <2>1 DEF CreateInsert, Fresh, Found
  <2>4. ASSUME ExpandRow(c)
        PROVE  rowCap'[v] = rowCap[v] \/ (rowCap'[v] \in Int /\ rowCap'[v] > rowCap[v])
    <3>1. h[c].want > rowCap[h[c].vol] /\ h[c].want \in Int
      <4>1. HandlerKnows(c) /\ h[c].at = "e_row"
        BY <1>1, <2>4 DEF SoloInv, ExpandRow, At
      <4>2. h[c].want \in Int
        BY <1>1, CapacityFacts DEF TypeOK, Handlers
      <4> QED
        BY <4>1, <4>2 DEF HandlerKnows
    <3> QED
      BY <2>1, <2>4, <3>1 DEF ExpandRow
  <2>5. \/ rowCap'[v] = rowCap[v]
        \/ rowCap'[v] \in Int /\ rowCap'[v] > rowCap[v]
    BY <2>2, <2>3, <2>4
       DEF ControllerNext, Call, CreateCall, DeleteCall, ExpandCall, storageVars,
           Crash, Step, CreateName, CreateGet, CreateStat, CreateRefill,
           CreateFill, CreateLink, CreateCommit, CreateUndo, CreateUnlink,
           DeleteGet, DeleteReget, DeleteRow, DeleteLink, DeleteData,
           DeleteCommit, ExpandGet, ExpandStat, ExpandFile, ExpandCommit
  <2> QED
    BY <2>1, <2>5
<1>2. (TypeOK /\ IInv /\ SoloInv /\ ReadsInv) /\ [Next]_vars
         => [\A v \in Vols : Found(v) => rowCap'[v] >= rowCap[v]]_vars
  BY <1>1
<1> QED
  BY <1>2, SoloAlways, PTL DEF Spec, CapacityNeverShrinks

(* No dd cuts the data of a volume callers hold, whatever fails: a         *)
(* repopulation starts from nothing, and an expansion compared the file    *)
(* with the old capacity.                                                  *)
THEOREM DataNeverTruncatedAlways ==
    ASSUME Solo
    PROVE  Spec => DataNeverTruncated
<1>1. ASSUME TypeOK, IInv, SoloInv, Next,
             NEW v \in Held, v \in Held', disk[v] # Absent
      PROVE  disk'[v] >= disk[v]
  <2>1. /\ disk \in [Vols -> Capacities \cup {Absent}]
        /\ disk[v] \in Int
        /\ v \in Vols /\ v \in created /\ v \notin doomed
    BY <1>1, CapacityFacts DEF TypeOK, Held
  <2>2. PICK c \in Controllers : ControllerNext(c)
    BY <1>1 DEF Next
  <2>3. HandlerOK(c) /\ HandlerKnows(c) /\ IsCommitted(v)
    BY <1>1, <2>1 DEF IInv, RowsInv, SoloInv, AnswersCommitted
  <2>4. CreateRefill(c) => disk'[v] = disk[v]
    BY <1>1, <2>1, <2>3 DEF CreateRefill, HandlerKnows, At
  <2>5. CreateFill(c) => disk'[v] = disk[v]
    BY <2>1, <2>3 DEF CreateFill, HandlerOK, InTransaction, IsCommitted, At
  <2>6. CreateUndo(c) => disk'[v] = disk[v]
    BY <2>1, <2>3 DEF CreateUndo, HandlerOK, At
  <2>7. DeleteData(c) => disk'[v] = disk[v]
    BY <2>1, <2>3 DEF DeleteData, HandlerOK, At
  <2>8. ASSUME ExpandFile(c)
        PROVE  disk'[v] = disk[v] \/ (disk'[v] \in Int /\ disk'[v] > disk[v])
    <3>1. h[c].want > disk[h[c].vol] /\ h[c].want \in Int
      <4>1. h[c].want \in Int
        BY <1>1, CapacityFacts DEF TypeOK, Handlers
      <4> QED
        BY <2>3, <2>8, <4>1 DEF ExpandFile, HandlerKnows, At
    <3> QED
      BY <2>1, <2>8, <3>1 DEF ExpandFile
  <2>9. \/ disk'[v] = disk[v]
        \/ disk'[v] \in Int /\ disk'[v] > disk[v]
    BY <2>2, <2>4, <2>5, <2>6, <2>7, <2>8
       DEF ControllerNext, Call, CreateCall, DeleteCall, ExpandCall, storageVars,
           Crash, Step, CreateName, CreateGet, CreateStat, CreateInsert,
           CreateLink, CreateCommit, CreateUnlink, DeleteGet, DeleteReget,
           DeleteRow, DeleteLink, DeleteCommit, ExpandGet, ExpandRow,
           ExpandStat, ExpandCommit
  <2> QED
    BY <2>1, <2>9
<1>2. (TypeOK /\ IInv /\ SoloInv /\ ReadsInv) /\ [Next]_vars
         => [\A v \in Held : (v \in Held' /\ disk[v] # Absent) => disk'[v] >= disk[v]]_vars
  BY <1>1
<1> QED
  BY <1>2, SoloAlways, PTL DEF Spec, DataNeverTruncated

-----------------------------------------------------------------------------
(* The refinement of VolumeCatalog: which step of the catalog each step of *)
(* the controller is.                                                      *)
CatName(v) == IF IsCommitted(v) THEN rowInfo[v].name ELSE "none"
CatCapacity(v) == IF IsCommitted(v) THEN rowCap[v] ELSE 0

(* A request of a name always asks for one capacity: csi-provisioner       *)
(* makes the name of a volume from the UID of its claim.                   *)
RequestsAgree ==
    \A p, q \in CreateReqs :
        p.info.name = q.info.name => FixCapacity(p.bytes) = FixCapacity(q.bytes)

(* The catalog's variables are the committed rows and what was answered.   *)
CatalogSame(v) ==
    /\ CatalogState(v)' = CatalogState(v)
    /\ CatName(v)' = CatName(v)
    /\ CatCapacity(v)' = CatCapacity(v)

(* Where every volume looks the same the catalog stutters.                 *)
LEMMA CatalogStutters ==
    ASSUME \A v \in Vols : CatalogSame(v), UNCHANGED <<created, promised, gone>>
    PROVE  UNCHANGED Catalog!vars
BY DEF Catalog!vars, CatalogSame, CatName, CatCapacity

(* Uncommitted rows are not in the catalog, whatever happens to them.      *)
LEMMA Uncommitted ==
    ASSUME NEW v \in Vols
    PROVE  /\ rowState'[v] = rowState[v] /\ rowInfo'[v] = rowInfo[v] /\ rowCap'[v] = rowCap[v]
                 => CatalogSame(v)
           /\ ~IsCommitted(v) /\ ~IsCommitted(v)' => CatalogSame(v)
BY DEF CatalogSame, CatalogState, CatName, CatCapacity, IsCommitted

(* A COMMIT that was applied provides a volume, answered or not.           *)
LEMMA CommitProvisions ==
    ASSUME TypeOK, NEW v \in Vols, NEW n \in Names, NEW x \in Capacities,
           rowState[v] = "open", rowState' = [rowState EXCEPT ![v] = "live"],
           UNCHANGED <<rowInfo, rowCap, gone>>,
           rowInfo[v].name = n, rowCap[v] = x, Named(n) = {},
           \/ UNCHANGED <<created, promised>>
           \/ created' = created \cup {v} /\ promised' = [promised EXCEPT ![v] = x]
    PROVE  Catalog!Next
<1>1. rowState \in [Vols -> {"none", "open", "live", "dead", "void"}]
  BY DEF TypeOK, StorageTypeOK
<1>2. \A u \in Vols : u # v => CatalogSame(u)
  BY <1>1, Uncommitted
<1>3. /\ CatalogState(v) = "free" /\ CatalogState(v)' = "live"
      /\ CatName(v)' = n /\ CatCapacity(v)' = x
  BY <1>1 DEF CatalogState, CatName, CatCapacity, IsCommitted
<1>4. \A u \in Catalog!Live : CatName(u) # n
  BY DEF Catalog!Live, CatalogState, CatName, IsCommitted, Named, Found
<1>5. Catalog!Provision(v, n, x)
  BY <1>2, <1>3, <1>4
     DEF Catalog!Provision, CatalogSame, CatName, CatCapacity, Catalog!Live
<1> QED
  BY <1>5 DEF Catalog!Next

(* An OK of CreateVolume or ControllerExpandVolume answers for a live row. *)
LEMMA AnswerIsGiven ==
    ASSUME TypeOK, NEW v \in Vols, NEW x \in Capacities, Found(v), x <= rowCap[v],
           UNCHANGED <<rowState, rowInfo, rowCap, gone>>,
           created' = created \cup {v},
           promised' = [promised EXCEPT ![v] = IF x > @ THEN x ELSE @]
    PROVE  Catalog!Next
<1>1. \A u \in Vols : CatalogSame(u)
  BY Uncommitted
<1>2. v \in Catalog!Live /\ CatCapacity(v) = rowCap[v]
  BY DEF Catalog!Live, CatalogState, CatCapacity, IsCommitted, Found
<1>3. Catalog!Answer(v, x)
  BY <1>1, <1>2 DEF Catalog!Answer, CatalogSame, CatName, CatCapacity
<1> QED
  BY <1>3 DEF Catalog!Next

(* An OK of DeleteVolume answers for a deleted row.                        *)
LEMMA AnswerIsGone ==
    ASSUME TypeOK, NEW v \in Vols, rowState[v] = "dead",
           UNCHANGED <<rowState, rowInfo, rowCap, created, promised>>,
           gone' = gone \cup {v}
    PROVE  Catalog!Next
<1>1. \A u \in Vols : CatalogSame(u)
  BY Uncommitted
<1>2. CatalogState(v) = "gone"
  BY DEF CatalogState
<1>3. Catalog!AnswerGone(v)
  BY <1>1, <1>2 DEF Catalog!AnswerGone, CatalogSame, CatName, CatCapacity
<1> QED
  BY <1>3 DEF Catalog!Next

(* The soft delete removes a volume.                                       *)
LEMMA RowRemoved ==
    ASSUME TypeOK, NEW v \in Vols, Found(v),
           rowState' = [rowState EXCEPT ![v] = "dead"],
           UNCHANGED <<rowInfo, rowCap, created, promised, gone>>
    PROVE  Catalog!Next
<1>1. rowState \in [Vols -> {"none", "open", "live", "dead", "void"}]
  BY DEF TypeOK, StorageTypeOK
<1>2. \A u \in Vols : u # v => CatalogSame(u)
  BY <1>1, Uncommitted
<1>3. /\ CatalogState(v) = "live" /\ CatalogState(v)' = "gone"
      /\ CatName(v)' = CatName(v) /\ CatCapacity(v)' = CatCapacity(v)
  BY <1>1 DEF CatalogState, CatName, CatCapacity, IsCommitted, Found
<1>4. Catalog!Remove(v)
  BY <1>2, <1>3 DEF Catalog!Remove, CatalogSame, CatName, CatCapacity, Catalog!Live
<1> QED
  BY <1>4 DEF Catalog!Next

(* The UPDATE of the capacity grows it.                                    *)
LEMMA RowGrown ==
    ASSUME TypeOK, NEW v \in Vols, NEW x \in Capacities, Found(v), x > rowCap[v],
           rowCap' = [rowCap EXCEPT ![v] = x],
           UNCHANGED <<rowState, rowInfo, created, promised, gone>>
    PROVE  Catalog!Next
<1>1. rowCap \in [Vols -> Capacities]
  BY DEF TypeOK
<1>2. \A u \in Vols : u # v => CatalogSame(u)
  BY <1>1, Uncommitted
<1>3. /\ v \in Catalog!Live /\ CatCapacity(v) = rowCap[v] /\ CatCapacity(v)' = x
      /\ CatName(v)' = CatName(v) /\ CatalogState(v)' = CatalogState(v)
  BY <1>1 DEF CatalogState, CatName, CatCapacity, IsCommitted, Found, Catalog!Live
<1>4. Catalog!Grow(v, x)
  BY <1>2, <1>3 DEF Catalog!Grow, CatalogSame, CatName, CatCapacity
<1> QED
  BY <1>4 DEF Catalog!Next

(* A row of an uncommitted transaction is not in the catalog.              *)
LEMMA UncommittedStutters ==
    ASSUME TypeOK, NEW v \in Vols, NEW s \in {"open", "void"},
           rowState[v] \in {"none", "open"}, rowState' = [rowState EXCEPT ![v] = s],
           \A w \in Vols : w # v => rowInfo'[w] = rowInfo[w] /\ rowCap'[w] = rowCap[w],
           UNCHANGED <<created, promised, gone>>
    PROVE  UNCHANGED Catalog!vars
<1>1. rowState \in [Vols -> {"none", "open", "live", "dead", "void"}]
  BY DEF TypeOK, StorageTypeOK
<1>2. ~IsCommitted(v) /\ ~IsCommitted(v)'
  BY <1>1 DEF IsCommitted
<1>3. \A w \in Vols : w # v => rowState'[w] = rowState[w]
  BY <1>1
<1>4. \A w \in Vols : CatalogSame(w)
  BY <1>2, <1>3, Uncommitted
<1> QED
  BY <1>4, CatalogStutters

(* Every step of the controller is one of the catalog's, or none.          *)
LEMMA StepIsCataloged ==
    ASSUME TypeOK, TypeOK', IInv, Solo, SoloInv, NamesInv, WritesInv,
           "read" \notin FaultKinds, "write" \notin FaultKinds,
           "commit" \notin FaultKinds \/ RequestsAgree,
           NEW c \in Controllers, Step(c)
    PROVE  Catalog!Next \/ UNCHANGED Catalog!vars
<1> DEFINE v == h[c].vol
<1>1. /\ HandlerOK(c) /\ HandlerKnows(c) /\ NameFree(c) /\ RowDeleted(c)
      /\ UndoneUnanswered /\ RowsAsAsked /\ PromisesCommitted
  BY DEF IInv, RowsInv, SoloInv, NamesInv, WritesInv
<1>2. /\ h[c].at \in {"idle", "c_name", "c_insert"} \/ v \in Vols
      /\ h[c].want \in Capacities
      /\ rowState \in [Vols -> {"none", "open", "live", "dead", "void"}]
      /\ rowCap \in [Vols -> Capacities] /\ promised \in [Vols -> Capacities]
  BY DEF TypeOK, StorageTypeOK, Handlers
<1>3. Capacities \subseteq Int /\ \A x \in Capacities : x >= 0 /\ x <= x
  BY CapacityFacts DEF Capacities
<1>4. ~Fault("read") /\ ~Fault("write")
  BY DEF Fault
<1>5. ASSUME UNCHANGED <<rowState, rowInfo, rowCap, history>>
      PROVE  UNCHANGED Catalog!vars
  BY <1>5, Uncommitted, CatalogStutters DEF history
<1>6. ASSUME AnswerError(c), UNCHANGED <<rowState, rowInfo, rowCap>>
      PROVE  UNCHANGED Catalog!vars
  BY <1>5, <1>6 DEF AnswerError
<1> USE DEF At
<1>7. CASE CreateName(c) \/ CreateGet(c) \/ CreateLink(c) \/ CreateUndo(c) \/ CreateUnlink(c)
  BY <1>5, <1>6, <1>7 DEF CreateName, CreateGet, CreateLink, CreateUndo, CreateUnlink
<1>8. CASE CreateStat(c)
  <2>1. CASE AnswerCreated(c, v, h[c].want) /\ Suits(v, h[c])
    <3>1. /\ v \in Vols /\ Found(v) /\ rowCap[v] = h[c].want
          /\ UNCHANGED <<rowState, rowInfo, rowCap>>
      BY <1>1, <1>2, <1>8, <2>1 DEF CreateStat, HandlerKnows, Suits
    <3> QED
      BY <1>2, <1>3, <2>1, <3>1, AnswerIsGiven DEF AnswerCreated
  <2> QED
    BY <1>5, <1>6, <1>8, <2>1 DEF CreateStat
<1>9. CASE CreateRefill(c)
  <2>1. /\ v \in Vols /\ Found(v) /\ UNCHANGED <<rowState, rowInfo, rowCap>>
        /\ disk[v] = Absent /\ rowInfo[v].name = h[c].info.name
    BY <1>1, <1>2, <1>9 DEF CreateRefill, HandlerKnows
  <2>2. v \notin created /\ RequestsAgree
    BY <1>1, <2>1 DEF UndoneUnanswered
  <2>3. PICK q \in CreateReqs : h[c].info = q.info /\ h[c].want = FixCapacity(q.bytes)
    BY <1>1, <1>9 DEF CreateRefill, HandlerKnows, Creating
  <2>4. PICK p \in CreateReqs : rowInfo[v].name = p.info.name /\ rowCap[v] = FixCapacity(p.bytes)
    BY <1>1, <2>1, <2>2 DEF RowsAsAsked
  <2>5. h[c].want = rowCap[v]
    BY <2>1, <2>2, <2>3, <2>4 DEF RequestsAgree
  <2>6. AnswerCreated(c, v, h[c].want) => Catalog!Next
    BY <1>2, <1>3, <2>1, <2>5, AnswerIsGiven DEF AnswerCreated
  <2> QED
    BY <1>6, <1>9, <2>1, <2>6 DEF CreateRefill
<1>10. CASE CreateInsert(c)
  <2>1. ASSUME NEW u \in Vols, rowState[u] = "none", UNCHANGED history,
               rowState' = [rowState EXCEPT ![u] = "open"],
               rowInfo' = [rowInfo EXCEPT ![u] = h[c].info],
               rowCap' = [rowCap EXCEPT ![u] = h[c].want]
        PROVE  UNCHANGED Catalog!vars
    <3>1. \A w \in Vols : w # u => rowInfo'[w] = rowInfo[w] /\ rowCap'[w] = rowCap[w]
      BY <1>2, <2>1 DEF TypeOK, StorageTypeOK
    <3> QED
      BY <2>1, <3>1, UncommittedStutters DEF history
  <2> QED
    BY <1>6, <1>10, <2>1 DEF CreateInsert, Fresh, Inserted
<1>11. CASE CreateFill(c)
  <2>1. ASSUME RollBack(v), UNCHANGED <<rowInfo, rowCap, history>>
        PROVE  UNCHANGED Catalog!vars
    <3>1. v \in Vols /\ rowState[v] = "open"
      BY <1>1, <1>2, <1>11 DEF CreateFill, HandlerOK, InTransaction
    <3> QED
      BY <2>1, <3>1, UncommittedStutters DEF RollBack, history
  <2> QED
    BY <1>5, <1>11, <2>1 DEF CreateFill, AnswerError
<1>12. CASE CreateCommit(c)
  <2>1. /\ v \in Vols /\ rowState[v] = "open" /\ UNCHANGED <<rowInfo, rowCap>>
        /\ rowInfo[v] = h[c].info /\ rowCap[v] = h[c].want
        /\ Named(h[c].info.name) = {} /\ promised[v] = 0
    BY <1>1, <1>2, <1>12
       DEF CreateCommit, HandlerOK, HandlerKnows, NameFree, InTransaction,
           PromisesCommitted, IsCommitted
  <2>2. h[c].info.name \in Names
    <3>1. PICK q \in CreateReqs : h[c].info = q.info
      BY <1>1, <1>12 DEF CreateCommit, HandlerKnows, InTransaction
    <3> QED
      BY <3>1, CapacityFacts DEF Infos
  <2>3. ASSUME rowState' = [rowState EXCEPT ![v] = "live"], AnswerCreated(c, v, h[c].want)
        PROVE  Catalog!Next
    <3>1. promised' = [promised EXCEPT ![v] = h[c].want]
      <4>1. (IF h[c].want > promised[v] THEN h[c].want ELSE promised[v]) = h[c].want
        <5>1. h[c].want \in Int /\ h[c].want >= 0
          BY <1>2, <1>3
        <5> QED
          BY <2>1, <5>1
      <4> QED
        BY <2>3, <4>1 DEF AnswerCreated
    <3> QED
      BY <1>2, <2>1, <2>2, <2>3, <3>1, CommitProvisions DEF AnswerCreated
  <2>4. ASSUME rowState' = [rowState EXCEPT ![v] = "live"], UNCHANGED history
        PROVE  Catalog!Next
    BY <1>2, <2>1, <2>2, <2>4, CommitProvisions DEF history
  <2>5. ASSUME rowState' = [rowState EXCEPT ![v] = "void"], UNCHANGED history
        PROVE  UNCHANGED Catalog!vars
    BY <2>1, <2>5, UncommittedStutters DEF history
  <2> QED
    BY <1>12, <2>3, <2>4, <2>5 DEF CreateCommit
<1>13. CASE DeleteGet(c)
  <2>1. AnswerDeleted(c, v) /\ ~Found(v) => Catalog!Next
    <3>1. /\ ~Found(v) => v \in Vols /\ rowState[v] = "dead"
          /\ UNCHANGED <<rowState, rowInfo, rowCap>>
      BY <1>1, <1>2, <1>13 DEF DeleteGet, HandlerOK, IsCommitted, Found
    <3> QED
      BY <3>1, AnswerIsGone DEF AnswerDeleted
  <2> QED
    BY <1>4, <1>5, <1>13, <2>1 DEF DeleteGet
<1>14. CASE DeleteReget(c) \/ DeleteLink(c) \/ DeleteData(c)
  BY <1>5, <1>6, <1>14 DEF DeleteReget, DeleteLink, DeleteData
<1>15. CASE DeleteRow(c)
  <2>1. /\ v \in Vols /\ Found(v) /\ rowState' = [rowState EXCEPT ![v] = "dead"]
        /\ UNCHANGED <<rowInfo, rowCap, history>>
    BY <1>1, <1>2, <1>4, <1>15 DEF DeleteRow, HandlerKnows
  <2> QED
    BY <2>1, RowRemoved DEF history
<1>16. CASE DeleteCommit(c)
  <2>1. v \in Vols /\ rowState[v] = "dead" /\ UNCHANGED <<rowState, rowInfo, rowCap>>
    BY <1>1, <1>2, <1>16 DEF DeleteCommit, RowDeleted
  <2>2. AnswerDeleted(c, v) => Catalog!Next
    BY <2>1, AnswerIsGone DEF AnswerDeleted
  <2> QED
    BY <1>6, <1>16, <2>1, <2>2 DEF DeleteCommit
<1>17. CASE ExpandGet(c)
  <2>1. /\ v \in Vols /\ v \in created /\ rowCap[v] \in Capacities /\ rowCap[v] <= rowCap[v]
        /\ UNCHANGED <<rowState, rowInfo, rowCap>>
    BY <1>1, <1>2, <1>3, <1>17 DEF ExpandGet, HandlerKnows
  <2>2. AnswerExpanded(c, v, rowCap[v]) /\ Found(v) => Catalog!Next
    BY <2>1, AnswerIsGiven DEF AnswerExpanded
  <2> QED
    BY <1>5, <1>6, <1>17, <2>1, <2>2 DEF ExpandGet
<1>18. CASE ExpandRow(c)
  <2>1. /\ v \in Vols /\ Found(v) /\ h[c].want > rowCap[v]
        /\ UNCHANGED <<rowState, rowInfo, history>>
        /\ rowCap' = [rowCap EXCEPT ![v] = h[c].want]
    BY <1>1, <1>2, <1>4, <1>18 DEF ExpandRow, HandlerKnows, AnswerError
  <2> QED
    BY <1>2, <2>1, RowGrown DEF history
<1>19. CASE ExpandStat(c) \/ ExpandFile(c)
  BY <1>5, <1>6, <1>19 DEF ExpandStat, ExpandFile
<1>20. CASE ExpandCommit(c)
  <2>1. /\ v \in Vols /\ v \in created /\ Found(v)
        /\ h[c].want <= rowCap[v] /\ UNCHANGED <<rowState, rowInfo, rowCap>>
    BY <1>1, <1>2, <1>3, <1>20 DEF ExpandCommit, HandlerKnows
  <2>2. ASSUME AnswerExpanded(c, v, h[c].want) PROVE Catalog!Next
    <3>1. /\ created' = created \cup {v} /\ gone' = gone
          /\ promised' = [promised EXCEPT ![v] = IF h[c].want > @ THEN h[c].want ELSE @]
      BY <2>1, <2>2 DEF AnswerExpanded
    <3> QED
      BY <1>2, <2>1, <3>1, AnswerIsGiven
  <2> QED
    BY <1>6, <1>20, <2>1, <2>2 DEF ExpandCommit
<1> QED
  BY <1>7, <1>8, <1>9, <1>10, <1>11, <1>12, <1>13, <1>14, <1>15, <1>16, <1>17,
     <1>18, <1>19, <1>20 DEF Step

(* The service is a catalog of volumes to its callers: names stay unique,  *)
(* capacities only grow, and an OK of CreateVolume, DeleteVolume or        *)
(* ControllerExpandVolume says what is so.  That is for one controller,    *)
(* while no SELECT or UPDATE fails; files, COMMITs and the process may.    *)
(* (A repopulated volume is answered for without a comparison, which is    *)
(* why requests of one name have to agree if a COMMIT can fail.)           *)
THEOREM CatalogIsImplemented ==
    ASSUME Solo, "read" \notin FaultKinds, "write" \notin FaultKinds,
           "commit" \notin FaultKinds \/ RequestsAgree
    PROVE  Spec => ImplementsCatalog
<1> DEFINE I == TypeOK /\ IInv /\ SoloInv /\ ReadsInv
           J == NamesInv /\ WritesInv
<1>1. Init => J
  BY InitSolo
<1>2. I /\ I' /\ J /\ [Next]_vars => J'
  BY NextSolo
<1>3. Init => Catalog!Init
  BY DEF Init, StorageInit, Catalog!Init, CatalogState, IsCommitted
<1>4. I /\ I' /\ J /\ [Next]_vars => [Catalog!Next]_Catalog!vars
  <2> SUFFICES ASSUME I, I', J, [Next]_vars PROVE Catalog!Next \/ UNCHANGED Catalog!vars
    OBVIOUS
  <2>1. CASE UNCHANGED vars
    BY <2>1, Uncommitted, CatalogStutters DEF vars
  <2>2. ASSUME NEW c \in Controllers, Step(c) PROVE Catalog!Next \/ UNCHANGED Catalog!vars
    BY <2>2, StepIsCataloged
  <2>3. ASSUME NEW c \in Controllers, Call(c) PROVE UNCHANGED Catalog!vars
    <3>1. UNCHANGED <<rowState, rowInfo, rowCap, created, promised, gone>>
      BY <2>3 DEF Call, CreateCall, DeleteCall, ExpandCall, storageVars, history
    <3> QED
      BY <3>1, Uncommitted, CatalogStutters
  <2>4. ASSUME NEW c \in Controllers, Crash(c) PROVE UNCHANGED Catalog!vars
    <3>0. UNCHANGED <<rowInfo, rowCap, created, promised, gone>>
      BY <2>4 DEF Crash, AnswerError, history
    <3>1. \A v \in Vols : \/ rowState'[v] = rowState[v]
                           \/ (rowState[v] = "open" /\ rowState'[v] = "void")
      BY <2>4 DEF Crash
    <3>2. ASSUME NEW v \in Vols PROVE CatalogSame(v)
      <4>1. CASE rowState'[v] = rowState[v]
        BY <3>0, <4>1, Uncommitted
      <4>2. CASE rowState[v] = "open" /\ rowState'[v] = "void"
        BY <4>2, Uncommitted DEF IsCommitted
      <4> QED
        BY <3>1, <4>1, <4>2
    <3> QED
      BY <3>0, <3>2, CatalogStutters
  <2> QED
    BY <2>1, <2>2, <2>3, <2>4 DEF Next, ControllerNext
<1>5. Spec => []I
  BY SoloAlways
<1> HIDE DEF I, J
<1> QED
  BY <1>1, <1>2, <1>3, <1>4, <1>5, PTL DEF Spec, ImplementsCatalog, Catalog!Spec
=============================================================================
