------------------------------ MODULE Listing -------------------------------
(***************************************************************************)
(* Reading the volumes (controllerserver.go): walks over ListVolumes, page *)
(* by page, and ControllerGetVolume, while a controller changes the rows,  *)
(* files and attachments.  Neither takes controllerServer.mutex, and each  *)
(* reads in several statements: rows, the nodes of each, its path, and the *)
(* number of rows (GetVolumesWithDetail, GetVolumeWithDetail and           *)
(* GetVolumeCount of utils.go).  One action is one of these.  The readers  *)
(* change nothing, so that one of them stands for all.                     *)
(***************************************************************************)
EXTENDS Integers, SequencesExt

CONSTANTS Volumes,
          Blocks,      \* those of type disk
          PageSizes,   \* values of MaxEntries; 0 asks for all
          MaxChanges,  \* bound: changes of rows and attachments
          MaxFaults    \* bound: queries that fail

ASSUME ListingAssumption ==
    /\ Blocks \subseteq Volumes /\ IsFiniteSet(Volumes)
    /\ PageSizes \subseteq 0 .. Cardinality(Volumes)
    /\ MaxChanges \in Nat /\ MaxFaults \in Nat

VARIABLES
    table,     \* volumes with a live row, as the table is scanned
    capacity,  \* capacity[v] of the row; 0: there never was one
    size,      \* size[v] of the data; 0: there is none
    attached,  \* volumes with a row in controller_publish_volume_infos
    pending,   \* the volume whose data a handler still has to change
    changes,   \* changes so far
    reader,    \* the ListVolumes or ControllerGetVolume call
    walk,      \* the caller's walk over the pages
    entry,     \* the last entry the call made
    saw,       \* history: what was true since the call read its rows
    faults     \* faults so far

storeVars == <<table, capacity, size, attached, pending, changes>>
readerVars == <<reader, walk, entry, saw, faults>>

Nobody == "none"
End == -1
All == Cardinality(Volumes) + 1   \* stands for MaxInt32: more than there are
Limit(max) == IF max = 0 THEN All ELSE max

Idle == [at |-> "idle", get |-> FALSE, start |-> 0, limit |-> 0, rows |-> << >>,
         nodes |-> FALSE]

(* next: the token of the next page; passed: rows the pages so far account *)
(* for; steady: volumes that were there all the time; listed: how often a  *)
(* volume was; spoilt: what happened that may make the walk miss or repeat *)
NoWalk == [next |-> End, passed |-> 0, steady |-> {}, spoilt |-> {},
           listed |-> [v \in Volumes |-> 0]]

NoEntry == [id |-> Nobody, get |-> FALSE, nodes |-> FALSE, ok |-> FALSE]

ListingInit ==
    /\ \E live \in SUBSET Volumes :
          /\ table \in SetToSeqs(live)
          /\ capacity = [v \in Volumes |-> IF v \in live THEN 1 ELSE 0]
          /\ size = capacity
          /\ attached \in {{}, live}
    /\ pending = Nobody /\ changes = 0 /\ faults = 0
    /\ reader = Idle /\ walk = NoWalk /\ entry = NoEntry /\ saw = {}

Rows == [id: Volumes, cap: 1 .. MaxChanges + 1]
Spoilers == {"inserted", "removed", "moved", "failed"}
Claims == {"fits", "differs", "attached", "detached"}

ListingTypeOK ==
    /\ table \in Seq(Volumes) /\ IsInjective(table)
    /\ capacity \in [Volumes -> 0 .. MaxChanges + 1]
    /\ size \in [Volumes -> 0 .. MaxChanges + 1]
    /\ attached \subseteq Volumes
    /\ pending \in Volumes \cup {Nobody}
    /\ changes \in 0 .. MaxChanges /\ faults \in 0 .. MaxFaults
    /\ reader \in [at: {"idle", "nodes", "stat", "count"}, get: BOOLEAN,
                   start: 0 .. Cardinality(Volumes), limit: 0 .. All,
                   rows: Seq(Rows), nodes: BOOLEAN]
    /\ walk \in [next: End .. Cardinality(Volumes), passed: Nat,
                 steady: SUBSET Volumes, spoilt: SUBSET Spoilers,
                 listed: [Volumes -> 0 .. Cardinality(Volumes)]]
    /\ entry \in [id: Volumes \cup {Nobody}, get: BOOLEAN, nodes: BOOLEAN, ok: BOOLEAN]
    /\ saw \subseteq Volumes \X Claims

Live(v) == v \in ToSet(table)
Place(v) == CHOOSE i \in DOMAIN table : table[i] = v

Fits(v) == size[v] # 0 /\ (v \in Blocks => size[v] = capacity[v])

Facts ==
    {<<v, IF Fits(v) THEN "fits" ELSE "differs">> : v \in Volumes}
        \cup {<<v, IF v \in attached THEN "attached" ELSE "detached">> : v \in Volumes}

FactsOf(vs) == {f \in Facts : f[1] \in vs}

-----------------------------------------------------------------------------
(* What the controllers do meanwhile.  An UPDATE writes a new version of a *)
(* row, which may come anywhere in the order of the scan.                  *)

Spoil(what) == [walk EXCEPT !.spoilt = @ \cup what]

(* The call goes on with what it read, the world with what comes next.     *)
Witnessed ==
    saw' = IF reader.at \in {"nodes", "stat"}
           THEN saw \cup {f \in Facts' : \E g \in saw : g[1] = f[1]}
           ELSE saw

Changed ==
    /\ changes < MaxChanges
    /\ changes' = changes + 1
    /\ Witnessed
    /\ UNCHANGED <<reader, entry, faults>>

(* CreateVolume commits a row, whose data is there by then.                *)
Create(v, i) ==
    /\ capacity[v] = 0
    /\ table' = InsertAt(table, i, v)
    /\ capacity' = [capacity EXCEPT ![v] = 1]
    /\ size' = [size EXCEPT ![v] = 1]
    /\ walk' = Spoil(IF i <= walk.passed /\ walk.passed <= Len(table)
                     THEN {"inserted"} ELSE {})
    /\ UNCHANGED <<attached, pending>>
    /\ Changed

(* DeleteVolume deletes the row first. *)
Delete(v) ==
    /\ Live(v) /\ pending = Nobody
    /\ table' = RemoveAt(table, Place(v))
    /\ walk' = [Spoil(IF Place(v) <= walk.passed /\ walk.passed < Len(table)
                      THEN {"removed"} ELSE {}) EXCEPT !.steady = @ \ {v}]
    /\ pending' = v
    /\ UNCHANGED <<capacity, size, attached>>
    /\ Changed

(* UpdateVolumeCapacity changes the row first. *)
Expand(v, i) ==
    /\ Live(v) /\ pending = Nobody
    /\ table' = InsertAt(RemoveAt(table, Place(v)), i, v)
    /\ capacity' = [capacity EXCEPT ![v] = @ + 1]
    /\ walk' = Spoil(IF (Place(v) <= walk.passed) # (i <= walk.passed)
                     THEN {"moved"} ELSE {})
    /\ pending' = v
    /\ UNCHANGED <<size, attached>>
    /\ Changed

(* The data follows, unless the handler fails before. *)
Finish ==
    /\ pending # Nobody
    /\ pending' = Nobody
    /\ size' \in {size, [size EXCEPT ![pending] = IF Live(pending) THEN capacity[pending]
                                                 ELSE 0]}
    /\ UNCHANGED <<table, capacity, attached, changes, reader, walk, entry, faults>>
    /\ Witnessed

Attach(v) ==
    /\ Live(v)
    /\ attached' = IF v \in attached THEN attached \ {v} ELSE attached \cup {v}
    /\ UNCHANGED <<table, capacity, size, pending, walk>>
    /\ Changed

Change ==
    \/ \E v \in Volumes, i \in 1 .. Len(table) + 1 : Create(v, i)
    \/ \E v \in Volumes, i \in DOMAIN table : Expand(v, i)
    \/ \E v \in Volumes : Delete(v) \/ Attach(v)
    \/ Finish

-----------------------------------------------------------------------------
(* ListVolumes and ControllerGetVolume *)

QueryFails == faults < MaxFaults /\ faults' = faults + 1
QueryWorks == UNCHANGED faults

RowOf(v) == [id |-> v, cap |-> capacity[v]]

(* Where a call goes on with these rows left to complete. *)
Reading(r, rows) ==
    IF rows = << >> /\ r.get THEN Idle
    ELSE [r EXCEPT !.rows = rows, !.nodes = FALSE,
                   !.at = IF rows = << >> THEN "count" ELSE "nodes"]

(* SELECT ... OFFSET start LIMIT limit, in the order of the scan.          *)
PageOf(start, limit) ==
    LET last == IF start + limit < Len(table) THEN start + limit ELSE Len(table)
    IN  [i \in 1 .. (IF last > start THEN last - start ELSE 0) |-> RowOf(table[start + i])]

(* A page of a walk: a new one, or the next of the walk under way.  A      *)
(* failed query is not noticed, as vh.db.Error is never set: no rows.      *)
ListPage(start, limit) ==
    LET w == IF start = 0 THEN [NoWalk EXCEPT !.steady = ToSet(table)] ELSE walk
        read(rows) ==
            /\ reader' = Reading([Idle EXCEPT !.start = start, !.limit = limit], rows)
            /\ saw' = FactsOf({rows[i].id : i \in DOMAIN rows})
    IN  /\ reader.at = "idle"
        /\ start = 0 \/ start = walk.next
        /\ \/ /\ read(PageOf(start, limit)) /\ QueryWorks
              /\ walk' = [w EXCEPT !.passed = start + limit, !.next = End]
           \/ /\ read(<< >>) /\ QueryFails
              /\ walk' = [w EXCEPT !.passed = start + limit, !.next = End,
                                   !.spoilt = @ \cup {"failed"}]
        /\ entry' = NoEntry

(* First(&vol) by its id; not found and any error are answered as such.    *)
(* The caller is one that makes no walk: the two share nothing.            *)
GetRow(v) ==
    /\ reader.at = "idle"
    /\ \/ /\ Live(v) /\ QueryWorks
          /\ reader' = Reading([Idle EXCEPT !.get = TRUE], <<RowOf(v)>>)
          /\ saw' = FactsOf({v})
       \/ ~Live(v) /\ QueryWorks /\ UNCHANGED <<reader, saw>>
       \/ QueryFails /\ UNCHANGED <<reader, saw>>
    /\ entry' = NoEntry /\ walk' = NoWalk

(* The nodes of the first row left.  Where the query fails ListVolumes     *)
(* goes on without nodes, ControllerGetVolume answers with the error.      *)
ReadNodes ==
    LET v == Head(reader.rows).id
        found(yes) == reader' = [reader EXCEPT !.at = "stat", !.nodes = yes]
    IN  /\ reader.at = "nodes"
        /\ \/ found(v \in attached) /\ QueryWorks /\ UNCHANGED walk
           \/ reader.get /\ reader' = Idle /\ QueryFails /\ UNCHANGED walk
           \/ ~reader.get /\ found(FALSE) /\ QueryFails /\ walk' = Spoil({"failed"})
        /\ entry' = NoEntry
        /\ saw' = {f \in saw : \E i \in DOMAIN reader.rows : reader.rows[i].id = f[1]}

(* Mutant of Normal: the capacity is not compared. *)
Exists(row) == size[row.id] # 0

(* The path exists and has the capacity that was read with the row.        *)
Normal(row) == size[row.id] # 0 /\ (row.id \in Blocks => size[row.id] = row.cap)

ReadPath ==
    LET row == Head(reader.rows) IN
    /\ reader.at = "stat"
    /\ entry' = [id |-> row.id, get |-> reader.get, nodes |-> reader.nodes,
                  ok |-> Normal(row)]
    /\ walk' = IF reader.get THEN walk ELSE [walk EXCEPT !.listed[row.id] = @ + 1]
    /\ reader' = Reading(reader, Tail(reader.rows))
    /\ UNCHANGED <<saw, faults>>

(* Mutants of NextToken: the last row needs no page; the pages overlap;    *)
(* there is always a next page.                                            *)
TokenShort(start, limit, count) ==
    IF limit = All \/ start + limit >= count - 1 THEN End ELSE start + limit
TokenOverlaps(start, limit, count) ==
    IF limit = All \/ start + limit >= count THEN End ELSE start + limit - 1
TokenAlways(start, limit, count) == IF limit = All THEN End ELSE start + limit

NextToken(start, limit, count) ==
    IF limit = All \/ start + limit >= count THEN End ELSE start + limit

(* The rows are counted after the page was read; a failed query counts 0.  *)
CountRows ==
    /\ reader.at = "count"
    /\ \/ /\ walk' = [walk EXCEPT !.next = NextToken(reader.start, reader.limit, Len(table))]
          /\ QueryWorks
       \/ /\ walk' = [Spoil({"failed"}) EXCEPT
                         !.next = NextToken(reader.start, reader.limit, 0)]
          /\ QueryFails
    /\ reader' = Idle /\ entry' = NoEntry /\ saw' = {}

Read ==
    \/ \E max \in PageSizes : \E start \in {0, walk.next} \ {End} :
          ListPage(start, Limit(max))
    \/ \E v \in Volumes : GetRow(v)
    \/ ReadNodes \/ ReadPath \/ CountRows

ListingNext ==
    \/ Change
    \/ Read /\ UNCHANGED storeVars

ListingSpec == ListingInit /\ [][ListingNext]_<<storeVars, readerVars>>

-----------------------------------------------------------------------------
(* A walk that reached its end (the last answer has no token) has listed   *)
(* every volume that was there all the time, whatever was created, deleted *)
(* or expanded meanwhile: unless a row was deleted among those the walk    *)
(* had passed, moved across that point, or a query failed.                 *)
WalkEnded == reader.at = "idle" /\ walk.passed > 0 /\ walk.next = End

WalkIsComplete ==
    WalkEnded /\ walk.spoilt \cap {"removed", "moved", "failed"} = {} =>
        \A v \in walk.steady : walk.listed[v] > 0

(* No volume is listed twice by a walk, unless a row came up among those   *)
(* it had passed or moved across that point.                               *)
WalkNeverRepeats ==
    walk.spoilt \cap {"inserted", "moved"} = {} => \A v \in Volumes : walk.listed[v] <= 1

(* An entry puts a row, its attachments and its file together that were    *)
(* read at different times.  All the same each part of it was true at some *)
(* time since the row was read: a volume said to be fine had data of the   *)
(* size its row had at the time, and one said to be abnormal did not.      *)
EntryIsTrue ==
    entry.id # Nobody =>
        /\ <<entry.id, IF entry.ok THEN "fits" ELSE "differs">> \in saw
        /\ entry.get \/ "failed" \notin walk.spoilt =>
              <<entry.id, IF entry.nodes THEN "attached" ELSE "detached">> \in saw
=============================================================================
