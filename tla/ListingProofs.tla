---------------------------- MODULE ListingProofs ----------------------------
(***************************************************************************)
(* Proofs about Listing, for any number of volumes, pages of any size, and *)
(* any number of changes and failed queries.                               *)
(***************************************************************************)
EXTENDS Listing, FiniteSetTheorems, SequenceTheorems, TLAPS

-----------------------------------------------------------------------------
(* Where the elements of a sequence are *)

PlaceIn(s, v) == CHOOSE i \in DOMAIN s : s[i] = v

(* What is at a place has that place.                                      *)
LEMMA PlaceIsUnique ==
    ASSUME NEW s, IsInjective(s), NEW i \in DOMAIN s
    PROVE  PlaceIn(s, s[i]) = i
BY DEF PlaceIn, IsInjective

(* What is in a sequence is at its place.                                  *)
LEMMA PlaceHolds ==
    ASSUME NEW s, NEW v \in ToSet(s)
    PROVE  PlaceIn(s, v) \in DOMAIN s /\ s[PlaceIn(s, v)] = v
BY DEF PlaceIn, ToSet

(* The elements after an insertion.                                        *)
LEMMA InsertIsPointwise ==
    ASSUME NEW S, NEW s \in Seq(S), NEW i \in 1 .. Len(s) + 1, NEW e \in S
    PROVE  /\ InsertAt(s, i, e) \in Seq(S)
           /\ Len(InsertAt(s, i, e)) = Len(s) + 1
           /\ \A j \in 1 .. Len(s) + 1 :
                 InsertAt(s, i, e)[j] =
                    IF j < i THEN s[j] ELSE IF j = i THEN e ELSE s[j - 1]
<1> DEFINE a == SubSeq(s, 1, i - 1)
           b == SubSeq(s, i, Len(s))
           m == a \o <<e>>
<1>1. Len(s) \in Nat /\ i \in Int /\ \A j \in 1 .. Len(s) : s[j] \in S
  OBVIOUS
<1>2. a \in Seq(S) /\ Len(a) = i - 1 /\ \A j \in 1 .. i - 1 : a[j] = s[j]
  <2>1. \A j \in 1 .. i - 1 : s[j] \in S
    BY <1>1
  <2> QED
    BY <1>1, <2>1, SubSeqProperties
<1>3. /\ b \in Seq(S) /\ Len(b) = Len(s) - i + 1
      /\ \A j \in 1 .. Len(s) - i + 1 : b[j] = s[i + j - 1]
  <2>1. \A j \in i .. Len(s) : s[j] \in S
    BY <1>1
  <2> QED
    BY <1>1, <2>1, SubSeqProperties
<1>4. <<e>> \in Seq(S) /\ Len(<<e>>) = 1 /\ <<e>>[1] = e
  OBVIOUS
<1> HIDE DEF a, b
<1>5. /\ m \in Seq(S) /\ Len(m) = i
      /\ \A j \in 1 .. i : m[j] = IF j <= i - 1 THEN s[j] ELSE e
  BY <1>1, <1>2, <1>4, ConcatProperties
<1> HIDE DEF m
<1>6. /\ m \o b \in Seq(S) /\ Len(m \o b) = Len(s) + 1
      /\ \A j \in 1 .. Len(s) + 1 : (m \o b)[j] = IF j <= i THEN m[j] ELSE b[j - i]
  <2>1. /\ m \o b \in Seq(S) /\ Len(m \o b) = Len(m) + Len(b)
        /\ \A j \in 1 .. Len(m) + Len(b) :
              (m \o b)[j] = IF j <= Len(m) THEN m[j] ELSE b[j - Len(m)]
    BY <1>3, <1>5, ConcatProperties
  <2>2. Len(m) + Len(b) = Len(s) + 1
    BY <1>1, <1>3, <1>5
  <2> QED
    BY <1>5, <2>1, <2>2
<1>7. InsertAt(s, i, e) = m \o b
  BY DEF InsertAt, m, a, b
<1>8. ASSUME NEW j \in 1 .. Len(s) + 1
      PROVE  (m \o b)[j] = IF j < i THEN s[j] ELSE IF j = i THEN e ELSE s[j - 1]
  <2>1. CASE j <= i
    BY <1>1, <1>5, <1>6, <2>1
  <2>2. CASE j > i
    <3>1. j - i \in 1 .. Len(s) - i + 1 /\ i + (j - i) - 1 = j - 1
      BY <1>1, <2>2
    <3>2. b[j - i] = s[j - 1] /\ (m \o b)[j] = b[j - i]
      BY <1>1, <1>3, <1>6, <2>2, <3>1
    <3> QED
      BY <1>1, <2>2, <3>2
  <2>3. j <= i \/ j > i
    BY <1>1
  <2> QED
    BY <2>1, <2>2, <2>3
<1> QED
  BY <1>6, <1>7, <1>8

(* The elements after a removal.                                           *)
LEMMA RemoveIsPointwise ==
    ASSUME NEW S, NEW s \in Seq(S), NEW i \in 1 .. Len(s)
    PROVE  /\ RemoveAt(s, i) \in Seq(S)
           /\ Len(RemoveAt(s, i)) = Len(s) - 1
           /\ \A j \in 1 .. Len(s) - 1 :
                 RemoveAt(s, i)[j] = IF j < i THEN s[j] ELSE s[j + 1]
<1> DEFINE a == SubSeq(s, 1, i - 1)
           b == SubSeq(s, i + 1, Len(s))
<1>1. Len(s) \in Nat /\ i \in Int /\ \A j \in 1 .. Len(s) : s[j] \in S
  OBVIOUS
<1>2. a \in Seq(S) /\ Len(a) = i - 1 /\ \A j \in 1 .. i - 1 : a[j] = s[j]
  <2>1. \A j \in 1 .. i - 1 : s[j] \in S
    BY <1>1
  <2> QED
    BY <1>1, <2>1, SubSeqProperties
<1>3. /\ b \in Seq(S) /\ Len(b) = Len(s) - i
      /\ \A j \in 1 .. Len(s) - i : b[j] = s[i + j]
  <2>1. \A j \in i + 1 .. Len(s) : s[j] \in S
    BY <1>1
  <2> QED
    BY <1>1, <2>1, SubSeqProperties
<1> HIDE DEF a, b
<1>4. /\ a \o b \in Seq(S) /\ Len(a \o b) = Len(s) - 1
      /\ \A j \in 1 .. Len(s) - 1 :
            (a \o b)[j] = IF j <= i - 1 THEN a[j] ELSE b[j - (i - 1)]
  <2>1. /\ a \o b \in Seq(S) /\ Len(a \o b) = Len(a) + Len(b)
        /\ \A j \in 1 .. Len(a) + Len(b) :
              (a \o b)[j] = IF j <= Len(a) THEN a[j] ELSE b[j - Len(a)]
    BY <1>2, <1>3, ConcatProperties
  <2>2. Len(a) + Len(b) = Len(s) - 1
    BY <1>1, <1>2, <1>3
  <2> QED
    BY <1>2, <2>1, <2>2
<1>5. RemoveAt(s, i) = a \o b
  BY DEF RemoveAt, a, b
<1>6. ASSUME NEW j \in 1 .. Len(s) - 1
      PROVE  (a \o b)[j] = IF j < i THEN s[j] ELSE s[j + 1]
  <2>1. CASE j < i
    BY <1>1, <1>2, <1>4, <2>1
  <2>2. CASE j >= i
    <3>1. j - (i - 1) \in 1 .. Len(s) - i /\ i + (j - (i - 1)) = j + 1
      BY <1>1, <2>2
    <3>2. b[j - (i - 1)] = s[j + 1]
      BY <1>3, <3>1
    <3>3. (a \o b)[j] = b[j - (i - 1)]
      BY <1>1, <1>4, <2>2
    <3> QED
      BY <1>1, <2>2, <3>2, <3>3
  <2>3. j < i \/ j >= i
    BY <1>1
  <2> QED
    BY <2>1, <2>2, <2>3
<1> QED
  BY <1>4, <1>5, <1>6

(* An insertion moves what is behind it up by one.                         *)
LEMMA InsertMoves ==
    ASSUME NEW S, NEW s \in Seq(S), IsInjective(s), NEW i \in 1 .. Len(s) + 1,
           NEW e \in S, e \notin ToSet(s), NEW t, t = InsertAt(s, i, e)
    PROVE  /\ t \in Seq(S) /\ Len(t) = Len(s) + 1 /\ IsInjective(t)
           /\ ToSet(t) = ToSet(s) \cup {e} /\ PlaceIn(t, e) = i
           /\ \A u \in ToSet(s) :
                 PlaceIn(t, u) = IF PlaceIn(s, u) < i THEN PlaceIn(s, u) ELSE PlaceIn(s, u) + 1
<1>1. /\ t \in Seq(S) /\ Len(t) = Len(s) + 1
      /\ \A j \in 1 .. Len(s) + 1 :
            t[j] = IF j < i THEN s[j] ELSE IF j = i THEN e ELSE s[j - 1]
  BY InsertIsPointwise
<1>2. DOMAIN s = 1 .. Len(s) /\ DOMAIN t = 1 .. Len(s) + 1 /\ Len(s) \in Nat
  BY <1>1
<1>3. \A j \in 1 .. Len(s) : s[j] # e
  BY <1>2 DEF ToSet
<1>4. t[i] = e
  BY <1>1, <1>2
<1>5. ASSUME NEW j \in 1 .. Len(s)
      PROVE  t[IF j < i THEN j ELSE j + 1] = s[j]
  BY <1>1, <1>2
<1>6. ASSUME NEW j \in 1 .. Len(s) + 1, j # i
      PROVE  /\ t[j] = s[IF j < i THEN j ELSE j - 1]
             /\ (IF j < i THEN j ELSE j - 1) \in 1 .. Len(s)
  BY <1>1, <1>2, <1>6
<1>7. IsInjective(t)
  <2> SUFFICES ASSUME NEW j \in 1 .. Len(s) + 1, NEW k \in 1 .. Len(s) + 1, t[j] = t[k]
               PROVE  j = k
    BY <1>2 DEF IsInjective
  <2>1. CASE j = i \/ k = i
    BY <1>3, <1>4, <1>6, <2>1
  <2>2. CASE j # i /\ k # i
    <3>1. (IF j < i THEN j ELSE j - 1) = (IF k < i THEN k ELSE k - 1)
      BY <1>2, <1>6, <2>2 DEF IsInjective
    <3> QED
      BY <1>2, <2>2, <3>1
  <2> QED
    BY <2>1, <2>2
<1>8. ToSet(t) = ToSet(s) \cup {e}
  <2>1. \A x \in ToSet(t) : x \in ToSet(s) \cup {e}
    BY <1>2, <1>4, <1>6 DEF ToSet
  <2>2. \A x \in ToSet(s) : x \in ToSet(t)
    <3> SUFFICES ASSUME NEW j \in 1 .. Len(s) PROVE s[j] \in ToSet(t)
      BY <1>2 DEF ToSet
    <3>1. (IF j < i THEN j ELSE j + 1) \in DOMAIN t
      BY <1>2
    <3> QED
      BY <1>5, <3>1 DEF ToSet
  <2>3. e \in ToSet(t)
    BY <1>2, <1>4 DEF ToSet
  <2> QED
    BY <2>1, <2>2, <2>3
<1>9. PlaceIn(t, e) = i
  BY <1>2, <1>4, <1>7, PlaceIsUnique
<1>10. ASSUME NEW u \in ToSet(s)
       PROVE  PlaceIn(t, u) = IF PlaceIn(s, u) < i THEN PlaceIn(s, u) ELSE PlaceIn(s, u) + 1
  <2>1. PlaceIn(s, u) \in 1 .. Len(s) /\ s[PlaceIn(s, u)] = u
    BY <1>2, PlaceHolds
  <2> DEFINE k == IF PlaceIn(s, u) < i THEN PlaceIn(s, u) ELSE PlaceIn(s, u) + 1
  <2>2. t[k] = u
    BY <1>5, <2>1
  <2>3. k \in DOMAIN t
    BY <1>2, <2>1
  <2> QED
    BY <1>7, <2>2, <2>3, PlaceIsUnique
<1> QED
  BY <1>1, <1>7, <1>8, <1>9, <1>10

(* A removal moves what is behind it down by one.                          *)
LEMMA RemoveMoves ==
    ASSUME NEW S, NEW s \in Seq(S), IsInjective(s), NEW e \in ToSet(s),
           NEW t, t = RemoveAt(s, PlaceIn(s, e))
    PROVE  /\ t \in Seq(S) /\ Len(t) = Len(s) - 1 /\ IsInjective(t)
           /\ ToSet(t) = ToSet(s) \ {e} /\ e \in S
           /\ \A u \in ToSet(t) :
                 PlaceIn(t, u) = IF PlaceIn(s, u) < PlaceIn(s, e) THEN PlaceIn(s, u)
                                 ELSE PlaceIn(s, u) - 1
<1> DEFINE i == PlaceIn(s, e)
<1>1. DOMAIN s = 1 .. Len(s) /\ Len(s) \in Nat
  OBVIOUS
<1>2. i \in 1 .. Len(s) /\ s[i] = e
  BY <1>1, PlaceHolds
<1> HIDE DEF i
<1>3. /\ t \in Seq(S) /\ Len(t) = Len(s) - 1
      /\ \A j \in 1 .. Len(s) - 1 : t[j] = IF j < i THEN s[j] ELSE s[j + 1]
  BY <1>2, RemoveIsPointwise DEF i
<1>4. DOMAIN t = 1 .. Len(s) - 1
  BY <1>3
<1>5. ASSUME NEW j \in 1 .. Len(s) - 1
      PROVE  /\ t[j] = s[IF j < i THEN j ELSE j + 1]
             /\ (IF j < i THEN j ELSE j + 1) \in 1 .. Len(s)
             /\ (IF j < i THEN j ELSE j + 1) # i
  BY <1>1, <1>2, <1>3
<1>6. ASSUME NEW j \in 1 .. Len(s), j # i
      PROVE  /\ t[IF j < i THEN j ELSE j - 1] = s[j]
             /\ (IF j < i THEN j ELSE j - 1) \in 1 .. Len(s) - 1
  BY <1>1, <1>2, <1>3, <1>6
<1>7. \A j \in 1 .. Len(s) : s[j] = e => j = i
  BY <1>1, <1>2 DEF IsInjective
<1>8. IsInjective(t)
  <2> SUFFICES ASSUME NEW j \in 1 .. Len(s) - 1, NEW k \in 1 .. Len(s) - 1, t[j] = t[k]
               PROVE  j = k
    BY <1>4 DEF IsInjective
  <2>1. (IF j < i THEN j ELSE j + 1) = (IF k < i THEN k ELSE k + 1)
    BY <1>1, <1>5 DEF IsInjective
  <2> QED
    BY <1>1, <1>2, <2>1
<1>9. ToSet(t) = ToSet(s) \ {e}
  <2>1. \A x \in ToSet(t) : x \in ToSet(s) \ {e}
    BY <1>1, <1>4, <1>5, <1>7 DEF ToSet
  <2>2. \A x \in ToSet(s) \ {e} : x \in ToSet(t)
    <3> SUFFICES ASSUME NEW j \in 1 .. Len(s), s[j] # e PROVE s[j] \in ToSet(t)
      BY <1>1 DEF ToSet
    <3>1. (IF j < i THEN j ELSE j - 1) \in DOMAIN t /\ t[IF j < i THEN j ELSE j - 1] = s[j]
      BY <1>2, <1>4, <1>6
    <3> QED
      BY <3>1 DEF ToSet
  <2> QED
    BY <2>1, <2>2
<1>10. ASSUME NEW u \in ToSet(t)
       PROVE  PlaceIn(t, u) = IF PlaceIn(s, u) < i THEN PlaceIn(s, u) ELSE PlaceIn(s, u) - 1
  <2>1. PlaceIn(s, u) \in 1 .. Len(s) /\ s[PlaceIn(s, u)] = u /\ u # e
    BY <1>1, <1>9, PlaceHolds
  <2> DEFINE k == IF PlaceIn(s, u) < i THEN PlaceIn(s, u) ELSE PlaceIn(s, u) - 1
  <2>2. t[k] = u /\ k \in DOMAIN t
    BY <1>2, <1>4, <1>6, <2>1
  <2> QED
    BY <1>8, <2>2, PlaceIsUnique
<1>11. e \in S
  BY <1>1, <1>2
<1> QED
  BY <1>3, <1>8, <1>9, <1>10, <1>11 DEF i

(* A removal and an insertion of the same element.                         *)
LEMMA MoveMoves ==
    ASSUME NEW S, NEW s \in Seq(S), IsInjective(s), NEW e \in ToSet(s), NEW i \in 1 .. Len(s),
           NEW t, t = InsertAt(RemoveAt(s, PlaceIn(s, e)), i, e)
    PROVE  /\ t \in Seq(S) /\ IsInjective(t) /\ ToSet(t) = ToSet(s) /\ PlaceIn(t, e) = i
           /\ \A u \in ToSet(s) \ {e} :
                 LET q == IF PlaceIn(s, u) < PlaceIn(s, e) THEN PlaceIn(s, u)
                          ELSE PlaceIn(s, u) - 1
                 IN  PlaceIn(t, u) = IF q < i THEN q ELSE q + 1
<1> DEFINE r == RemoveAt(s, PlaceIn(s, e))
<1>1. /\ r \in Seq(S) /\ Len(r) = Len(s) - 1 /\ IsInjective(r)
      /\ ToSet(r) = ToSet(s) \ {e} /\ e \in S
      /\ \A u \in ToSet(r) :
            PlaceIn(r, u) = IF PlaceIn(s, u) < PlaceIn(s, e) THEN PlaceIn(s, u)
                            ELSE PlaceIn(s, u) - 1
  BY RemoveMoves
<1>2. t = InsertAt(r, i, e)
  OBVIOUS
<1> HIDE DEF r
<1>3. i \in 1 .. Len(r) + 1 /\ e \notin ToSet(r)
  BY <1>1
<1>4. /\ t \in Seq(S) /\ IsInjective(t)
      /\ ToSet(t) = ToSet(r) \cup {e} /\ PlaceIn(t, e) = i
      /\ \A u \in ToSet(r) :
            PlaceIn(t, u) = IF PlaceIn(r, u) < i THEN PlaceIn(r, u) ELSE PlaceIn(r, u) + 1
  BY <1>1, <1>2, <1>3, InsertMoves
<1> QED
  BY <1>1, <1>4

(* A sequence without repetitions is no longer than there are elements.    *)
LEMMA LengthIsBounded ==
    ASSUME NEW S, IsFiniteSet(S), NEW s \in Seq(S), IsInjective(s)
    PROVE  Len(s) <= Cardinality(S) /\ Len(s) \in Nat /\ Cardinality(S) \in Nat
<1>1. s \in Injection(1 .. Len(s), S) /\ Len(s) \in Nat
  BY DEF Injection
<1>2. Cardinality(1 .. Len(s)) <= Cardinality(S)
  BY <1>1, FS_Injection
<1> QED
  BY <1>1, <1>2, FS_Interval, FS_CardinalityType

-----------------------------------------------------------------------------
(* The inductive invariant, part by part *)

Ids(rows) == {rows[i].id : i \in DOMAIN rows}

(* What the walk's call has read and not listed yet.                       *)
Due == IF reader.get THEN {} ELSE Ids(reader.rows)

ReaderRecords == [at: {"idle", "nodes", "stat", "count"}, get: BOOLEAN,
                  start: 0 .. Cardinality(Volumes), limit: 0 .. All, rows: Seq(Rows), nodes: BOOLEAN]

WalkRecords == [next: End .. Cardinality(Volumes), passed: Nat, steady: SUBSET Volumes,
                spoilt: SUBSET Spoilers, listed: [Volumes -> 0 .. Cardinality(Volumes)]]

(* A volume has no more data than its row says, and capacities count the   *)
(* changes.                                                                *)
StoreOK ==
    \A v \in Volumes :
        /\ Live(v) => capacity[v] > 0
        /\ size[v] <= capacity[v] /\ capacity[v] <= changes + 1

(* Where the call and the walk are.  The next page begins where the pages  *)
(* read so far end.                                                        *)
ReaderOK ==
    /\ reader.at \in {"idle", "count"} => reader.rows = << >>
    /\ reader.at \in {"nodes", "stat"} => reader.rows # << >>
    /\ reader.at = "count" => ~reader.get
    /\ \A i, j \in DOMAIN reader.rows : reader.rows[i].id = reader.rows[j].id => i = j
    /\ \A v \in Ids(reader.rows) : capacity[v] > 0
    /\ reader.at # "idle" => walk.next = End
    /\ (reader.at # "idle" /\ ~reader.get) =>
          /\ walk.passed = reader.start + reader.limit /\ reader.limit > 0
          /\ reader.start = 0 \/ reader.start < Cardinality(Volumes)
    /\ reader.get => walk.passed = 0 /\ \A v \in Volumes : walk.listed[v] = 0
    /\ walk.next # End => walk.next = walk.passed /\ 0 < walk.next /\ walk.next < Cardinality(Volumes)

(* A page lists a volume once.                                             *)
ListedOK ==
    \A v \in Volumes :
        /\ reader.at # "idle" /\ ~reader.get =>
              walk.listed[v] + (IF v \in Due THEN 1 ELSE 0) <= reader.start + 1
        /\ walk.next # End => walk.listed[v] <= walk.next

(* No volume among those still to come was listed before.                  *)
OnceOK ==
    /\ \A v \in Volumes : (walk.listed[v] > 0 \/ v \in Due) => capacity[v] > 0
    /\ walk.spoilt \cap {"inserted", "moved"} = {} =>
          \A v \in Volumes :
              /\ walk.listed[v] <= 1
              /\ v \in Due => walk.listed[v] = 0
              /\ (walk.listed[v] > 0 \/ v \in Due) /\ Live(v) => Place(v) <= walk.passed

(* Those that were there all the time and are passed are listed or due.    *)
AllOK ==
    /\ \A v \in walk.steady : Live(v)
    /\ walk.spoilt \cap {"removed", "moved", "failed"} = {} =>
          \A v \in walk.steady :
              Place(v) <= walk.passed => walk.listed[v] > 0 \/ v \in Due

FitClaim(v) == IF Fits(v) THEN "fits" ELSE "differs"
NodeClaim(v) == IF v \in attached THEN "attached" ELSE "detached"

(* What the call will say of a row, whatever it finds, was seen to be so.  *)
SawOK ==
    reader.at \in {"nodes", "stat"} =>
        /\ \A v \in Ids(reader.rows) : <<v, FitClaim(v)>> \in saw /\ <<v, NodeClaim(v)>> \in saw
        /\ \A i \in DOMAIN reader.rows :
              reader.rows[i].id \in Blocks =>
                 /\ size[reader.rows[i].id] = reader.rows[i].cap
                       => <<reader.rows[i].id, "fits">> \in saw
                 /\ capacity[reader.rows[i].id] # reader.rows[i].cap
                       => <<reader.rows[i].id, "differs">> \in saw
        /\ reader.at = "stat" /\ (reader.get \/ "failed" \notin walk.spoilt) =>
              <<Head(reader.rows).id, IF reader.nodes THEN "attached" ELSE "detached">> \in saw

CallInv ==
    /\ ReaderOK /\ ListedOK /\ OnceOK /\ AllOK /\ SawOK
    /\ EntryIsTrue /\ WalkIsComplete

ListingInv == ListingTypeOK /\ StoreOK /\ CallInv

(* The types of what a reader's step changes.                              *)
ReaderTypes ==
    /\ reader \in ReaderRecords /\ walk \in WalkRecords
    /\ entry \in [id: Volumes \cup {Nobody}, get: BOOLEAN, nodes: BOOLEAN, ok: BOOLEAN]
    /\ saw \subseteq Volumes \X Claims /\ faults \in 0 .. MaxFaults

-----------------------------------------------------------------------------
(* What the controllers do.  The walk goes on; what crosses the point it   *)
(* has come to is noted.                                                   *)
ChangeOK ==
    /\ table' \in Seq(Volumes) /\ IsInjective(table')
    /\ capacity' \in [Volumes -> 0 .. MaxChanges + 1]
    /\ size' \in [Volumes -> 0 .. MaxChanges + 1]
    /\ attached' \subseteq Volumes /\ pending' \in Volumes \cup {Nobody}
    /\ changes' \in 0 .. MaxChanges
    /\ StoreOK'
    /\ \A v \in Volumes : capacity[v] > 0 => capacity'[v] > 0
    /\ \A v \in Volumes : Live(v)' => Live(v) \/ capacity[v] = 0
    /\ walk' \in WalkRecords /\ walk.spoilt \subseteq walk'.spoilt
    /\ walk'.next = walk.next /\ walk'.passed = walk.passed /\ walk'.listed = walk.listed
    /\ walk'.steady \subseteq walk.steady
    /\ \A v \in walk'.steady : Live(v) => Live(v)'
    /\ walk'.spoilt \cap {"inserted", "moved"} = {} =>
          \A v \in Volumes : Live(v) /\ Live(v)' /\ Place(v) <= walk.passed
                                => Place(v)' <= walk.passed
    /\ walk'.spoilt \cap {"removed", "moved"} = {} =>
          \A v \in Volumes : Live(v) /\ Live(v)' /\ Place(v)' <= walk.passed
                                => Place(v) <= walk.passed

(* The types of the records.                                               *)
LEMMA RecordTypes ==
    ASSUME ListingTypeOK
    PROVE  /\ reader \in ReaderRecords /\ walk \in WalkRecords
           /\ table \in Seq(Volumes) /\ IsInjective(table)
           /\ Len(table) \in Nat /\ Len(table) <= Cardinality(Volumes)
           /\ Cardinality(Volumes) \in Nat /\ DOMAIN table = 1 .. Len(table)
           /\ \A v \in Volumes : capacity[v] \in Nat /\ size[v] \in Nat /\ walk.listed[v] \in Nat
           /\ ToSet(table) \subseteq Volumes
<1>1. /\ reader \in ReaderRecords /\ walk \in WalkRecords
      /\ table \in Seq(Volumes) /\ IsInjective(table)
  BY DEF ListingTypeOK, ReaderRecords, WalkRecords
<1>2. Len(table) \in Nat /\ Len(table) <= Cardinality(Volumes) /\ Cardinality(Volumes) \in Nat
  BY <1>1, LengthIsBounded, ListingAssumption
<1>3. \A v \in Volumes : capacity[v] \in Nat /\ size[v] \in Nat
  BY ListingAssumption DEF ListingTypeOK
<1>4. \A v \in Volumes : walk.listed[v] \in Nat
  BY <1>1, <1>2 DEF WalkRecords
<1>5. ToSet(table) \subseteq Volumes /\ DOMAIN table = 1 .. Len(table)
  BY <1>1 DEF ToSet
<1> QED
  BY <1>1, <1>2, <1>3, <1>4, <1>5

(* The types of the rows of a page.                                        *)
LEMMA RowTypes ==
    ASSUME NEW rows \in Seq(Rows)
    PROVE  /\ Ids(rows) \subseteq Volumes /\ DOMAIN rows = 1 .. Len(rows) /\ Len(rows) \in Nat
           /\ \A i \in DOMAIN rows :
                 /\ rows[i].id \in Volumes /\ rows[i].id \in Ids(rows)
                 /\ rows[i].cap \in 1 .. MaxChanges + 1 /\ rows[i].cap > 0
<1>1. DOMAIN rows = 1 .. Len(rows) /\ Len(rows) \in Nat
  OBVIOUS
<1>2. ASSUME NEW i \in DOMAIN rows
      PROVE  rows[i].id \in Volumes /\ rows[i].cap \in 1 .. MaxChanges + 1
  <2>1. rows[i] \in Rows
    BY <1>1
  <2> QED
    BY <2>1 DEF Rows
<1> QED
  BY <1>1, <1>2, ListingAssumption DEF Ids

(* A row that is created.                                                  *)
LEMMA CreateOK ==
    ASSUME ListingTypeOK, StoreOK, NEW v \in Volumes, NEW i \in 1 .. Len(table) + 1, Create(v, i)
    PROVE  ChangeOK
<1>1. /\ reader \in ReaderRecords /\ walk \in WalkRecords
      /\ table \in Seq(Volumes) /\ IsInjective(table) /\ Len(table) \in Nat
      /\ DOMAIN table = 1 .. Len(table)
      /\ \A u \in Volumes : capacity[u] \in Nat /\ size[u] \in Nat
  BY RecordTypes
<1>2. v \notin ToSet(table)
  BY <1>1 DEF Create, StoreOK, Live
<1>3. /\ table' \in Seq(Volumes) /\ Len(table') = Len(table) + 1 /\ IsInjective(table')
      /\ ToSet(table') = ToSet(table) \cup {v}
      /\ \A u \in ToSet(table) :
            PlaceIn(table', u) = IF PlaceIn(table, u) < i THEN PlaceIn(table, u)
                                 ELSE PlaceIn(table, u) + 1
  <2>1. table' = InsertAt(table, i, v)
    BY DEF Create
  <2> QED
    BY <1>1, <1>2, <2>1, InsertMoves
<1>4. /\ capacity' = [capacity EXCEPT ![v] = 1] /\ size' = [size EXCEPT ![v] = 1]
      /\ capacity[v] = 0 /\ changes' = changes + 1 /\ changes < MaxChanges
      /\ UNCHANGED <<attached, pending>>
  BY DEF Create, Changed
<1>5. MaxChanges \in Nat /\ changes \in Nat
  BY ListingAssumption DEF ListingTypeOK
<1>6. /\ capacity' \in [Volumes -> 0 .. MaxChanges + 1] /\ changes' \in 0 .. MaxChanges
      /\ size' \in [Volumes -> 0 .. MaxChanges + 1]
      /\ attached' \subseteq Volumes /\ pending' \in Volumes \cup {Nobody}
  BY <1>4, <1>5 DEF ListingTypeOK
<1>7. /\ \A u \in Volumes : Live(u)' <=> Live(u) \/ u = v
      /\ \A u \in Volumes : u # v => capacity'[u] = capacity[u] /\ size'[u] = size[u]
      /\ capacity'[v] = 1 /\ size'[v] = 1
  BY <1>3, <1>4 DEF Live, ListingTypeOK
<1>8. StoreOK'
  BY <1>1, <1>4, <1>5, <1>7 DEF StoreOK
<1>9. /\ walk' \in WalkRecords /\ walk.spoilt \subseteq walk'.spoilt
      /\ walk'.next = walk.next /\ walk'.passed = walk.passed /\ walk'.listed = walk.listed
      /\ walk'.steady = walk.steady
      /\ walk'.spoilt \cap {"inserted", "moved"} = {}
            => ~(i <= walk.passed /\ walk.passed <= Len(table))
  BY <1>1 DEF Create, Spoil, WalkRecords, Spoilers
<1>10. walk.passed \in Nat
  BY <1>1 DEF WalkRecords
<1>11. ASSUME NEW u \in Volumes, Live(u)
       PROVE  /\ Place(u) \in 1 .. Len(table)
              /\ Place(u)' = IF Place(u) < i THEN Place(u) ELSE Place(u) + 1
  BY <1>1, <1>3, <1>11, PlaceHolds DEF Live, Place, PlaceIn
<1>12. ASSUME NEW u \in Volumes, Live(u), Place(u)' <= walk.passed
       PROVE  Place(u) <= walk.passed
  BY <1>10, <1>11, <1>12
<1>13. ASSUME NEW u \in Volumes, Live(u), Place(u) <= walk.passed,
              walk'.spoilt \cap {"inserted", "moved"} = {}
       PROVE  Place(u)' <= walk.passed
  BY <1>1, <1>9, <1>10, <1>11, <1>13
<1>14. \A u \in Volumes : /\ capacity[u] > 0 => capacity'[u] > 0
                          /\ Live(u)' => Live(u) \/ capacity[u] = 0
                          /\ Live(u) => Live(u)'
  BY <1>4, <1>7
<1>15. walk.steady \subseteq Volumes
  BY <1>1 DEF WalkRecords
<1> QED
  BY <1>3, <1>6, <1>8, <1>9, <1>12, <1>13, <1>14, <1>15 DEF ChangeOK

(* A row that is deleted.                                                  *)
LEMMA DeleteOK ==
    ASSUME ListingTypeOK, StoreOK, NEW v \in Volumes, Delete(v)
    PROVE  ChangeOK
<1>1. /\ reader \in ReaderRecords /\ walk \in WalkRecords
      /\ table \in Seq(Volumes) /\ IsInjective(table) /\ Len(table) \in Nat
      /\ DOMAIN table = 1 .. Len(table)
      /\ \A u \in Volumes : capacity[u] \in Nat /\ size[u] \in Nat
  BY RecordTypes
<1>2. v \in ToSet(table)
  BY DEF Delete, Live
<1>3. /\ table' \in Seq(Volumes) /\ IsInjective(table')
      /\ ToSet(table') = ToSet(table) \ {v}
      /\ \A u \in ToSet(table') :
            PlaceIn(table', u) = IF PlaceIn(table, u) < PlaceIn(table, v) THEN PlaceIn(table, u)
                                 ELSE PlaceIn(table, u) - 1
  <2>1. table' = RemoveAt(table, PlaceIn(table, v))
    BY DEF Delete, Place, PlaceIn
  <2> QED
    BY <1>1, <1>2, <2>1, RemoveMoves
<1>4. /\ UNCHANGED <<capacity, size, attached>> /\ pending' = v
      /\ changes' = changes + 1 /\ changes < MaxChanges
  BY DEF Delete, Changed
<1>5. MaxChanges \in Nat /\ changes \in Nat
  BY ListingAssumption DEF ListingTypeOK
<1>6. /\ capacity' \in [Volumes -> 0 .. MaxChanges + 1] /\ changes' \in 0 .. MaxChanges
      /\ size' \in [Volumes -> 0 .. MaxChanges + 1]
      /\ attached' \subseteq Volumes /\ pending' \in Volumes \cup {Nobody}
  BY <1>4, <1>5 DEF ListingTypeOK
<1>7. \A u \in Volumes : Live(u)' <=> Live(u) /\ u # v
  BY <1>3 DEF Live
<1>8. StoreOK'
  BY <1>1, <1>4, <1>5, <1>7 DEF StoreOK
<1>9. /\ walk' \in WalkRecords /\ walk.spoilt \subseteq walk'.spoilt
      /\ walk'.next = walk.next /\ walk'.passed = walk.passed /\ walk'.listed = walk.listed
      /\ walk'.steady = walk.steady \ {v}
      /\ walk'.spoilt \cap {"removed", "moved"} = {}
            => ~(Place(v) <= walk.passed /\ walk.passed < Len(table))
  BY <1>1 DEF Delete, Spoil, WalkRecords, Spoilers
<1>10. walk.passed \in Nat /\ walk.steady \subseteq Volumes
  BY <1>1 DEF WalkRecords
<1>11. \A u \in Volumes : Live(u) => Place(u) \in 1 .. Len(table) /\ table[Place(u)] = u
  BY <1>1, PlaceHolds DEF Live, Place, PlaceIn
<1>12. ASSUME NEW u \in Volumes, Live(u)'
       PROVE  /\ Live(u) /\ Place(u) \in 1 .. Len(table) /\ Place(v) \in 1 .. Len(table)
              /\ Place(u) # Place(v)
              /\ Place(u)' = IF Place(u) < Place(v) THEN Place(u) ELSE Place(u) - 1
  <2>1. Live(u) /\ Live(v) /\ u # v
    BY <1>2, <1>7, <1>12 DEF Live
  <2>2. Place(u)' = IF Place(u) < Place(v) THEN Place(u) ELSE Place(u) - 1
    BY <1>3, <1>12 DEF Live, Place, PlaceIn
  <2> QED
    BY <1>11, <2>1, <2>2
<1>13. ASSUME NEW u \in Volumes, Live(u)', Place(u) <= walk.passed
       PROVE  Place(u)' <= walk.passed
  BY <1>1, <1>10, <1>12, <1>13
<1>14. ASSUME NEW u \in Volumes, Live(u)', Place(u)' <= walk.passed,
              walk'.spoilt \cap {"removed", "moved"} = {}
       PROVE  Place(u) <= walk.passed
  BY <1>1, <1>9, <1>10, <1>12, <1>14
<1>15. \A u \in Volumes : u \in walk'.steady /\ Live(u) => Live(u)'
  BY <1>7, <1>9
<1> QED
  BY <1>3, <1>4, <1>6, <1>7, <1>8, <1>9, <1>10, <1>13, <1>14, <1>15 DEF ChangeOK

(* A row that is written anew, with the capacity of an expansion.          *)
LEMMA ExpandOK ==
    ASSUME ListingTypeOK, StoreOK, NEW v \in Volumes, NEW i \in DOMAIN table, Expand(v, i)
    PROVE  ChangeOK
<1>1. /\ reader \in ReaderRecords /\ walk \in WalkRecords
      /\ table \in Seq(Volumes) /\ IsInjective(table) /\ Len(table) \in Nat
      /\ DOMAIN table = 1 .. Len(table)
      /\ \A u \in Volumes : capacity[u] \in Nat /\ size[u] \in Nat
  BY RecordTypes
<1>2. v \in ToSet(table)
  BY DEF Expand, Live
<1> DEFINE p == PlaceIn(table, v)
           q(u) == IF PlaceIn(table, u) < p THEN PlaceIn(table, u) ELSE PlaceIn(table, u) - 1
<1>3. i \in 1 .. Len(table)
  BY <1>1
<1>4. /\ table' \in Seq(Volumes) /\ IsInjective(table')
      /\ ToSet(table') = ToSet(table) /\ PlaceIn(table', v) = i
      /\ \A u \in ToSet(table) \ {v} :
            PlaceIn(table', u) = IF q(u) < i THEN q(u) ELSE q(u) + 1
  <2>1. table' = InsertAt(RemoveAt(table, PlaceIn(table, v)), i, v)
    BY DEF Expand, Place, PlaceIn
  <2> QED
    BY <1>1, <1>2, <1>3, <2>1, MoveMoves
<1>5. /\ UNCHANGED <<size, attached>> /\ pending' = v
      /\ capacity' = [capacity EXCEPT ![v] = capacity[v] + 1]
      /\ changes' = changes + 1 /\ changes < MaxChanges
  BY DEF Expand, Changed
<1>6. MaxChanges \in Nat /\ changes \in Nat
  BY ListingAssumption DEF ListingTypeOK
<1>7. /\ \A u \in Volumes : Live(u)' <=> Live(u)
      /\ \A u \in Volumes : u # v => capacity'[u] = capacity[u]
      /\ capacity'[v] = capacity[v] + 1
  BY <1>4, <1>5 DEF Live, ListingTypeOK
<1>8. capacity[v] <= changes + 1 /\ capacity[v] \in Nat
  BY <1>1 DEF StoreOK
<1>9. /\ capacity' \in [Volumes -> 0 .. MaxChanges + 1] /\ changes' \in 0 .. MaxChanges
      /\ size' \in [Volumes -> 0 .. MaxChanges + 1]
      /\ attached' \subseteq Volumes /\ pending' \in Volumes \cup {Nobody}
  <2>1. capacity[v] + 1 \in 0 .. MaxChanges + 1
    BY <1>5, <1>6, <1>8
  <2>2. capacity' \in [Volumes -> 0 .. MaxChanges + 1]
    BY <1>5, <2>1 DEF ListingTypeOK
  <2>3. changes' \in 0 .. MaxChanges
    BY <1>5, <1>6
  <2> QED
    BY <1>5, <2>2, <2>3 DEF ListingTypeOK
<1>10. StoreOK'
  BY <1>1, <1>5, <1>6, <1>7 DEF StoreOK
<1>11. /\ walk' \in WalkRecords /\ walk.spoilt \subseteq walk'.spoilt
       /\ walk'.next = walk.next /\ walk'.passed = walk.passed /\ walk'.listed = walk.listed
       /\ walk'.steady = walk.steady
       /\ "moved" \notin walk'.spoilt => (p <= walk.passed <=> i <= walk.passed)
  BY <1>1 DEF Expand, Spoil, WalkRecords, Spoilers, Place, PlaceIn
<1>12. walk.passed \in Nat /\ walk.steady \subseteq Volumes
  BY <1>1 DEF WalkRecords
<1>13. p \in 1 .. Len(table) /\ table[p] = v
  BY <1>1, <1>2, PlaceHolds
<1> HIDE DEF p
<1>14. Place(v) = p /\ Place(v)' = i
  BY <1>4 DEF Place, PlaceIn, p
<1>15. ASSUME NEW u \in Volumes, Live(u), u # v
       PROVE  /\ Place(u) \in 1 .. Len(table) /\ Place(u) # p
              /\ Place(u)' = IF q(u) < i THEN q(u) ELSE q(u) + 1
              /\ Place(u) = PlaceIn(table, u)
  <2>1. u \in ToSet(table) \ {v}
    BY <1>15 DEF Live
  <2>2. PlaceIn(table, u) \in 1 .. Len(table) /\ table[PlaceIn(table, u)] = u
    BY <1>1, <1>15, PlaceHolds DEF Live
  <2>3. Place(u) = PlaceIn(table, u) /\ Place(u)' = PlaceIn(table', u)
    BY DEF Place, PlaceIn
  <2> QED
    BY <1>4, <1>13, <1>15, <2>1, <2>2, <2>3
<1>16. ASSUME NEW u \in Volumes, Live(u), "moved" \notin walk'.spoilt
       PROVE  Place(u) <= walk.passed <=> Place(u)' <= walk.passed
  <2>1. CASE u = v
    BY <1>11, <1>14, <1>16, <2>1
  <2>2. CASE u # v
    BY <1>1, <1>11, <1>12, <1>13, <1>15, <1>16, <2>2
  <2> QED
    BY <2>1, <2>2
<1>17. \A u \in Volumes : capacity[u] > 0 => capacity'[u] > 0
  BY <1>1, <1>7
<1> QED
  BY <1>4, <1>7, <1>9, <1>10, <1>11, <1>12, <1>16, <1>17 DEF ChangeOK

(* Attachments and the data of a handler leave the rows as they are.       *)
LEMMA RowsStayOK ==
    ASSUME ListingTypeOK, StoreOK, Finish \/ \E v \in Volumes : Attach(v)
    PROVE  ChangeOK
<1>1. UNCHANGED <<table, capacity, walk>>
  BY DEF Finish, Attach
<1>2. walk \in WalkRecords /\ MaxChanges \in Nat /\ changes \in Nat
  BY RecordTypes, ListingAssumption DEF ListingTypeOK
<1>3. changes' \in 0 .. MaxChanges /\ changes <= changes' /\ changes' \in Nat
  BY <1>2 DEF ListingTypeOK, Finish, Attach, Changed
<1>4. /\ size' \in [Volumes -> 0 .. MaxChanges + 1]
      /\ \A v \in Volumes : size'[v] = size[v] \/ size'[v] = capacity[v] \/ size'[v] = 0
  <2>1. CASE size' = size
    BY <2>1 DEF ListingTypeOK
  <2>2. CASE Finish /\ size' # size
    <3>1. PICK n \in {capacity[pending], 0} : size' = [size EXCEPT ![pending] = n]
      BY <2>2 DEF Finish
    <3>2. pending \in Volumes
      BY <2>2 DEF Finish, ListingTypeOK
    <3>3. n \in 0 .. MaxChanges + 1
      BY <1>2, <3>2 DEF ListingTypeOK
    <3> QED
      BY <3>1, <3>2, <3>3 DEF ListingTypeOK
  <2> QED
    BY <2>1, <2>2 DEF Attach
<1>5. attached' \subseteq Volumes /\ pending' \in Volumes \cup {Nobody}
  BY DEF ListingTypeOK, Finish, Attach
<1>6. StoreOK'
  <2> SUFFICES ASSUME NEW v \in Volumes
               PROVE  /\ Live(v)' => capacity'[v] > 0
                      /\ size'[v] <= capacity'[v] /\ capacity'[v] <= changes' + 1
    BY DEF StoreOK
  <2>1. /\ Live(v) => capacity[v] > 0
        /\ size[v] <= capacity[v] /\ capacity[v] <= changes + 1
        /\ capacity[v] \in Nat /\ size[v] \in Nat
    BY RecordTypes DEF StoreOK
  <2>2. Live(v)' <=> Live(v)
    BY <1>1 DEF Live
  <2> QED
    BY <1>1, <1>2, <1>3, <1>4, <2>1, <2>2
<1>7. /\ table' \in Seq(Volumes) /\ IsInjective(table')
      /\ capacity' \in [Volumes -> 0 .. MaxChanges + 1]
  BY <1>1 DEF ListingTypeOK
<1>8. \A v \in Volumes : (Live(v)' <=> Live(v)) /\ Place(v)' = Place(v)
  BY <1>1 DEF Live, Place
<1>9. walk.steady \subseteq Volumes
  BY <1>2 DEF WalkRecords
<1> QED
  BY <1>1, <1>2, <1>3, <1>4, <1>5, <1>6, <1>7, <1>8, <1>9 DEF ChangeOK

(* Every step of a controller is such a change, and no reader's step.      *)
LEMMA ChangesAreOK ==
    ASSUME ListingTypeOK, StoreOK, Change
    PROVE  ChangeOK /\ UNCHANGED <<reader, entry, faults>>
<1>1. DOMAIN table = 1 .. Len(table)
  BY RecordTypes
<1>2. ChangeOK
  BY CreateOK, DeleteOK, ExpandOK, RowsStayOK DEF Change
<1>3. UNCHANGED <<reader, entry, faults>>
  BY DEF Change, Create, Delete, Expand, Attach, Finish, Changed
<1> QED
  BY <1>2, <1>3

(* The invariants of the reader and of the walk stand such a change.       *)
LEMMA ChangeKeepsWalk ==
    ASSUME ListingTypeOK, StoreOK, ReaderOK, ListedOK, OnceOK, AllOK, WalkIsComplete,
           ChangeOK, UNCHANGED <<reader, entry, faults>>
    PROVE  ReaderOK' /\ ListedOK' /\ OnceOK' /\ AllOK' /\ WalkIsComplete'
<1>1. /\ reader \in ReaderRecords /\ walk \in WalkRecords
      /\ \A v \in Volumes : walk.listed[v] \in Nat
  BY RecordTypes
<1>2. Ids(reader.rows) \subseteq Volumes /\ Due \subseteq Volumes
  BY <1>1, RowTypes DEF ReaderRecords, Due
<1>3. /\ walk'.next = walk.next /\ walk'.passed = walk.passed /\ walk'.listed = walk.listed
      /\ walk.spoilt \subseteq walk'.spoilt /\ walk'.steady \subseteq walk.steady
      /\ walk.steady \subseteq Volumes
      /\ reader' = reader /\ Ids(reader.rows)' = Ids(reader.rows) /\ Due' = Due
  BY <1>1 DEF ChangeOK, WalkRecords, Ids, Due
<1>4. ReaderOK'
  BY <1>2, <1>3 DEF ReaderOK, ChangeOK
<1>5. ListedOK'
  BY <1>3 DEF ListedOK
<1>6. OnceOK'
  <2>1. ASSUME NEW v \in Volumes, walk.listed[v] > 0 \/ v \in Due PROVE capacity'[v] > 0
    BY <2>1 DEF OnceOK, ChangeOK
  <2>2. ASSUME NEW v \in Volumes, walk'.spoilt \cap {"inserted", "moved"} = {}
        PROVE  /\ walk.listed[v] <= 1
               /\ v \in Due => walk.listed[v] = 0
               /\ (walk.listed[v] > 0 \/ v \in Due) /\ Live(v)' => Place(v)' <= walk.passed
    <3>1. walk.spoilt \cap {"inserted", "moved"} = {}
      BY <1>3, <2>2
    <3>2. (walk.listed[v] > 0 \/ v \in Due) /\ Live(v)' => Live(v)
      BY RecordTypes DEF OnceOK, ChangeOK
    <3> QED
      BY <2>2, <3>1, <3>2 DEF OnceOK, ChangeOK
  <2> QED
    BY <1>3, <2>1, <2>2 DEF OnceOK
<1>7. AllOK'
  <2>1. \A v \in walk'.steady : Live(v)'
    BY <1>3 DEF AllOK, ChangeOK
  <2>2. ASSUME walk'.spoilt \cap {"removed", "moved", "failed"} = {}, NEW v \in walk'.steady,
               Place(v)' <= walk.passed
        PROVE  walk.listed[v] > 0 \/ v \in Due
    <3>1. /\ walk.spoilt \cap {"removed", "moved", "failed"} = {}
          /\ walk'.spoilt \cap {"removed", "moved"} = {}
      BY <1>3, <2>2
    <3>2. v \in walk.steady /\ v \in Volumes /\ Live(v) /\ Live(v)'
      BY <1>3, <2>1 DEF AllOK
    <3> QED
      BY <2>2, <3>1, <3>2 DEF AllOK, ChangeOK
  <2> QED
    BY <1>3, <2>1, <2>2 DEF AllOK
<1>8. WalkIsComplete'
  <2>1. WalkEnded' => WalkEnded
    BY <1>3 DEF WalkEnded
  <2> QED
    BY <1>3, <2>1 DEF WalkIsComplete
<1> QED
  BY <1>4, <1>5, <1>6, <1>7, <1>8

-----------------------------------------------------------------------------
(* What the call saw.  Nothing of it is lost, and what comes true is added. *)
LEMMA WitnessedSees ==
    ASSUME reader.at \in {"nodes", "stat"}, Witnessed, NEW v \in Volumes, NEW c, <<v, c>> \in saw
    PROVE  <<v, FitClaim(v)'>> \in saw' /\ <<v, NodeClaim(v)'>> \in saw'
<1>1. saw' = saw \cup {f \in Facts' : \E g \in saw : g[1] = f[1]}
  BY DEF Witnessed
<1>2. <<v, FitClaim(v)'>> \in Facts' /\ <<v, NodeClaim(v)'>> \in Facts'
  BY DEF Facts, FitClaim, NodeClaim
<1>3. \A d : \E g \in saw : g[1] = <<v, d>>[1]
  OBVIOUS
<1> QED
  BY <1>1, <1>2, <1>3

(* How a change touches the capacity and the data of a volume.             *)
LEMMA ChangeOfVolume ==
    ASSUME ListingTypeOK, Change, NEW v \in Volumes
    PROVE  /\ size'[v] = size[v] \/ size'[v] = capacity'[v] \/ size'[v] = 0
           /\ \/ capacity'[v] = capacity[v]
              \/ capacity[v] = 0
              \/ capacity'[v] = capacity[v] + 1 /\ size'[v] = size[v]
           /\ Witnessed /\ saw \subseteq saw'
<1>1. CASE \E u \in Volumes, i \in 1 .. Len(table) + 1 : Create(u, i)
  BY <1>1 DEF Create, Changed, Witnessed, ListingTypeOK
<1>2. CASE \E u \in Volumes, i \in DOMAIN table : Expand(u, i)
  BY <1>2 DEF Expand, Changed, Witnessed, ListingTypeOK
<1>3. CASE \E u \in Volumes : Delete(u) \/ Attach(u)
  BY <1>3 DEF Delete, Attach, Changed, Witnessed
<1>4. CASE Finish
  <2>1. capacity' = capacity /\ Witnessed /\ pending \in Volumes
    BY <1>4 DEF Finish, ListingTypeOK
  <2>2. size'[v] = size[v] \/ size'[v] = capacity[v] \/ size'[v] = 0
    BY <1>4, <2>1 DEF Finish, ListingTypeOK
  <2> QED
    BY <2>1, <2>2 DEF Witnessed
<1> QED
  BY <1>1, <1>2, <1>3, <1>4 DEF Change

(* What the call will say stays seen while the controllers go on.          *)
LEMMA ChangeKeepsSaw ==
    ASSUME ListingTypeOK, StoreOK, StoreOK', ReaderOK, SawOK, EntryIsTrue, Change, ChangeOK,
           UNCHANGED <<reader, entry, faults>>
    PROVE  SawOK' /\ EntryIsTrue'
<1>1. reader.rows \in Seq(Rows) /\ walk.spoilt \subseteq walk'.spoilt
  BY RecordTypes DEF ReaderRecords, ChangeOK
<1>2. Witnessed /\ saw \subseteq saw'
  BY DEF Change, Create, Delete, Expand, Attach, Finish, Changed, Witnessed
<1>3. EntryIsTrue'
  BY <1>1, <1>2 DEF EntryIsTrue
<1>4. ASSUME reader.at \in {"nodes", "stat"}, NEW v \in Ids(reader.rows)
      PROVE  <<v, FitClaim(v)'>> \in saw' /\ <<v, NodeClaim(v)'>> \in saw'
  <2>1. <<v, FitClaim(v)>> \in saw /\ v \in Volumes
    BY <1>1, <1>4, RowTypes DEF SawOK
  <2> QED
    BY <1>2, <1>4, <2>1, WitnessedSees
<1>5. ASSUME reader.at \in {"nodes", "stat"}, NEW i \in DOMAIN reader.rows,
             NEW v, v = reader.rows[i].id, v \in Blocks, NEW n, n = reader.rows[i].cap
      PROVE  /\ size'[v] = n => <<v, "fits">> \in saw'
             /\ capacity'[v] # n => <<v, "differs">> \in saw'
  <2>1. v \in Volumes /\ v \in Ids(reader.rows) /\ n > 0 /\ n \in Nat
    BY <1>1, <1>5, RowTypes, ListingAssumption
  <2>2. <<v, FitClaim(v)'>> \in saw'
    BY <1>4, <1>5, <2>1
  <2>3. /\ size[v] = n => <<v, "fits">> \in saw
        /\ capacity[v] # n => <<v, "differs">> \in saw
    BY <1>5 DEF SawOK
  <2>4. capacity[v] > 0 /\ capacity[v] \in Nat /\ size[v] \in Nat /\ size[v] <= capacity[v]
    BY <2>1, RecordTypes DEF ReaderOK, StoreOK
  <2>5. /\ size'[v] = size[v] \/ size'[v] = capacity'[v] \/ size'[v] = 0
        /\ \/ capacity'[v] = capacity[v]
           \/ capacity[v] = 0
           \/ capacity'[v] = capacity[v] + 1 /\ size'[v] = size[v]
    BY <2>1, ChangeOfVolume
  <2>6. ASSUME size'[v] = n PROVE <<v, "fits">> \in saw'
    <3>1. CASE size'[v] = size[v]
      BY <1>2, <2>3, <2>6, <3>1
    <3>2. CASE size'[v] = capacity'[v]
      <4>1. Fits(v)'
        BY <2>1, <2>6, <3>2 DEF Fits
      <4> QED
        BY <2>2, <4>1 DEF FitClaim
    <3> QED
      BY <2>1, <2>5, <2>6, <3>1, <3>2
  <2>7. ASSUME capacity'[v] # n PROVE <<v, "differs">> \in saw'
    <3>1. CASE capacity'[v] = capacity[v]
      BY <1>2, <2>3, <2>7, <3>1
    <3>2. CASE capacity'[v] = capacity[v] + 1 /\ size'[v] = size[v]
      <4>1. ~Fits(v)'
        BY <1>5, <2>4, <3>2 DEF Fits
      <4> QED
        BY <2>2, <4>1 DEF FitClaim
    <3> QED
      BY <2>4, <2>5, <3>1, <3>2
  <2> QED
    BY <2>6, <2>7
<1>6. SawOK'
  <2>1. Ids(reader.rows)' = Ids(reader.rows)
    BY DEF Ids
  <2> SUFFICES ASSUME reader.at \in {"nodes", "stat"}
               PROVE  SawOK'
    BY DEF SawOK
  <2>2. \A i \in DOMAIN reader.rows :
              reader.rows[i].id \in Blocks =>
                 /\ size'[reader.rows[i].id] = reader.rows[i].cap
                       => <<reader.rows[i].id, "fits">> \in saw'
                 /\ capacity'[reader.rows[i].id] # reader.rows[i].cap
                       => <<reader.rows[i].id, "differs">> \in saw'
    BY <1>5
  <2>3. reader.at = "stat" /\ (reader.get \/ "failed" \notin walk'.spoilt) =>
              <<Head(reader.rows).id, IF reader.nodes THEN "attached" ELSE "detached">> \in saw'
    BY <1>1, <1>2 DEF SawOK
  <2> QED
    BY <1>4, <2>1, <2>2, <2>3 DEF SawOK
<1> QED
  BY <1>3, <1>6

-----------------------------------------------------------------------------
(* What the readers do.  They leave the volumes as they are.               *)
LEMMA StoreStays ==
    ASSUME StoreOK, UNCHANGED storeVars
    PROVE  /\ StoreOK'
           /\ \A v \in Volumes : /\ (Live(v)' <=> Live(v)) /\ Place(v)' = Place(v)
                                 /\ FitClaim(v)' = FitClaim(v) /\ NodeClaim(v)' = NodeClaim(v)
BY DEF storeVars, StoreOK, Live, Place, Fits, FitClaim, NodeClaim

(* An idle call.                                                           *)
LEMMA IdleIs ==
    /\ Idle \in ReaderRecords /\ Idle.at = "idle" /\ ~Idle.get /\ Idle.rows = << >>
    /\ << >> \in Seq(Rows) /\ Ids(<< >>) = {}
BY ListingAssumption, FS_CardinalityType DEF Idle, ReaderRecords, All, Ids

(* Where a call goes on.                                                   *)
LEMMA ReadingIs ==
    ASSUME NEW r \in ReaderRecords, NEW rows \in Seq(Rows), NEW q, q = Reading(r, rows)
    PROVE  /\ q \in ReaderRecords
           /\ rows = << >> /\ r.get => q = Idle
           /\ ~(rows = << >> /\ r.get) =>
                 /\ q.get = r.get /\ q.start = r.start /\ q.limit = r.limit /\ q.rows = rows
                 /\ q.at = IF rows = << >> THEN "count" ELSE "nodes"
<1>1. CASE rows = << >> /\ r.get
  BY <1>1, IdleIs DEF Reading
<1>2. CASE ~(rows = << >> /\ r.get)
  <2>1. q = [r EXCEPT !.rows = rows, !.nodes = FALSE,
                      !.at = IF rows = << >> THEN "count" ELSE "nodes"]
    BY <1>2 DEF Reading
  <2>2. (IF rows = << >> THEN "count" ELSE "nodes") \in {"idle", "nodes", "stat", "count"}
    OBVIOUS
  <2> DEFINE at == IF rows = << >> THEN "count" ELSE "nodes"
  <2> HIDE DEF at
  <2>3. q \in ReaderRecords
    BY <2>1, <2>2 DEF ReaderRecords, at
  <2>4. q.get = r.get /\ q.start = r.start /\ q.limit = r.limit /\ q.rows = rows
    BY <2>1 DEF ReaderRecords
  <2>5. q.at = IF rows = << >> THEN "count" ELSE "nodes"
    BY <2>1 DEF ReaderRecords
  <2> QED
    BY <1>2, <2>3, <2>4, <2>5
<1> QED
  BY <1>1, <1>2

(* A page holds the rows at its places.                                    *)
LEMMA PageIs ==
    ASSUME ListingTypeOK, StoreOK, NEW start \in 0 .. Cardinality(Volumes),
           NEW limit \in 1 .. All, NEW rows, rows = PageOf(start, limit)
    PROVE  /\ rows \in Seq(Rows)
           /\ \A i, j \in DOMAIN rows : rows[i].id = rows[j].id => i = j
           /\ \A i \in DOMAIN rows : rows[i].cap = capacity[rows[i].id]
           /\ \A v \in Ids(rows) : Live(v) /\ start < Place(v) /\ Place(v) <= start + limit
           /\ \A v \in Volumes : Live(v) /\ start < Place(v) /\ Place(v) <= start + limit
                                    => v \in Ids(rows)
<1>1. /\ table \in Seq(Volumes) /\ IsInjective(table) /\ Len(table) \in Nat
      /\ DOMAIN table = 1 .. Len(table) /\ Cardinality(Volumes) \in Nat
  BY RecordTypes
<1>2. start \in Nat /\ limit \in Nat
  BY <1>1 DEF All
<1> DEFINE last == IF start + limit < Len(table) THEN start + limit ELSE Len(table)
           n == IF last > start THEN last - start ELSE 0
<1>3. /\ n \in Nat /\ \A i \in 1 .. n : start + i \in 1 .. Len(table) /\ i <= limit
      /\ \A i \in 1 .. Len(table) : start < i /\ i <= start + limit
                                       => i - start \in 1 .. n /\ start + (i - start) = i
  BY <1>1, <1>2
<1>4. rows = [i \in 1 .. n |-> RowOf(table[start + i])]
  BY DEF PageOf
<1> HIDE DEF n
<1>5. ASSUME NEW i \in 1 .. n
      PROVE  /\ rows[i] = RowOf(table[start + i]) /\ rows[i] \in Rows
             /\ rows[i].id = table[start + i] /\ rows[i].cap = capacity[table[start + i]]
             /\ Live(table[start + i]) /\ Place(table[start + i]) = start + i
             /\ table[start + i] \in Volumes
  <2>1. start + i \in DOMAIN table /\ table[start + i] \in Volumes
    BY <1>1, <1>3
  <2>2. Live(table[start + i]) /\ Place(table[start + i]) = start + i
    BY <1>1, <2>1, PlaceIsUnique DEF Live, Place, PlaceIn, ToSet
  <2>3. capacity[table[start + i]] \in 1 .. MaxChanges + 1
    BY <2>1, <2>2, ListingAssumption DEF StoreOK, ListingTypeOK
  <2> QED
    BY <1>4, <2>1, <2>2, <2>3 DEF RowOf, Rows
<1>6. DOMAIN rows = 1 .. n /\ rows \in Seq(Rows)
  BY <1>3, <1>4, <1>5
<1>7. \A i, j \in DOMAIN rows : rows[i].id = rows[j].id => i = j
  <2> SUFFICES ASSUME NEW i \in 1 .. n, NEW j \in 1 .. n, rows[i].id = rows[j].id
               PROVE  i = j
    BY <1>6
  <2>1. start + i \in DOMAIN table /\ start + j \in DOMAIN table
    BY <1>1, <1>3
  <2>2. start + i = start + j
    BY <1>1, <1>5, <2>1 DEF IsInjective
  <2>3. i = (start + i) - start /\ j = (start + j) - start
    BY <1>2, <1>3
  <2> QED
    BY <2>2, <2>3
<1>8. \A v \in Ids(rows) : Live(v) /\ start < Place(v) /\ Place(v) <= start + limit
  <2> SUFFICES ASSUME NEW i \in 1 .. n
               PROVE  /\ Live(rows[i].id) /\ start < Place(rows[i].id)
                      /\ Place(rows[i].id) <= start + limit
    BY <1>6 DEF Ids
  <2>1. Live(rows[i].id) /\ Place(rows[i].id) = start + i
    BY <1>5
  <2>2. start < start + i /\ start + i <= start + limit
    BY <1>2, <1>3
  <2> QED
    BY <2>1, <2>2
<1>9. ASSUME NEW v \in Volumes, Live(v), start < Place(v), Place(v) <= start + limit
      PROVE  v \in Ids(rows)
  <2>1. Place(v) \in 1 .. Len(table) /\ table[Place(v)] = v
    BY <1>1, <1>9, PlaceHolds DEF Live, Place, PlaceIn
  <2>2. Place(v) - start \in 1 .. n /\ start + (Place(v) - start) = Place(v)
    BY <1>3, <1>9, <2>1
  <2>3. rows[Place(v) - start].id = v
    BY <1>5, <2>1, <2>2
  <2> QED
    BY <1>6, <2>2, <2>3 DEF Ids
<1> QED
  BY <1>5, <1>6, <1>7, <1>8, <1>9

(* What a page does to the walk: it starts one or goes on with the one     *)
(* under way, and reads either the page or, where the query fails, no row. *)
LEMMA ListPageEffect ==
    ASSUME ListingTypeOK, StoreOK, ReaderOK, NEW start \in {0, walk.next} \ {End},
           NEW limit \in 1 .. All, ListPage(start, limit)
    PROVE  /\ reader.at = "idle" /\ start \in 0 .. Cardinality(Volumes) /\ entry' = NoEntry
           /\ \E rows \in Seq(Rows) :
                /\ rows = PageOf(start, limit) \/ (rows = << >> /\ "failed" \in walk'.spoilt)
                /\ reader' = Reading([Idle EXCEPT !.start = start, !.limit = limit], rows)
                /\ saw' = FactsOf(Ids(rows))
           /\ walk'.passed = start + limit /\ walk'.next = End
           /\ walk'.spoilt \subseteq Spoilers
           /\ \/ start = 0 /\ walk'.steady = ToSet(table)
                 /\ walk'.listed = [v \in Volumes |-> 0]
              \/ start = walk.next /\ start # End /\ walk'.steady = walk.steady
                 /\ walk'.listed = walk.listed /\ walk.spoilt \subseteq walk'.spoilt
           /\ walk' \in WalkRecords /\ faults' \in 0 .. MaxFaults
<1>1. /\ walk \in WalkRecords /\ Cardinality(Volumes) \in Nat
      /\ ToSet(table) \subseteq Volumes
  BY RecordTypes
<1>2. start \in 0 .. Cardinality(Volumes)
  BY <1>1 DEF WalkRecords, End
<1>3. PageOf(start, limit) \in Seq(Rows) /\ << >> \in Seq(Rows)
  BY <1>2, PageIs
<1>4. [v \in Volumes |-> 0] \in [Volumes -> 0 .. Cardinality(Volumes)]
  BY <1>1
<1>5. start + limit \in Nat
  BY <1>1, <1>2 DEF All
<1>6. NoWalk.spoilt = {} /\ NoWalk \in WalkRecords /\ NoWalk.listed = [v \in Volumes |-> 0]
  BY <1>1, <1>4 DEF NoWalk, WalkRecords, End
<1> DEFINE w == IF start = 0 THEN [NoWalk EXCEPT !.steady = ToSet(table)] ELSE walk
<1>7. /\ w \in WalkRecords
      /\ \/ start = 0 /\ w.steady = ToSet(table) /\ w.spoilt = {}
            /\ w.listed = [v \in Volumes |-> 0]
         \/ start = walk.next /\ w = walk
  <2>1. CASE start = 0
    BY <1>1, <1>6, <2>1 DEF WalkRecords
  <2>2. CASE start # 0
    BY <1>1, <2>2
  <2> QED
    BY <2>1, <2>2
<1>8. /\ reader.at = "idle" /\ entry' = NoEntry
      /\ \/ /\ reader' = Reading([Idle EXCEPT !.start = start, !.limit = limit],
                                 PageOf(start, limit))
            /\ saw' = FactsOf(Ids(PageOf(start, limit))) /\ QueryWorks
            /\ walk' = [w EXCEPT !.passed = start + limit, !.next = End]
         \/ /\ reader' = Reading([Idle EXCEPT !.start = start, !.limit = limit], << >>)
            /\ saw' = FactsOf(Ids(<< >>)) /\ QueryFails
            /\ walk' = [w EXCEPT !.passed = start + limit, !.next = End,
                                 !.spoilt = w.spoilt \cup {"failed"}]
  BY DEF ListPage, Ids
<1> HIDE DEF w
<1>9. /\ walk'.passed = start + limit /\ walk'.next = End /\ walk' \in WalkRecords
      /\ walk'.steady = w.steady /\ walk'.listed = w.listed
      /\ walk'.spoilt = w.spoilt \/ walk'.spoilt = w.spoilt \cup {"failed"}
  <2>1. End \in End .. Cardinality(Volumes) /\ w.spoilt \cup {"failed"} \subseteq Spoilers
    BY <1>1, <1>7 DEF WalkRecords, End, Spoilers
  <2>2. CASE walk' = [w EXCEPT !.passed = start + limit, !.next = End]
    BY <1>5, <1>7, <2>1, <2>2 DEF WalkRecords
  <2>3. CASE walk' = [w EXCEPT !.passed = start + limit, !.next = End,
                               !.spoilt = w.spoilt \cup {"failed"}]
    BY <1>5, <1>7, <2>1, <2>3 DEF WalkRecords
  <2> QED
    BY <1>8, <2>2, <2>3
<1>10. faults' \in 0 .. MaxFaults
  BY <1>8, ListingAssumption DEF QueryWorks, QueryFails, ListingTypeOK
<1>11. \E rows \in Seq(Rows) :
          /\ rows = PageOf(start, limit) \/ (rows = << >> /\ "failed" \in walk'.spoilt)
          /\ reader' = Reading([Idle EXCEPT !.start = start, !.limit = limit], rows)
          /\ saw' = FactsOf(Ids(rows))
  <2>1. CASE reader' = Reading([Idle EXCEPT !.start = start, !.limit = limit],
                               PageOf(start, limit))
             /\ saw' = FactsOf(Ids(PageOf(start, limit)))
    BY <1>3, <2>1
  <2>2. CASE /\ reader' = Reading([Idle EXCEPT !.start = start, !.limit = limit], << >>)
             /\ saw' = FactsOf(Ids(<< >>))
             /\ walk' = [w EXCEPT !.passed = start + limit, !.next = End,
                                  !.spoilt = w.spoilt \cup {"failed"}]
    <3>1. "failed" \in walk'.spoilt
      BY <1>7, <2>2 DEF WalkRecords
    <3> QED
      BY <1>3, <2>2, <3>1
  <2> QED
    BY <1>8, <2>1, <2>2
<1>12. walk'.spoilt \subseteq Spoilers /\ w.spoilt \subseteq walk'.spoilt
  BY <1>9 DEF WalkRecords
<1>13. start # End
  BY <1>1 DEF End
<1>14. \/ start = 0 /\ walk'.steady = ToSet(table) /\ walk'.listed = [v \in Volumes |-> 0]
       \/ start = walk.next /\ start # End /\ walk'.steady = walk.steady
          /\ walk'.listed = walk.listed /\ walk.spoilt \subseteq walk'.spoilt
  BY <1>7, <1>9, <1>12, <1>13
<1> QED
  BY <1>2, <1>8, <1>9, <1>10, <1>11, <1>12, <1>14

(* What is true of some volumes.                                           *)
LEMMA FactsAre ==
    ASSUME NEW vs
    PROVE  /\ FactsOf(vs) \subseteq Volumes \X Claims
           /\ \A v \in Volumes : v \in vs => /\ <<v, FitClaim(v)>> \in FactsOf(vs)
                                             /\ <<v, NodeClaim(v)>> \in FactsOf(vs)
<1>1. Facts = {<<v, FitClaim(v)>> : v \in Volumes} \cup {<<v, NodeClaim(v)>> : v \in Volumes}
  BY DEF Facts, FitClaim, NodeClaim
<1>2. \A v : FitClaim(v) \in Claims /\ NodeClaim(v) \in Claims
  BY DEF FitClaim, NodeClaim, Claims
<1>3. Facts \subseteq Volumes \X Claims
  BY <1>1, <1>2
<1>4. \A v \in Volumes : <<v, FitClaim(v)>> \in Facts /\ <<v, NodeClaim(v)>> \in Facts
  BY <1>1
<1>5. \A v, c : <<v, c>>[1] = v
  OBVIOUS
<1> QED
  BY <1>3, <1>4, <1>5 DEF FactsOf

(* An entry that says nothing.                                             *)
LEMMA NoEntryIs ==
    /\ NoEntry \in [id: Volumes \cup {Nobody}, get: BOOLEAN, nodes: BOOLEAN, ok: BOOLEAN]
    /\ NoEntry.id = Nobody
BY DEF NoEntry

(* A place.                                                                *)
LEMMA PlaceType ==
    ASSUME ListingTypeOK, NEW v, Live(v)
    PROVE  Place(v) \in Nat /\ 0 < Place(v) /\ Place(v) <= Len(table)
<1>1. DOMAIN table = 1 .. Len(table) /\ Len(table) \in Nat
  BY RecordTypes
<1>2. Place(v) \in DOMAIN table
  BY PlaceHolds DEF Live, Place, PlaceIn
<1> QED
  BY <1>1, <1>2

(* A page keeps the invariant.                                             *)
LEMMA ListPageKeeps ==
    ASSUME ListingTypeOK, StoreOK, CallInv, UNCHANGED storeVars,
           NEW start \in {0, walk.next} \ {End}, NEW limit \in 1 .. All, ListPage(start, limit)
    PROVE  ReaderTypes' /\ CallInv'
<1>1. /\ reader.at = "idle" /\ start \in 0 .. Cardinality(Volumes) /\ entry' = NoEntry
      /\ walk'.passed = start + limit /\ walk'.next = End
      /\ walk' \in WalkRecords /\ faults' \in 0 .. MaxFaults
      /\ \/ start = 0 /\ walk'.steady = ToSet(table)
            /\ walk'.listed = [v \in Volumes |-> 0]
         \/ start = walk.next /\ start # End /\ walk'.steady = walk.steady
            /\ walk'.listed = walk.listed /\ walk.spoilt \subseteq walk'.spoilt
  BY ListPageEffect DEF CallInv
<1>2. PICK rows \in Seq(Rows) :
          /\ rows = PageOf(start, limit) \/ (rows = << >> /\ "failed" \in walk'.spoilt)
          /\ reader' = Reading([Idle EXCEPT !.start = start, !.limit = limit], rows)
          /\ saw' = FactsOf(Ids(rows))
  BY ListPageEffect DEF CallInv
<1>3. /\ Cardinality(Volumes) \in Nat /\ ToSet(table) \subseteq Volumes
      /\ \A v \in Volumes : walk.listed[v] \in Nat /\ capacity[v] \in Nat
  BY RecordTypes
<1>4. start \in Nat /\ limit \in Nat /\ limit > 0 /\ start # End
  BY <1>1, <1>3 DEF All, End
<1>5. /\ reader' \in ReaderRecords /\ ~reader'.get
      /\ reader'.start = start /\ reader'.limit = limit /\ reader'.rows = rows
      /\ reader'.at = IF rows = << >> THEN "count" ELSE "nodes"
  <2>1. PICK r : r = [Idle EXCEPT !.start = start, !.limit = limit]
    OBVIOUS
  <2>2. limit \in 0 .. All
    BY <1>3, <1>4 DEF All
  <2>3. r \in ReaderRecords /\ ~r.get /\ r.start = start /\ r.limit = limit
    BY <1>1, <2>1, <2>2, IdleIs DEF ReaderRecords
  <2>4. reader' = Reading(r, rows)
    BY <1>2, <2>1
  <2> QED
    BY <1>2, <2>3, <2>4, ReadingIs
<1>6. Ids(rows) \subseteq Volumes /\ Due' = Ids(rows) /\ Ids(reader'.rows) = Ids(rows)
  BY <1>2, <1>5, RowTypes DEF Due
<1>7. /\ \A i, j \in DOMAIN rows : rows[i].id = rows[j].id => i = j
      /\ \A i \in DOMAIN rows : rows[i].cap = capacity[rows[i].id]
      /\ \A v \in Ids(rows) : Live(v) /\ start < Place(v) /\ Place(v) <= start + limit
      /\ "failed" \notin walk'.spoilt =>
            \A v \in Volumes : Live(v) /\ start < Place(v) /\ Place(v) <= start + limit
                                  => v \in Ids(rows)
  <2>1. CASE rows = PageOf(start, limit)
    BY <1>1, <2>1, PageIs
  <2>2. CASE rows = << >> /\ "failed" \in walk'.spoilt
    BY <2>2, IdleIs
  <2> QED
    BY <1>2, <2>1, <2>2
<1>8. /\ \A v \in Volumes : (Live(v)' <=> Live(v)) /\ Place(v)' = Place(v)
      /\ \A v \in Volumes : FitClaim(v)' = FitClaim(v) /\ NodeClaim(v)' = NodeClaim(v)
      /\ capacity' = capacity /\ size' = size
  BY StoreStays DEF storeVars
<1>9. \A v \in Volumes : Live(v) => capacity[v] > 0
  BY DEF StoreOK
<1>10. ASSUME start # 0
       PROVE  /\ start = walk.next /\ walk.passed = start /\ start < Cardinality(Volumes)
              /\ \A v \in Volumes : walk.listed[v] <= start
              /\ Due = {}
  <2>1. start = walk.next /\ start # End
    BY <1>1, <1>10
  <2>2. reader.rows = << >>
    BY <1>1 DEF CallInv, ReaderOK
  <2>3. walk.passed = start /\ start < Cardinality(Volumes)
    BY <2>1 DEF CallInv, ReaderOK
  <2>4. \A v \in Volumes : walk.listed[v] <= start
    BY <2>1 DEF CallInv, ListedOK
  <2>5. Due = {}
    BY <2>2, IdleIs DEF Due
  <2> QED
    BY <2>1, <2>3, <2>4, <2>5
<1>11. start = 0 => walk'.listed = [v \in Volumes |-> 0]
  BY <1>1, <1>4 DEF CallInv, ReaderOK
<1>12. ReaderTypes'
  BY <1>1, <1>2, <1>5, FactsAre, NoEntryIs DEF ReaderTypes
<1>13. ReaderOK'
  BY <1>1, <1>4, <1>5, <1>6, <1>7, <1>8, <1>9, <1>10 DEF ReaderOK
<1>14. ListedOK'
  <2>1. ASSUME NEW v \in Volumes PROVE walk'.listed[v] + (IF v \in Due' THEN 1 ELSE 0) <= start + 1
    BY <1>1, <1>3, <1>4, <1>10, <1>11
  <2> QED
    BY <1>1, <1>5, <2>1 DEF ListedOK
<1>15. OnceOK'
  <2>1. ASSUME NEW v \in Volumes, walk'.listed[v] > 0 \/ v \in Ids(rows) PROVE capacity[v] > 0
    <3>1. CASE v \in Ids(rows)
      BY <1>7, <1>9, <3>1
    <3>2. CASE walk'.listed[v] > 0
      BY <1>1, <1>11, <3>2 DEF CallInv, OnceOK
    <3> QED
      BY <2>1, <3>1, <3>2
  <2>2. ASSUME walk'.spoilt \cap {"inserted", "moved"} = {}, NEW v \in Volumes
        PROVE  /\ walk'.listed[v] <= 1
               /\ v \in Ids(rows) => walk'.listed[v] = 0
               /\ (walk'.listed[v] > 0 \/ v \in Ids(rows)) /\ Live(v) => Place(v) <= start + limit
    <3>1. CASE start = 0
      BY <1>7, <1>11, <3>1
    <3>2. CASE start # 0
      <4>1. walk.spoilt \subseteq walk'.spoilt /\ walk'.listed = walk.listed /\ walk.passed = start
        BY <1>1, <1>10, <3>2
      <4>2. /\ walk.listed[v] <= 1
            /\ walk.listed[v] > 0 /\ Live(v) => Place(v) <= start
        BY <2>2, <4>1 DEF CallInv, OnceOK
      <4>3. v \in Ids(rows) => Live(v) /\ start < Place(v) /\ Place(v) <= start + limit
        BY <1>7
      <4>4. Live(v) => Place(v) \in Nat
        BY PlaceType
      <4> QED
        BY <1>3, <1>4, <4>1, <4>2, <4>3, <4>4
    <3> QED
      BY <3>1, <3>2
  <2> QED
    BY <1>1, <1>6, <1>8, <2>1, <2>2 DEF OnceOK
<1>16. AllOK'
  <2>1. \A v \in walk'.steady : v \in Volumes /\ Live(v)
    BY <1>1, <1>3 DEF CallInv, AllOK, Live, WalkRecords
  <2>2. ASSUME walk'.spoilt \cap {"removed", "moved", "failed"} = {}, NEW v \in walk'.steady,
               Place(v) <= start + limit
        PROVE  walk'.listed[v] > 0 \/ v \in Ids(rows)
    <3>1. CASE start < Place(v)
      BY <1>7, <2>1, <2>2, <3>1
    <3>2. CASE Place(v) <= start
      <4>1. start # 0
        BY <1>4, <2>1, <3>2, PlaceType
      <4>2. /\ walk.spoilt \subseteq walk'.spoilt /\ walk'.listed = walk.listed
            /\ walk'.steady = walk.steady /\ walk.passed = start /\ Due = {}
        BY <1>1, <1>10, <4>1
      <4> QED
        BY <2>2, <3>2, <4>2 DEF CallInv, AllOK
    <3>3. Place(v) \in Nat
      BY <2>1, PlaceType
    <3> QED
      BY <1>4, <3>1, <3>2, <3>3
  <2> QED
    BY <1>1, <1>6, <1>8, <2>1, <2>2 DEF AllOK
<1>17. SawOK'
  <2>1. \A v \in Ids(rows) : <<v, FitClaim(v)>> \in saw' /\ <<v, NodeClaim(v)>> \in saw'
    BY <1>2, <1>6, FactsAre
  <2>2. ASSUME NEW i \in DOMAIN rows, rows[i].id \in Blocks, size[rows[i].id] = rows[i].cap
        PROVE  <<rows[i].id, "fits">> \in saw'
    <3>1. rows[i].id \in Ids(rows) /\ rows[i].cap > 0 /\ rows[i].cap = capacity[rows[i].id]
      BY <1>2, <1>7, RowTypes
    <3>2. FitClaim(rows[i].id) = "fits"
      BY <2>2, <3>1 DEF FitClaim, Fits
    <3> QED
      BY <2>1, <3>1, <3>2
  <2> QED
    BY <1>5, <1>6, <1>7, <1>8, <2>1, <2>2 DEF SawOK
<1>18. EntryIsTrue' /\ WalkIsComplete'
  BY <1>1, <1>5, NoEntryIs DEF EntryIsTrue, WalkIsComplete, WalkEnded
<1> QED
  BY <1>12, <1>13, <1>14, <1>15, <1>16, <1>17, <1>18 DEF CallInv

(* A query works or fails.                                                 *)
LEMMA FaultsType ==
    ASSUME ListingTypeOK, QueryWorks \/ QueryFails
    PROVE  faults' \in 0 .. MaxFaults
<1>1. faults \in 0 .. MaxFaults /\ MaxFaults \in Nat
  BY ListingAssumption DEF ListingTypeOK
<1> QED
  BY <1>1 DEF QueryWorks, QueryFails

(* A walk that has not begun.                                              *)
LEMMA NoWalkIs ==
    /\ NoWalk \in WalkRecords /\ NoWalk.next = End /\ NoWalk.passed = 0
    /\ NoWalk.steady = {} /\ NoWalk.spoilt = {}
    /\ \A v \in Volumes : NoWalk.listed[v] = 0
<1>1. Cardinality(Volumes) \in Nat
  BY ListingAssumption, FS_CardinalityType
<1>2. [v \in Volumes |-> 0] \in [Volumes -> 0 .. Cardinality(Volumes)]
  BY <1>1
<1> QED
  BY <1>1, <1>2 DEF NoWalk, WalkRecords, End

(* ControllerGetVolume's row keeps the invariant.                          *)
LEMMA GetRowKeeps ==
    ASSUME ListingTypeOK, StoreOK, CallInv, UNCHANGED storeVars, NEW v \in Volumes, GetRow(v)
    PROVE  ReaderTypes' /\ CallInv'
<1>1. /\ reader.at = "idle" /\ entry' = NoEntry /\ walk' = NoWalk
      /\ faults' \in 0 .. MaxFaults /\ reader.rows = << >>
  BY FaultsType DEF GetRow, CallInv, ReaderOK
<1>2. \/ reader' = reader /\ saw' = saw
      \/ /\ Live(v) /\ saw' = FactsOf({v})
         /\ reader' = Reading([Idle EXCEPT !.get = TRUE], <<RowOf(v)>>)
  BY DEF GetRow
<1>3. reader \in ReaderRecords /\ capacity[v] \in Nat
  BY RecordTypes
<1>4. /\ \A u \in Volumes : FitClaim(u)' = FitClaim(u) /\ NodeClaim(u)' = NodeClaim(u)
      /\ capacity' = capacity /\ size' = size
  BY StoreStays DEF storeVars
<1>5. /\ walk' \in WalkRecords /\ walk'.next = End /\ walk'.passed = 0
      /\ walk'.steady = {} /\ \A u \in Volumes : walk'.listed[u] = 0
  BY <1>1, NoWalkIs
<1>6. CASE reader' = reader /\ saw' = saw
  <2>1. ReaderTypes'
    BY <1>1, <1>3, <1>5, <1>6, NoEntryIs DEF ReaderTypes, ListingTypeOK
  <2>2. Ids(reader'.rows) = {} /\ Due' = {}
    BY <1>1, <1>6, IdleIs DEF Due
  <2>3. ReaderOK'
    BY <1>1, <1>5, <1>6, <2>2 DEF ReaderOK
  <2>4. ListedOK' /\ OnceOK' /\ AllOK' /\ SawOK' /\ EntryIsTrue' /\ WalkIsComplete'
    BY <1>1, <1>5, <1>6, <2>2, NoEntryIs
       DEF ListedOK, OnceOK, AllOK, SawOK, EntryIsTrue, WalkIsComplete, WalkEnded
  <2> QED
    BY <2>1, <2>3, <2>4 DEF CallInv
<1>7. CASE /\ Live(v) /\ saw' = FactsOf({v})
           /\ reader' = Reading([Idle EXCEPT !.get = TRUE], <<RowOf(v)>>)
  <2>1. capacity[v] \in 1 .. MaxChanges + 1 /\ capacity[v] > 0
    BY <1>3, <1>7, ListingAssumption DEF StoreOK, ListingTypeOK
  <2>2. PICK rows : rows = <<RowOf(v)>>
    OBVIOUS
  <2>3. /\ rows \in Seq(Rows) /\ rows # << >> /\ DOMAIN rows = {1} /\ Ids(rows) = {v}
        /\ rows[1].id = v /\ rows[1].cap = capacity[v]
    BY <2>1, <2>2 DEF RowOf, Rows, Ids
  <2>4. PICK r : r = [Idle EXCEPT !.get = TRUE]
    OBVIOUS
  <2>5. r \in ReaderRecords /\ r.get
    BY <2>4, IdleIs DEF ReaderRecords
  <2>6. reader' \in ReaderRecords /\ reader'.get /\ reader'.rows = rows /\ reader'.at = "nodes"
    <3>1. reader' = Reading(r, rows)
      BY <1>7, <2>2, <2>4
    <3> QED
      BY <2>3, <2>5, <3>1, ReadingIs
  <2>7. Due' = {} /\ Ids(reader'.rows) = {v}
    BY <2>3, <2>6 DEF Due
  <2>8. <<v, FitClaim(v)>> \in saw' /\ <<v, NodeClaim(v)>> \in saw'
    BY <1>7, FactsAre
  <2>9. ReaderTypes'
    BY <1>1, <1>5, <1>7, <2>6, FactsAre, NoEntryIs DEF ReaderTypes
  <2>10. ReaderOK'
    BY <1>4, <1>5, <2>1, <2>3, <2>6, <2>7 DEF ReaderOK
  <2>11. SawOK'
    <3>1. v \in Blocks /\ size[v] = capacity[v] => FitClaim(v) = "fits"
      BY <2>1 DEF FitClaim, Fits
    <3> QED
      BY <1>4, <2>3, <2>6, <2>7, <2>8, <3>1 DEF SawOK
  <2>12. ListedOK' /\ OnceOK' /\ AllOK' /\ EntryIsTrue' /\ WalkIsComplete'
    BY <1>1, <1>5, <2>6, <2>7, NoEntryIs
       DEF ListedOK, OnceOK, AllOK, EntryIsTrue, WalkIsComplete, WalkEnded
  <2> QED
    BY <2>9, <2>10, <2>11, <2>12 DEF CallInv
<1> QED
  BY <1>2, <1>6, <1>7

(* The nodes of a row keep it.                                             *)
LEMMA ReadNodesKeeps ==
    ASSUME ListingTypeOK, StoreOK, CallInv, UNCHANGED storeVars, ReadNodes
    PROVE  ReaderTypes' /\ CallInv'
<1> DEFINE v == Head(reader.rows).id
<1>1. /\ reader.at = "nodes" /\ entry' = NoEntry /\ reader.rows # << >>
      /\ saw' = {f \in saw : \E i \in DOMAIN reader.rows : reader.rows[i].id = f[1]}
  BY DEF ReadNodes, CallInv, ReaderOK
<1>2. /\ reader \in ReaderRecords /\ walk \in WalkRecords /\ reader.rows \in Seq(Rows)
  BY RecordTypes DEF ReaderRecords
<1>3. v \in Volumes /\ v \in Ids(reader.rows)
  <2>1. 1 \in DOMAIN reader.rows /\ Head(reader.rows) = reader.rows[1]
    BY <1>1, <1>2
  <2> QED
    BY <1>2, <2>1, RowTypes
<1> HIDE DEF v
<1>4. \A u, c : u \in Ids(reader.rows) /\ <<u, c>> \in saw => <<u, c>> \in saw'
  BY <1>1 DEF Ids
<1>5. /\ \A u \in Volumes : /\ (Live(u)' <=> Live(u)) /\ Place(u)' = Place(u)
                            /\ FitClaim(u)' = FitClaim(u) /\ NodeClaim(u)' = NodeClaim(u)
      /\ capacity' = capacity /\ size' = size
  BY StoreStays DEF storeVars
<1>6. faults' \in 0 .. MaxFaults
  BY FaultsType DEF ReadNodes
<1>7. Ids(reader.rows) \subseteq Volumes /\ walk.steady \subseteq Volumes
  BY <1>2, RowTypes DEF WalkRecords
<1>8. CASE reader.get /\ reader' = Idle /\ walk' = walk
  <2>1. ReaderTypes'
    BY <1>1, <1>2, <1>6, <1>8, NoEntryIs, IdleIs DEF ReaderTypes, ListingTypeOK
  <2>2. Ids(reader'.rows) = {} /\ Due' = {} /\ Due = {}
    BY <1>8, IdleIs DEF Due
  <2>3. /\ walk.passed = 0 /\ walk.next = End /\ \A u \in Volumes : walk.listed[u] = 0
    BY <1>1, <1>8 DEF CallInv, ReaderOK
  <2>4. ReaderOK' /\ ListedOK' /\ SawOK' /\ EntryIsTrue' /\ WalkIsComplete'
    BY <1>1, <1>8, <2>2, <2>3, IdleIs, NoEntryIs
       DEF ReaderOK, ListedOK, SawOK, EntryIsTrue, WalkIsComplete, WalkEnded
  <2>5. OnceOK' /\ AllOK'
    BY <1>5, <1>7, <1>8, <2>2, <2>3 DEF CallInv, OnceOK, AllOK
  <2> QED
    BY <2>1, <2>4, <2>5 DEF CallInv
<1>9. ASSUME NEW yes \in BOOLEAN, reader' = [reader EXCEPT !.at = "stat", !.nodes = yes],
             \/ yes = (v \in attached) /\ walk' = walk
             \/ ~reader.get /\ walk' = Spoil({"failed"})
      PROVE  ReaderTypes' /\ CallInv'
  <2>1. /\ reader' \in ReaderRecords /\ reader'.at = "stat" /\ reader'.nodes = yes
        /\ reader'.get = reader.get /\ reader'.start = reader.start
        /\ reader'.limit = reader.limit /\ reader'.rows = reader.rows
    BY <1>2, <1>9 DEF ReaderRecords
  <2>2. /\ walk' \in WalkRecords /\ walk'.next = walk.next /\ walk'.passed = walk.passed
        /\ walk'.steady = walk.steady /\ walk'.listed = walk.listed
        /\ walk.spoilt \subseteq walk'.spoilt
        /\ yes = (v \in attached) \/ (~reader.get /\ "failed" \in walk'.spoilt)
    BY <1>2, <1>9 DEF Spoil, WalkRecords, Spoilers
  <2>3. Ids(reader'.rows) = Ids(reader.rows) /\ Due' = Due
    BY <2>1 DEF Due
  <2>4. ReaderTypes'
    BY <1>1, <1>6, <2>1, <2>2, NoEntryIs DEF ReaderTypes, ListingTypeOK
  <2>5. ReaderOK'
    BY <1>1, <1>5, <2>1, <2>2, <2>3 DEF CallInv, ReaderOK
  <2>6. ListedOK'
    BY <1>1, <2>1, <2>2, <2>3 DEF CallInv, ListedOK
  <2>7. OnceOK'
    BY <1>5, <2>2, <2>3 DEF CallInv, OnceOK
  <2>8. AllOK'
    BY <1>5, <1>7, <2>2, <2>3 DEF CallInv, AllOK
  <2>9. SawOK'
    <3>1. \A u \in Ids(reader.rows) : <<u, FitClaim(u)>> \in saw' /\ <<u, NodeClaim(u)>> \in saw'
      BY <1>1, <1>4 DEF CallInv, SawOK
    <3>2. \A i \in DOMAIN reader.rows :
              reader.rows[i].id \in Blocks =>
                 /\ size[reader.rows[i].id] = reader.rows[i].cap
                       => <<reader.rows[i].id, "fits">> \in saw'
                 /\ capacity[reader.rows[i].id] # reader.rows[i].cap
                       => <<reader.rows[i].id, "differs">> \in saw'
      BY <1>1, <1>2, <1>4, RowTypes DEF CallInv, SawOK
    <3>3. reader.get \/ "failed" \notin walk'.spoilt =>
              <<v, IF yes THEN "attached" ELSE "detached">> \in saw'
      BY <1>3, <2>2, <3>1 DEF NodeClaim
    <3> QED
      BY <1>5, <1>7, <2>1, <2>3, <3>1, <3>2, <3>3 DEF SawOK, v
  <2>10. EntryIsTrue' /\ WalkIsComplete'
    BY <1>1, <2>1, NoEntryIs DEF EntryIsTrue, WalkIsComplete, WalkEnded
  <2> QED
    BY <2>4, <2>5, <2>6, <2>7, <2>8, <2>9, <2>10 DEF CallInv
<1>10. \/ reader' = [reader EXCEPT !.at = "stat", !.nodes = v \in attached] /\ walk' = walk
       \/ reader.get /\ reader' = Idle /\ walk' = walk
       \/ /\ ~reader.get /\ walk' = Spoil({"failed"})
          /\ reader' = [reader EXCEPT !.at = "stat", !.nodes = FALSE]
  <2>1. /\ reader.at = "nodes"
        /\ \/ /\ reader' = [reader EXCEPT !.at = "stat", !.nodes = v \in attached]
              /\ QueryWorks /\ UNCHANGED walk
           \/ reader.get /\ reader' = Idle /\ QueryFails /\ UNCHANGED walk
           \/ /\ ~reader.get /\ reader' = [reader EXCEPT !.at = "stat", !.nodes = FALSE]
              /\ QueryFails /\ walk' = Spoil({"failed"})
        /\ entry' = NoEntry
        /\ saw' = {f \in saw : \E i \in DOMAIN reader.rows : reader.rows[i].id = f[1]}
    BY DEF ReadNodes, v
  <2> QED
    BY <2>1, Zenon
<1>11. (v \in attached) = TRUE \/ (v \in attached) = FALSE
  OBVIOUS
<1>12. CASE reader' = [reader EXCEPT !.at = "stat", !.nodes = v \in attached] /\ walk' = walk
  <2>1. CASE (v \in attached) = TRUE
    BY <1>9, <1>12, <2>1
  <2>2. CASE (v \in attached) = FALSE
    BY <1>9, <1>12, <2>2
  <2> QED
    BY <1>11, <2>1, <2>2
<1>13. CASE /\ ~reader.get /\ walk' = Spoil({"failed"})
            /\ reader' = [reader EXCEPT !.at = "stat", !.nodes = FALSE]
  BY <1>9, <1>13
<1> QED
  BY <1>8, <1>10, <1>12, <1>13

(* The rows that are left after the first.                                 *)
LEMMA TailIs ==
    ASSUME NEW rows \in Seq(Rows), rows # << >>,
           \A i, j \in DOMAIN rows : rows[i].id = rows[j].id => i = j
    PROVE  /\ Head(rows) = rows[1] /\ 1 \in DOMAIN rows
           /\ Tail(rows) \in Seq(Rows)
           /\ \A i \in DOMAIN Tail(rows) : i + 1 \in DOMAIN rows /\ Tail(rows)[i] = rows[i + 1]
           /\ \A i, j \in DOMAIN Tail(rows) : Tail(rows)[i].id = Tail(rows)[j].id => i = j
           /\ Ids(rows) = Ids(Tail(rows)) \cup {Head(rows).id}
           /\ Head(rows).id \notin Ids(Tail(rows))
<1>1. DOMAIN rows = 1 .. Len(rows) /\ Len(rows) \in Nat /\ Len(rows) > 0
  BY EmptySeq
<1>2. /\ Head(rows) = rows[1] /\ Tail(rows) \in Seq(Rows)
      /\ DOMAIN Tail(rows) = 1 .. Len(rows) - 1
      /\ \A i \in 1 .. Len(rows) - 1 : Tail(rows)[i] = rows[i + 1]
  BY <1>1
<1>3. PICK t : t = Tail(rows)
  OBVIOUS
<1>4. \A i \in DOMAIN t : i + 1 \in DOMAIN rows /\ i + 1 # 1 /\ t[i] = rows[i + 1]
  BY <1>1, <1>2, <1>3
<1>5. ASSUME NEW i \in DOMAIN t, NEW j \in DOMAIN t, t[i].id = t[j].id PROVE i = j
  <2>1. i + 1 = j + 1
    BY <1>4, <1>5
  <2> QED
    BY <1>1, <1>2, <1>3, <2>1
<1>6. Ids(t) \subseteq Ids(rows) /\ rows[1].id \in Ids(rows)
  BY <1>1, <1>4 DEF Ids
<1>7. \A u \in Ids(rows) : u \in Ids(t) \cup {rows[1].id}
  <2> SUFFICES ASSUME NEW i \in DOMAIN rows, i # 1 PROVE rows[i].id \in Ids(t)
    BY DEF Ids
  <2>1. i - 1 \in DOMAIN t /\ t[i - 1] = rows[i]
    BY <1>1, <1>2, <1>3
  <2> QED
    BY <2>1 DEF Ids
<1>8. rows[1].id \notin Ids(t)
  BY <1>1, <1>4 DEF Ids
<1>9. Ids(rows) = Ids(t) \cup {rows[1].id}
  BY <1>6, <1>7
<1> QED
  BY <1>1, <1>2, <1>3, <1>4, <1>5, <1>8, <1>9

(* The path of a row, which makes the entry, keeps it.                     *)
LEMMA ReadPathKeeps ==
    ASSUME ListingTypeOK, StoreOK, CallInv, UNCHANGED storeVars, ReadPath
    PROVE  ReaderTypes' /\ CallInv'
<1>1. /\ reader \in ReaderRecords /\ walk \in WalkRecords /\ reader.rows \in Seq(Rows)
      /\ \A u \in Volumes : walk.listed[u] \in Nat /\ capacity[u] \in Nat /\ size[u] \in Nat
      /\ Cardinality(Volumes) \in Nat
  BY RecordTypes DEF ReaderRecords
<1>2. reader.at = "stat" /\ reader.rows # << >> /\ UNCHANGED <<saw, faults>>
  BY DEF ReadPath, CallInv, ReaderOK
<1>3. PICK row : row = Head(reader.rows)
  OBVIOUS
<1>4. PICK rows : rows = Tail(reader.rows)
  OBVIOUS
<1>5. /\ row = reader.rows[1] /\ 1 \in DOMAIN reader.rows /\ rows \in Seq(Rows)
      /\ \A i \in DOMAIN rows : i + 1 \in DOMAIN reader.rows /\ rows[i] = reader.rows[i + 1]
      /\ \A i, j \in DOMAIN rows : rows[i].id = rows[j].id => i = j
      /\ Ids(reader.rows) = Ids(rows) \cup {row.id} /\ row.id \notin Ids(rows)
  BY <1>1, <1>2, <1>3, <1>4, TailIs DEF CallInv, ReaderOK
<1>6. row.id \in Volumes /\ row.cap > 0 /\ Ids(reader.rows) \subseteq Volumes
  BY <1>1, <1>5, RowTypes
<1>7. /\ entry' = [id |-> row.id, get |-> reader.get, nodes |-> reader.nodes,
                   ok |-> Normal(row)]
      /\ walk' = IF reader.get THEN walk ELSE [walk EXCEPT !.listed[row.id] = @ + 1]
      /\ reader' = Reading(reader, rows)
  BY <1>3, <1>4 DEF ReadPath
<1>8. /\ \A u \in Volumes : /\ (Live(u)' <=> Live(u)) /\ Place(u)' = Place(u)
                            /\ FitClaim(u)' = FitClaim(u) /\ NodeClaim(u)' = NodeClaim(u)
      /\ capacity' = capacity /\ size' = size
  BY StoreStays DEF storeVars
<1>9. /\ reader' \in ReaderRecords
      /\ \/ reader' = Idle /\ reader.get /\ rows = << >>
         \/ /\ reader'.get = reader.get /\ reader'.start = reader.start
            /\ reader'.limit = reader.limit /\ reader'.rows = rows
            /\ reader'.at = IF rows = << >> THEN "count" ELSE "nodes"
            /\ rows # << >> \/ ~reader.get
  BY <1>1, <1>5, <1>7, ReadingIs
<1>10. /\ Ids(reader'.rows) = Ids(rows) /\ Due' = IF reader.get THEN {} ELSE Ids(rows)
       /\ reader'.get => reader.get
       /\ Due = IF reader.get THEN {} ELSE Ids(reader.rows)
  BY <1>9, IdleIs DEF Due
<1>11. ~reader.get => walk.listed[row.id] + 1 <= reader.start + 1
  BY <1>2, <1>5, <1>6, <1>10 DEF CallInv, ListedOK
<1>12. ~reader.get => walk.listed[row.id] + 1 \in 0 .. Cardinality(Volumes)
  <2>1. Cardinality(Volumes) # 0
    BY <1>6, ListingAssumption, FS_EmptySet
  <2>2. ~reader.get => reader.start = 0 \/ reader.start < Cardinality(Volumes)
    BY <1>2 DEF CallInv, ReaderOK
  <2>3. reader.start \in Nat /\ walk.listed[row.id] \in Nat
    BY <1>1, <1>6 DEF ReaderRecords
  <2> QED
    BY <1>1, <1>11, <2>1, <2>2, <2>3
<1>13. /\ walk' \in WalkRecords /\ walk'.next = walk.next /\ walk'.passed = walk.passed
       /\ walk'.steady = walk.steady /\ walk'.spoilt = walk.spoilt
       /\ \A u \in Volumes :
             walk'.listed[u] = IF u = row.id /\ ~reader.get THEN walk.listed[u] + 1
                               ELSE walk.listed[u]
  <2>1. CASE reader.get
    BY <1>1, <1>7, <2>1
  <2>2. CASE ~reader.get
    BY <1>1, <1>6, <1>7, <1>12, <2>2 DEF WalkRecords
  <2> QED
    BY <2>1, <2>2
<1>14. walk.steady \subseteq Volumes
  BY <1>1 DEF WalkRecords
<1>15. ReaderTypes'
  <2>1. reader.get \in BOOLEAN /\ reader.nodes \in BOOLEAN /\ Normal(row) \in BOOLEAN
    BY <1>1 DEF ReaderRecords, Normal
  <2>2. entry' \in [id: Volumes \cup {Nobody}, get: BOOLEAN, nodes: BOOLEAN, ok: BOOLEAN]
    BY <1>6, <1>7, <2>1
  <2> QED
    BY <1>2, <1>9, <1>13, <2>2 DEF ReaderTypes, ListingTypeOK
<1>16. ReaderOK'
  <2>1. /\ walk.next = End
        /\ ~reader.get => /\ walk.passed = reader.start + reader.limit /\ reader.limit > 0
                          /\ reader.start = 0 \/ reader.start < Cardinality(Volumes)
        /\ reader.get => walk.passed = 0 /\ \A u \in Volumes : walk.listed[u] = 0
        /\ \A u \in Ids(rows) : capacity[u] > 0
    BY <1>2, <1>5 DEF CallInv, ReaderOK
  <2> QED
    BY <1>5, <1>8, <1>9, <1>10, <1>13, <2>1, IdleIs DEF ReaderOK
<1>17. ListedOK'
  <2>1. walk.next = End
    BY <1>2 DEF CallInv, ReaderOK
  <2>2. ASSUME ~reader.get, NEW u \in Volumes
        PROVE  walk'.listed[u] + (IF u \in Ids(rows) THEN 1 ELSE 0) <= reader.start + 1
    <3>1. walk.listed[u] + (IF u \in Ids(reader.rows) THEN 1 ELSE 0) <= reader.start + 1
      BY <1>2, <1>10, <2>2 DEF CallInv, ListedOK
    <3>2. CASE u = row.id
      BY <1>1, <1>5, <1>11, <1>13, <2>2, <3>2
    <3>3. CASE u # row.id
      BY <1>5, <1>13, <3>1, <3>3
    <3> QED
      BY <3>2, <3>3
  <2> QED
    BY <1>9, <1>10, <1>13, <2>1, <2>2, IdleIs DEF ListedOK
<1>18. OnceOK'
  <2>1. ASSUME NEW u \in Volumes, walk'.listed[u] > 0 \/ u \in Due'
        PROVE  walk.listed[u] > 0 \/ u \in Due
    BY <1>1, <1>5, <1>10, <1>13, <2>1
  <2>2. ASSUME walk.spoilt \cap {"inserted", "moved"} = {}, NEW u \in Volumes
        PROVE  walk'.listed[u] <= 1 /\ (u \in Due' => walk'.listed[u] = 0)
    <3>1. walk.listed[u] <= 1 /\ (u \in Due => walk.listed[u] = 0)
      BY <2>2 DEF CallInv, OnceOK
    <3>2. u = row.id /\ ~reader.get => u \in Due /\ u \notin Due'
      BY <1>5, <1>10
    <3>3. u \in Due' => u \in Due
      BY <1>5, <1>10
    <3> QED
      BY <1>1, <1>13, <3>1, <3>2, <3>3
  <2> QED
    BY <1>8, <1>13, <2>1, <2>2 DEF CallInv, OnceOK
<1>19. AllOK'
  <2>1. ASSUME NEW u \in Volumes, walk.listed[u] > 0 \/ u \in Due
        PROVE  walk'.listed[u] > 0 \/ u \in Due'
    BY <1>1, <1>5, <1>10, <1>13, <2>1
  <2> QED
    BY <1>8, <1>13, <1>14, <2>1 DEF CallInv, AllOK
<1>20. SawOK'
  <2>1. /\ \A u \in Ids(rows) : <<u, FitClaim(u)>> \in saw /\ <<u, NodeClaim(u)>> \in saw
        /\ \A i \in DOMAIN rows :
              rows[i].id \in Blocks =>
                 /\ size[rows[i].id] = rows[i].cap => <<rows[i].id, "fits">> \in saw
                 /\ capacity[rows[i].id] # rows[i].cap => <<rows[i].id, "differs">> \in saw
    BY <1>2, <1>5 DEF CallInv, SawOK
  <2>2. reader'.at \in {"nodes", "stat"} => reader'.at = "nodes" /\ reader'.rows = rows
    BY <1>9, IdleIs
  <2> QED
    BY <1>2, <1>5, <1>6, <1>8, <1>10, <2>1, <2>2 DEF SawOK
<1>21. EntryIsTrue'
  <2>1. /\ entry'.id = row.id /\ entry'.get = reader.get /\ entry'.nodes = reader.nodes
        /\ entry'.ok = Normal(row)
    BY <1>7
  <2>2. /\ <<row.id, FitClaim(row.id)>> \in saw
        /\ row.id \in Blocks => /\ size[row.id] = row.cap => <<row.id, "fits">> \in saw
                                /\ capacity[row.id] # row.cap => <<row.id, "differs">> \in saw
        /\ reader.get \/ "failed" \notin walk.spoilt =>
              <<row.id, IF reader.nodes THEN "attached" ELSE "detached">> \in saw
    BY <1>2, <1>3, <1>5 DEF CallInv, SawOK
  <2>3. Normal(row) => <<row.id, "fits">> \in saw
    BY <2>2 DEF Normal, FitClaim, Fits
  <2>4. ~Normal(row) => <<row.id, "differs">> \in saw
    BY <2>2 DEF Normal, FitClaim, Fits
  <2> QED
    BY <1>2, <1>13, <2>1, <2>2, <2>3, <2>4 DEF EntryIsTrue
<1>22. WalkIsComplete'
  <2>1. reader.get => walk.passed = 0
    BY DEF CallInv, ReaderOK
  <2>2. reader'.at = "idle" => reader.get
    BY <1>9
  <2> QED
    BY <1>13, <2>1, <2>2 DEF WalkIsComplete, WalkEnded
<1> QED
  BY <1>15, <1>16, <1>17, <1>18, <1>19, <1>20, <1>21, <1>22 DEF CallInv

(* The number of rows, which ends the call, keeps it.                      *)
LEMMA CountRowsKeeps ==
    ASSUME ListingTypeOK, StoreOK, CallInv, UNCHANGED storeVars, CountRows
    PROVE  ReaderTypes' /\ CallInv'
<1>1. /\ reader \in ReaderRecords /\ walk \in WalkRecords
      /\ Len(table) \in Nat /\ Len(table) <= Cardinality(Volumes)
      /\ Cardinality(Volumes) \in Nat /\ \A u \in Volumes : walk.listed[u] \in Nat
  BY RecordTypes
<1>2. /\ reader.at = "count" /\ ~reader.get /\ reader.rows = << >>
      /\ reader' = Idle /\ entry' = NoEntry /\ saw' = {}
  BY DEF CountRows, CallInv, ReaderOK
<1>3. faults' \in 0 .. MaxFaults
  BY FaultsType DEF CountRows
<1>4. /\ reader.start \in Nat /\ reader.limit \in Nat /\ reader.limit > 0
      /\ walk.passed = reader.start + reader.limit
  BY <1>1, <1>2 DEF CallInv, ReaderOK, ReaderRecords, All
<1>5. PICK count \in {Len(table), 0} :
         \/ /\ walk' = [walk EXCEPT !.next = NextToken(reader.start, reader.limit, count)]
            /\ count = Len(table)
         \/ /\ walk' = [walk EXCEPT !.spoilt = walk.spoilt \cup {"failed"},
                                    !.next = NextToken(reader.start, reader.limit, count)]
            /\ count = 0
  <2>1. CASE walk' = [walk EXCEPT !.next = NextToken(reader.start, reader.limit, Len(table))]
    BY <2>1
  <2>2. CASE walk' = [Spoil({"failed"}) EXCEPT
                         !.next = NextToken(reader.start, reader.limit, 0)]
    <3>1. walk' = [walk EXCEPT !.spoilt = walk.spoilt \cup {"failed"},
                               !.next = NextToken(reader.start, reader.limit, 0)]
      BY <1>1, <2>2 DEF Spoil, WalkRecords
    <3> QED
      BY <3>1
  <2> QED
    BY <2>1, <2>2 DEF CountRows
<1>6. PICK next : next = NextToken(reader.start, reader.limit, count)
  OBVIOUS
<1>7. /\ next = End \/ next = reader.start + reader.limit
      /\ next # End => 0 < next /\ next < Cardinality(Volumes)
      /\ next \in End .. Cardinality(Volumes)
      /\ next = End => count <= reader.start + reader.limit
  <2>1. count \in Nat /\ count <= Cardinality(Volumes)
    BY <1>1, <1>5
  <2> QED
    BY <1>1, <1>4, <1>6, <2>1 DEF NextToken, End, All
<1>8. /\ walk' \in WalkRecords /\ walk'.next = next /\ walk'.passed = walk.passed
      /\ walk'.steady = walk.steady /\ walk'.listed = walk.listed
      /\ walk.spoilt \subseteq walk'.spoilt
      /\ "failed" \in walk'.spoilt \/ count = Len(table)
  <2>1. walk.spoilt \cup {"failed"} \subseteq Spoilers
    BY <1>1 DEF WalkRecords, Spoilers
  <2> QED
    BY <1>1, <1>5, <1>6, <1>7, <2>1 DEF WalkRecords
<1>9. /\ \A u \in Volumes : (Live(u)' <=> Live(u)) /\ Place(u)' = Place(u)
      /\ capacity' = capacity
  BY StoreStays DEF storeVars
<1>10. Due' = {} /\ Due = {} /\ Ids(reader'.rows) = {} /\ walk.steady \subseteq Volumes
  BY <1>1, <1>2, IdleIs DEF Due, WalkRecords
<1>11. ReaderTypes'
  BY <1>2, <1>3, <1>8, IdleIs, NoEntryIs DEF ReaderTypes
<1>12. ReaderOK'
  BY <1>2, <1>4, <1>7, <1>8, <1>10, IdleIs DEF ReaderOK
<1>13. ListedOK'
  <2>1. \A u \in Volumes : walk.listed[u] <= reader.start + 1
    BY <1>1, <1>2, <1>10 DEF CallInv, ListedOK
  <2>2. \A u \in Volumes : next # End => walk.listed[u] <= next
    BY <1>1, <1>4, <1>7, <2>1
  <2> QED
    BY <1>2, <1>8, <2>2, IdleIs DEF ListedOK
<1>14. OnceOK'
  BY <1>8, <1>9, <1>10 DEF CallInv, OnceOK
<1>15. AllOK'
  BY <1>8, <1>9, <1>10 DEF CallInv, AllOK
<1>16. SawOK' /\ EntryIsTrue'
  BY <1>2, IdleIs, NoEntryIs DEF SawOK, EntryIsTrue
<1>17. WalkIsComplete'
  <2> SUFFICES ASSUME next = End, walk'.spoilt \cap {"removed", "moved", "failed"} = {},
                      NEW u \in walk.steady
               PROVE  walk.listed[u] > 0
    BY <1>8 DEF WalkIsComplete, WalkEnded
  <2>1. Len(table) <= walk.passed
    BY <1>4, <1>7, <1>8
  <2>2. Live(u)
    BY DEF CallInv, AllOK
  <2>3. Place(u) <= walk.passed
    BY <1>1, <1>4, <2>1, <2>2, PlaceType
  <2> QED
    BY <1>8, <1>10, <2>3 DEF CallInv, AllOK
<1> QED
  BY <1>11, <1>12, <1>13, <1>14, <1>15, <1>16, <1>17 DEF CallInv

-----------------------------------------------------------------------------
(* The invariant holds at the start: no call, no walk, and each live       *)
(* volume has the data its row says.                                       *)
LEMMA ListingInitHolds == ListingInit => ListingInv
<1> SUFFICES ASSUME ListingInit PROVE ListingInv
  OBVIOUS
<1>1. PICK live \in SUBSET Volumes :
          /\ table \in SetToSeqs(live)
          /\ capacity = [v \in Volumes |-> IF v \in live THEN 1 ELSE 0]
          /\ size = capacity /\ attached \in {{}, live}
  BY DEF ListingInit
<1>2. /\ pending = Nobody /\ changes = 0 /\ faults = 0
      /\ reader = Idle /\ walk = NoWalk /\ entry = NoEntry /\ saw = {}
  BY DEF ListingInit
<1>3. IsFiniteSet(live) /\ Cardinality(live) \in Nat
  BY FS_Subset, FS_CardinalityType, ListingAssumption
<1>4. /\ table \in [1 .. Cardinality(live) -> live]
      /\ \A i, j \in 1 .. Cardinality(live) : i # j => table[i] # table[j]
  BY <1>1 DEF SetToSeqs
<1>5. table \in Seq(Volumes) /\ IsInjective(table) /\ ToSet(table) \subseteq live
  BY <1>3, <1>4 DEF IsInjective, ToSet
<1>6. MaxChanges \in Nat /\ MaxFaults \in Nat
  BY ListingAssumption
<1>7. capacity \in [Volumes -> 0 .. MaxChanges + 1] /\ \A v \in live : capacity[v] = 1
  BY <1>1, <1>6
<1>8. ListingTypeOK
  BY <1>1, <1>2, <1>5, <1>6, <1>7, IdleIs, NoWalkIs, NoEntryIs
     DEF ListingTypeOK, ReaderRecords, WalkRecords
<1>9. StoreOK
  BY <1>1, <1>2, <1>5, <1>6 DEF StoreOK, Live
<1>10. Ids(reader.rows) = {} /\ Due = {} /\ reader.rows = << >>
  BY <1>2, IdleIs DEF Due
<1>11. CallInv
  BY <1>2, <1>10, IdleIs, NoWalkIs, NoEntryIs
     DEF CallInv, ReaderOK, ListedOK, OnceOK, AllOK, SawOK, EntryIsTrue, WalkIsComplete,
         WalkEnded
<1> QED
  BY <1>8, <1>9, <1>11 DEF ListingInv

(* The size of a page asked for.                                           *)
LEMMA LimitType ==
    ASSUME NEW max \in PageSizes
    PROVE  Limit(max) \in 1 .. All
<1>1. max \in 0 .. Cardinality(Volumes) /\ Cardinality(Volumes) \in Nat
  BY ListingAssumption, FS_CardinalityType
<1> QED
  BY <1>1 DEF Limit, All

(* Every step keeps the invariant.                                         *)
LEMMA ListingNextHolds ==
    ASSUME ListingInv, [ListingNext]_<<storeVars, readerVars>>
    PROVE  ListingInv'
<1>1. ListingTypeOK /\ StoreOK /\ CallInv
  BY DEF ListingInv
<1>2. CASE Change
  <2>1. ChangeOK /\ UNCHANGED <<reader, entry, faults>>
    BY <1>1, <1>2, ChangesAreOK
  <2>2. StoreOK'
    BY <2>1 DEF ChangeOK
  <2>3. CallInv'
    BY <1>1, <1>2, <2>1, <2>2, ChangeKeepsWalk, ChangeKeepsSaw DEF CallInv
  <2>4. saw' \subseteq Volumes \X Claims
    <3>1. saw \subseteq Volumes \X Claims
      BY <1>1 DEF ListingTypeOK
    <3>2. Facts' \subseteq Volumes \X Claims
      BY DEF Facts, Claims
    <3>3. Witnessed
      BY <1>2 DEF Change, Create, Delete, Expand, Attach, Finish, Changed
    <3> QED
      BY <3>1, <3>2, <3>3 DEF Witnessed
  <2>5. ListingTypeOK'
    BY <1>1, <2>1, <2>4 DEF ListingTypeOK, ChangeOK, WalkRecords
  <2> QED
    BY <2>2, <2>3, <2>5 DEF ListingInv
<1>3. CASE Read /\ UNCHANGED storeVars
  <2>1. ReaderTypes' /\ CallInv'
    <3>1. CASE \E max \in PageSizes : \E start \in {0, walk.next} \ {End} :
                  ListPage(start, Limit(max))
      BY <1>1, <1>3, <3>1, LimitType, ListPageKeeps
    <3>2. CASE \E v \in Volumes : GetRow(v)
      BY <1>1, <1>3, <3>2, GetRowKeeps
    <3>3. CASE ReadNodes \/ ReadPath \/ CountRows
      BY <1>1, <1>3, <3>3, ReadNodesKeeps, ReadPathKeeps, CountRowsKeeps
    <3> QED
      BY <1>3, <3>1, <3>2, <3>3 DEF Read
  <2>2. StoreOK'
    BY <1>1, <1>3, StoreStays
  <2>3. ListingTypeOK'
    BY <1>1, <1>3, <2>1 DEF storeVars, ListingTypeOK, ReaderTypes, ReaderRecords, WalkRecords
  <2> QED
    BY <2>1, <2>2, <2>3 DEF ListingInv
<1>4. CASE UNCHANGED <<storeVars, readerVars>>
  <2>1. /\ UNCHANGED <<table, capacity, size, attached, pending, changes>>
        /\ UNCHANGED <<reader, walk, entry, saw, faults>>
    BY <1>4 DEF storeVars, readerVars
  <2>2. ListingTypeOK' /\ StoreOK'
    BY <1>1, <2>1 DEF ListingTypeOK, StoreOK, Live
  <2>3. /\ Due' = Due /\ Ids(reader.rows)' = Ids(reader.rows)
        /\ \A v : /\ Live(v)' = Live(v) /\ Place(v)' = Place(v)
                  /\ FitClaim(v)' = FitClaim(v) /\ NodeClaim(v)' = NodeClaim(v)
    BY <2>1 DEF Due, Ids, Live, Place, Fits, FitClaim, NodeClaim
  <2>4. ReaderOK' /\ ListedOK' /\ OnceOK' /\ AllOK'
    BY <1>1, <2>1, <2>3 DEF CallInv, ReaderOK, ListedOK, OnceOK, AllOK
  <2>5. SawOK' /\ EntryIsTrue' /\ WalkIsComplete'
    BY <1>1, <2>1, <2>3 DEF CallInv, SawOK, EntryIsTrue, WalkIsComplete, WalkEnded
  <2> QED
    BY <2>2, <2>4, <2>5 DEF CallInv, ListingInv
<1> QED
  BY <1>2, <1>3, <1>4 DEF ListingNext

(* The invariant of the listing.                                           *)
LEMMA ListingInvariant == ListingSpec => []ListingInv
BY ListingInitHolds, ListingNextHolds, PTL DEF ListingSpec

(* The types of the readers, and of what they read.                        *)
THEOREM ListingTypeCorrect == ListingSpec => []ListingTypeOK
<1>1. ListingInv => ListingTypeOK
  BY DEF ListingInv
<1> QED
  BY <1>1, ListingInvariant, PTL

(* A walk that reached its end has listed every volume that was there all  *)
(* the time, unless a row it had passed was deleted, a row moved across    *)
(* the point it had come to, or a query failed.                            *)
THEOREM WalkIsCompleteAlways == ListingSpec => []WalkIsComplete
<1>1. ListingInv => WalkIsComplete
  BY DEF ListingInv, CallInv
<1> QED
  BY <1>1, ListingInvariant, PTL

(* A walk lists no volume twice, unless a row came up among those it had   *)
(* passed or moved across that point.                                      *)
THEOREM WalkNeverRepeatsAlways == ListingSpec => []WalkNeverRepeats
<1>1. ListingInv => WalkNeverRepeats
  BY DEF ListingInv, CallInv, OnceOK, WalkNeverRepeats
<1> QED
  BY <1>1, ListingInvariant, PTL

(* What an entry says of a volume was true at some time of the call.       *)
THEOREM EntryIsTrueAlways == ListingSpec => []EntryIsTrue
<1>1. ListingInv => EntryIsTrue
  BY DEF ListingInv, CallInv
<1> QED
  BY <1>1, ListingInvariant, PTL
=============================================================================
