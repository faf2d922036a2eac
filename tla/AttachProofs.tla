----------------------------- MODULE AttachProofs -----------------------------
(***************************************************************************)
(* What the answers of ControllerPublish- and UnpublishVolume promise, for *)
(* any volumes, nodes, controllers, calls and faults, and that a node      *)
(* plugin that serves is found, for any window with room for its delays.   *)
(***************************************************************************)
EXTENDS Attach, TLAPS

-----------------------------------------------------------------------------
(* The heartbeat: that the window is long enough. *)

(* The lag grows by Gap with every failed write.                           *)
LEMMA LagFacts ==
    /\ Gap \in Nat \ {0} /\ MaxDelay <= Gap
    /\ \A m \in Nat : Lag(m) \in Nat /\ Lag(m) > Gap /\ Lag(m + 1) = Lag(m) + Gap
    /\ \A m \in 0 .. MaxMisses : Lag(m) <= Lag(MaxMisses)
<1>1. Gap \in Nat \ {0} /\ MaxDelay <= Gap
  BY HeartbeatAssumption DEF Gap
<1>2. ASSUME NEW m \in Nat
      PROVE  Lag(m) \in Nat /\ Lag(m) > Gap /\ Lag(m + 1) = Lag(m) + Gap
  <2>1. (m + 1) * Gap \in Nat /\ (m + 1) * Gap >= Gap
    BY <1>1
  <2>2. ((m + 1) + 1) * Gap = (m + 1) * Gap + Gap
    BY <1>1
  <2> QED
    BY <1>1, <2>1, <2>2 DEF Lag
<1>3. ASSUME NEW m \in 0 .. MaxMisses
      PROVE  Lag(m) <= Lag(MaxMisses)
  <2>1. (m + 1) * Gap <= (MaxMisses + 1) * Gap
    BY <1>1, HeartbeatAssumption
  <2>2. (m + 1) * Gap \in Nat /\ (MaxMisses + 1) * Gap \in Nat
    BY <1>1, HeartbeatAssumption
  <2> QED
    BY <2>1, <2>2 DEF Lag
<1> QED
  BY <1>1, <1>2, <1>3

(* What the window has room for: the lag, a tick that waited, and a write. *)
LEMMA WindowFacts ==
    ASSUME WindowHolds
    PROVE  Lag(MaxMisses) + Gap + MaxDelay <= Window
<1>1. CASE MaxDelay = 0
  BY <1>1, HeartbeatAssumption DEF WindowHolds, Lag, Gap
<1>2. CASE MaxDelay # 0
  <2>1. (MaxMisses + 3) * MaxDelay = (MaxMisses + 1) * MaxDelay + MaxDelay + MaxDelay
    BY HeartbeatAssumption
  <2>2. (MaxMisses + 1) * MaxDelay \in Nat /\ (MaxMisses + 3) * MaxDelay \in Nat
    BY HeartbeatAssumption
  <2> QED
    BY <1>2, <2>1, <2>2, HeartbeatAssumption DEF WindowHolds, Lag, Gap
<1> QED
  BY <1>1, <1>2

(* What HeartbeatTypeOK says of one goroutine.                             *)
Beats == [at: {"down", "start", "wait", "write"}, value: Ages, took: 0 .. MaxDelay,
          tick: Ages \cup {NoTick}, misses: 0 .. MaxMisses, joined: BOOLEAN]

(* HeartbeatTypeOK, variable by variable.                                  *)
LEMMA TypeByNode ==
    HeartbeatTypeOK <=> /\ seen \in [Nodes -> Ages] /\ beat \in [Nodes -> Beats]
BY DEF HeartbeatTypeOK, Beats

(* HeartbeatInv holds while no plugin has started.                         *)
LEMMA InitHolds ==
    HeartbeatInit => HeartbeatInv
BY HeartbeatAssumption DEF HeartbeatInit, HeartbeatInv, HeartbeatTypeOK, BeatOK, SeenOK,
     Down, Ages, Old, NoTick

(* A record of Beats stays one when a field takes a value of its kind.     *)
LEMMA Fields ==
    ASSUME NEW b \in Beats
    PROVE  /\ \A x \in {"down", "start", "wait", "write"} : [b EXCEPT !.at = x] \in Beats
           /\ \A x \in Ages : [b EXCEPT !.value = x] \in Beats
           /\ \A x \in 0 .. MaxDelay : [b EXCEPT !.took = x] \in Beats
           /\ \A x \in Ages \cup {NoTick} : [b EXCEPT !.tick = x] \in Beats
           /\ \A x \in 0 .. MaxMisses : [b EXCEPT !.misses = x] \in Beats
           /\ [b EXCEPT !.joined = TRUE] \in Beats
<1>1. \A x \in {"down", "start", "wait", "write"} : [b EXCEPT !.at = x] \in Beats
  BY DEF Beats
<1>2. \A x \in Ages : [b EXCEPT !.value = x] \in Beats
  BY DEF Beats
<1>3. \A x \in 0 .. MaxDelay : [b EXCEPT !.took = x] \in Beats
  BY DEF Beats
<1>4. \A x \in Ages \cup {NoTick} : [b EXCEPT !.tick = x] \in Beats
  BY DEF Beats
<1>5. \A x \in 0 .. MaxMisses : [b EXCEPT !.misses = x] \in Beats
  BY DEF Beats
<1>6. [b EXCEPT !.joined = TRUE] \in Beats
  BY DEF Beats
<1> QED
  BY <1>1, <1>2, <1>3, <1>4, <1>5, <1>6

(* A step of one node's plugin, as far as its own row and goroutine go.    *)
LEMMA PluginSteps ==
    ASSUME WindowHolds, HeartbeatInv, NEW n \in Nodes,
           NodeStart(n) \/ BeatTake(n) \/ BeatWrite(n) \/ NodeStop(n)
    PROVE  /\ seen'[n] \in Ages /\ beat'[n] \in Beats
           /\ BeatOK(n)' /\ SeenOK(n)'
<1> DEFINE b == beat[n]
<1>0. /\ seen \in [Nodes -> Ages] /\ beat \in [Nodes -> Beats] /\ b \in Beats
      /\ BeatOK(n) /\ SeenOK(n)
  BY TypeByNode DEF HeartbeatInv
<1>a. 0 \in Ages /\ 0 \in 0 .. MaxDelay /\ 0 \in 0 .. MaxMisses /\ Down \in Beats
  BY HeartbeatAssumption DEF Ages, Old, Down, Beats
<1>1. CASE NodeStart(n)
  <2>1. seen'[n] = seen[n] /\ beat'[n] = [Down EXCEPT !.at = "start"]
    BY <1>0, <1>1 DEF NodeStart
  <2>2. beat'[n] \in Beats
    BY <1>a, <2>1, Fields
  <2>3. /\ beat'[n].at = "start" /\ beat'[n].tick = NoTick /\ ~beat'[n].joined
        /\ beat'[n].value = 0 /\ beat'[n].took = 0
    BY <2>1 DEF Down
  <2> QED
    BY <1>0, <2>1, <2>2, <2>3 DEF BeatOK, SeenOK
<1>2. CASE BeatTake(n)
  <2>1. /\ b.at = "wait" /\ b.tick # NoTick /\ seen'[n] = seen[n]
        /\ beat'[n] = [b EXCEPT !.at = "write", !.took = 0, !.value = b.tick,
                                !.tick = NoTick]
    BY <1>0, <1>2 DEF BeatTake, Doing
  <2>2. beat'[n] \in Beats
    <3> DEFINE b1 == [b EXCEPT !.at = "write"]
               b2 == [b1 EXCEPT !.took = 0]
               b3 == [b2 EXCEPT !.value = b.tick]
    <3>1. b1 \in Beats
      BY <1>0, Fields
    <3>2. b2 \in Beats
      BY <3>1, <1>a, Fields
    <3>3. b.tick \in Ages
      BY <1>0, <2>1 DEF Beats
    <3>4. b3 \in Beats
      BY <3>2, <3>3, Fields
    <3>5. [b3 EXCEPT !.tick = NoTick] \in Beats
      BY <3>4, Fields
    <3> QED
      BY <2>1, <3>5
  <2>3. /\ beat'[n].at = "write" /\ beat'[n].took = 0 /\ beat'[n].value = b.tick
        /\ beat'[n].tick = NoTick /\ beat'[n].misses = b.misses
        /\ beat'[n].joined = b.joined
    BY <1>0, <2>1 DEF Beats
  <2> QED
    BY <1>0, <2>1, <2>2, <2>3, LagFacts, HeartbeatAssumption
       DEF BeatOK, SeenOK, Beats, Ages, Old, NoTick
<1>3. CASE BeatWrite(n)
  <2>0. b.at \in {"start", "write"}
    BY <1>3 DEF BeatWrite, Writing, Doing
  <2> DEFINE b1 == [b EXCEPT !.at = "wait"]
  <2>1. b1 \in Beats
    BY <1>0, Fields
  <2>2. b.value < Gap + b.took /\ b.took \in 0 .. MaxDelay /\ b.value \in Ages
    BY <1>0, <2>0, LagFacts DEF BeatOK, Beats
  <2>3. CASE /\ seen' = [seen EXCEPT ![n] = b.value]
             /\ beat' = [beat EXCEPT ![n] = [@ EXCEPT !.at = "wait", !.misses = 0,
                                                      !.joined = TRUE]]
    <3> DEFINE b2 == [b1 EXCEPT !.misses = 0]
    <3>1. b2 \in Beats
      BY <2>1, <1>a, Fields
    <3>2. beat'[n] = [b2 EXCEPT !.joined = TRUE] /\ seen'[n] = b.value
      BY <1>0, <2>3
    <3>3. beat'[n] \in Beats
      BY <3>1, <3>2, Fields
    <3>4. /\ beat'[n].at = "wait" /\ beat'[n].misses = 0 /\ beat'[n].tick = b.tick
      BY <1>0, <3>2 DEF Beats
    <3>5. Lag(0) = Gap + 1
      BY LagFacts DEF Lag
    <3> QED
      BY <1>0, <2>0, <2>2, <3>2, <3>3, <3>4, <3>5, LagFacts, HeartbeatAssumption
         DEF BeatOK, SeenOK, Beats, Ages, Old, NoTick
  <2>4. CASE /\ b.misses < MaxMisses
             /\ seen' \in {seen, [seen EXCEPT ![n] = b.value]}
             /\ beat' = [beat EXCEPT ![n] = [@ EXCEPT !.at = "wait",
                                                      !.misses = b.misses + 1]]
    <3>1. b.misses + 1 \in 0 .. MaxMisses /\ b.misses \in Nat
      BY <1>0, <2>4, HeartbeatAssumption DEF Beats
    <3>2. /\ beat'[n] = [b1 EXCEPT !.misses = b.misses + 1]
          /\ seen'[n] \in {seen[n], b.value}
      BY <1>0, <2>4
    <3>3. beat'[n] \in Beats
      BY <2>1, <3>1, <3>2, Fields
    <3>4. /\ beat'[n].at = "wait" /\ beat'[n].misses = b.misses + 1
          /\ beat'[n].tick = b.tick /\ beat'[n].joined = b.joined
      BY <1>0, <3>2 DEF Beats
    <3> QED
      BY <1>0, <2>0, <2>2, <3>1, <3>2, <3>3, <3>4, LagFacts, HeartbeatAssumption
         DEF BeatOK, SeenOK, Beats, Ages, Old, NoTick
  <2> QED
    BY <1>3, <2>3, <2>4 DEF BeatWrite
<1>4. CASE NodeStop(n)
  <2>1. seen'[n] \in {seen[n], b.value} /\ beat'[n] = Down
    BY <1>0, <1>4 DEF NodeStop
  <2>2. beat'[n].at = "down" /\ ~beat'[n].joined
    BY <2>1 DEF Down
  <2>3. b.value \in Ages
    BY <1>0 DEF Beats
  <2> QED
    BY <1>0, <1>a, <2>1, <2>2, <2>3 DEF BeatOK, SeenOK
<1> QED
  BY <1>1, <1>2, <1>3, <1>4

(* A period that ends. *)
LEMMA ElapseSteps ==
    ASSUME WindowHolds, HeartbeatInv, NEW n \in Nodes, Elapse
    PROVE  /\ seen'[n] \in Ages /\ beat'[n] \in Beats
           /\ BeatOK(n)' /\ SeenOK(n)'
<1> DEFINE b == beat[n]
           busy == b.at \in {"start", "write"}
           value == IF busy THEN Older(b.value) ELSE b.value
           took == IF busy THEN b.took + 1 ELSE b.took
           tick == IF b.at \in {"wait", "write"} THEN Fires(b) ELSE NoTick
           b1 == [b EXCEPT !.value = value]
           b2 == [b1 EXCEPT !.took = took]
<1>0. /\ seen \in [Nodes -> Ages] /\ beat \in [Nodes -> Beats] /\ b \in Beats
      /\ seen[n] \in Ages /\ BeatOK(n) /\ SeenOK(n)
  BY TypeByNode DEF HeartbeatInv
<1>1. Prompt(n) /\ seen'[n] = Older(seen[n]) /\ beat'[n] = Passed(b)
  BY DEF Elapse
<1>2. \A age \in Ages : Older(age) \in Ages
  BY HeartbeatAssumption DEF Older, Ages, Old
<1>3. value \in Ages /\ took \in 0 .. MaxDelay /\ tick \in Ages \cup {NoTick}
  <2>1. value \in Ages
    BY <1>0, <1>2 DEF Beats
  <2>2. took \in 0 .. MaxDelay
    BY <1>0, <1>1, HeartbeatAssumption DEF Beats, Prompt, Writing, Doing
  <2>3. tick \in Ages \cup {NoTick}
    BY <1>0, <1>2, HeartbeatAssumption DEF Beats, Fires, Ages, Old
  <2> QED
    BY <2>1, <2>2, <2>3
<1>4. beat'[n] = [b2 EXCEPT !.tick = tick]
  BY <1>1 DEF Passed
<1>5. beat'[n] \in Beats
  <2>1. b1 \in Beats
    BY <1>0, <1>3, Fields
  <2>2. b2 \in Beats
    BY <2>1, <1>3, Fields
  <2> QED
    <3> HIDE DEF tick, b2
    <3> QED
      BY <2>2, <1>3, <1>4, Fields
<1>6. /\ beat'[n].at = b.at /\ beat'[n].value = value /\ beat'[n].took = took
      /\ beat'[n].tick = tick /\ beat'[n].misses = b.misses
      /\ beat'[n].joined = b.joined
  BY <1>0, <1>4 DEF Beats
<1>7. seen'[n] \in Ages
  BY <1>0, <1>1, <1>2
<1>8. b.misses \in 0 .. MaxMisses /\ Lag(b.misses) <= Lag(MaxMisses)
  BY <1>0, LagFacts DEF Beats
<1>9. BeatOK(n)' /\ SeenOK(n)'
  <2>1. CASE b.at = "down"
    BY <1>0, <1>6, <2>1 DEF BeatOK, SeenOK
  <2>2. CASE b.at = "start"
    <3>1. b.value < Old
      BY <1>0, <2>2, LagFacts, WindowFacts, HeartbeatAssumption DEF BeatOK, Beats, Ages, Old
    <3>2. value = b.value + 1 /\ took = b.took + 1 /\ tick = NoTick
      BY <2>2, <3>1, HeartbeatAssumption DEF Older, Old
    <3> HIDE DEF value, took, tick
    <3> QED
      BY <1>0, <1>6, <2>2, <3>2 DEF BeatOK, SeenOK
  <2>3. CASE b.at = "wait"
    <3>1. b.tick = NoTick /\ tick = 0 /\ value = b.value
      BY <1>1, <2>3 DEF Prompt, Doing, Fires
    <3>2. b.joined => seen[n] < Lag(b.misses)
      BY <1>0, <2>3, <3>1 DEF SeenOK
    <3>3. b.joined => seen'[n] <= Lag(b.misses)
      BY <1>0, <1>1, <1>8, <3>2, LagFacts, HeartbeatAssumption DEF Older, Ages, Old
    <3> QED
      BY <1>0, <1>6, <1>7, <1>8, <2>3, <3>1, <3>3, LagFacts, HeartbeatAssumption
         DEF BeatOK, SeenOK, NoTick, Ages, Old
  <2>4. CASE b.at = "write"
    <3>1. b.took < MaxDelay /\ took = b.took + 1 /\ b.took \in Nat /\ b.value \in Nat
      BY <1>0, <1>1, <2>4, HeartbeatAssumption
         DEF Prompt, Doing, Writing, Beats, Ages, Old
    <3>2. b.value < Gap + b.took
      BY <1>0, <2>4 DEF BeatOK
    <3>3. value = b.value + 1
      BY <2>4, <3>1, <3>2, LagFacts, WindowFacts, HeartbeatAssumption DEF Older, Old
    <3>4. b.joined => seen[n] - b.value <= Lag(b.misses)
      BY <1>0, <2>4 DEF SeenOK
    <3>5. b.joined => seen'[n] = seen[n] + 1
      BY <1>0, <1>1, <1>8, <3>1, <3>2, <3>4, LagFacts, WindowFacts, HeartbeatAssumption
         DEF Older, Ages, Old
    <3>6. /\ tick # NoTick
          /\ tick < took /\ value - tick <= Gap
      <4>1. CASE b.tick = NoTick
        BY <1>0, <2>4, <3>1, <3>2, <3>3, <4>1, LagFacts DEF Fires, NoTick, BeatOK
      <4>2. CASE b.tick # NoTick
        <5>1. b.tick < b.took /\ b.value - b.tick <= Gap /\ b.tick \in Nat
          BY <1>0, <2>4, <4>2, HeartbeatAssumption DEF BeatOK, Beats, Ages, Old
        <5>2. tick = b.tick + 1
          BY <2>4, <4>2, <3>1, <5>1, LagFacts, WindowFacts, HeartbeatAssumption
             DEF Fires, Older, Old
        <5> QED
          BY <3>1, <3>3, <5>1, <5>2, LagFacts DEF NoTick
      <4> QED
        BY <4>1, <4>2
    <3> QED
      BY <1>0, <1>6, <1>8, <2>4, <3>1, <3>2, <3>3, <3>4, <3>5, <3>6, LagFacts
         DEF BeatOK, SeenOK, Ages, Old
  <2> QED
    BY <1>0, <2>1, <2>2, <2>3, <2>4 DEF Beats
<1> QED
  BY <1>5, <1>7, <1>9

(* Every step of a plugin and every period that ends keeps HeartbeatInv.   *)
THEOREM HeartbeatStep ==
    ASSUME WindowHolds, HeartbeatInv, HeartbeatNext
    PROVE  HeartbeatInv'
<1>0. seen \in [Nodes -> Ages] /\ beat \in [Nodes -> Beats]
  BY TypeByNode DEF HeartbeatInv
<1>1. ASSUME NEW m \in Nodes, Elapse
      PROVE  seen'[m] \in Ages /\ beat'[m] \in Beats /\ BeatOK(m)' /\ SeenOK(m)'
  BY <1>1, ElapseSteps
<1>2. ASSUME NEW n \in Nodes, NodeStart(n) \/ BeatTake(n) \/ BeatWrite(n) \/ NodeStop(n),
             NEW m \in Nodes
      PROVE  seen'[m] \in Ages /\ beat'[m] \in Beats /\ BeatOK(m)' /\ SeenOK(m)'
  <2>1. CASE m = n
    BY <1>2, <2>1, PluginSteps
  <2>2. CASE m # n
    <3>1. seen'[m] = seen[m] /\ beat'[m] = beat[m]
      BY <1>0, <1>2, <2>2 DEF NodeStart, BeatTake, BeatWrite, NodeStop
    <3> QED
      BY <1>0, <3>1 DEF HeartbeatInv, BeatOK, SeenOK
  <2> QED
    BY <2>1, <2>2
<1>3. DOMAIN seen' = Nodes /\ DOMAIN beat' = Nodes /\ seen' = [n \in Nodes |-> seen'[n]]
      /\ beat' = [n \in Nodes |-> beat'[n]]
  <2>1. CASE Elapse
    BY <2>1 DEF Elapse
  <2>2. ASSUME NEW n \in Nodes, NodeStart(n) \/ BeatTake(n) \/ BeatWrite(n) \/ NodeStop(n)
        PROVE  /\ DOMAIN seen' = Nodes /\ DOMAIN beat' = Nodes
               /\ seen' = [k \in Nodes |-> seen'[k]] /\ beat' = [k \in Nodes |-> beat'[k]]
    BY <1>0, <2>2 DEF NodeStart, BeatTake, BeatWrite, NodeStop
  <2> QED
    BY <2>1, <2>2 DEF HeartbeatNext
<1>4. \A m \in Nodes : seen'[m] \in Ages /\ beat'[m] \in Beats /\ BeatOK(m)' /\ SeenOK(m)'
  BY <1>1, <1>2 DEF HeartbeatNext
<1>5. HeartbeatTypeOK'
  <2>1. seen' \in [Nodes -> Ages] /\ beat' \in [Nodes -> Beats]
    BY <1>3, <1>4
  <2> QED
    BY <2>1 DEF HeartbeatTypeOK, Beats, Ages, Old
<1> QED
  BY <1>4, <1>5 DEF HeartbeatInv

(* Under HeartbeatInv a plugin that serves is found.                       *)
THEOREM ServingHolds ==
    ASSUME WindowHolds, HeartbeatInv
    PROVE  ServingIsFound
<1> SUFFICES ASSUME NEW n \in Nodes, Serving(n), beat[n].joined
             PROVE  seen[n] < Window
  BY TypeByNode, HeartbeatAssumption DEF HeartbeatInv, ServingIsFound, MayMiss, Ages, Old
<1> DEFINE b == beat[n]
<1>1. b \in Beats /\ seen[n] \in Ages /\ BeatOK(n) /\ SeenOK(n)
  BY TypeByNode DEF HeartbeatInv
<1>2. Lag(b.misses) <= Lag(MaxMisses) /\ Lag(b.misses) \in Nat /\ Lag(MaxMisses) \in Nat
  BY <1>1, LagFacts, HeartbeatAssumption DEF Beats
<1>3. CASE b.at = "wait" /\ b.tick = NoTick
  BY <1>1, <1>2, <1>3, LagFacts, WindowFacts, HeartbeatAssumption DEF SeenOK, Ages, Old
<1>4. CASE b.at = "wait" /\ b.tick # NoTick
  BY <1>1, <1>2, <1>4, LagFacts, WindowFacts, HeartbeatAssumption
     DEF BeatOK, SeenOK, Beats, Ages, Old
<1>5. CASE b.at = "write"
  BY <1>1, <1>2, <1>5, LagFacts, WindowFacts, HeartbeatAssumption
     DEF BeatOK, SeenOK, Beats, Ages, Old
<1> QED
  BY <1>3, <1>4, <1>5 DEF Serving, Doing

-----------------------------------------------------------------------------
(* Calls and answers. *)

(* A call's record, and where its handler is once it has the mutex.        *)
CallRecords == [at: CallLabels, ctl: Controllers \cup {"none"},
                pair: Pairs \cup {NoPair}, ro: BOOLEAN, alone: BOOLEAN]
RunLabels == CallLabels \ {"idle", "p_wait", "u_wait"}

(* CallTypeOK, variable by variable.                                       *)
LEMMA CallType ==
    CallTypeOK <=>
        /\ exists \subseteq Volumes /\ cpvi \in [Pairs -> Seq(BOOLEAN)]
        /\ call \in [Calls -> CallRecords]
        /\ \A k \in Calls : call[k].at # "idle" =>
              call[k].ctl \in Controllers /\ call[k].pair \in Pairs
        /\ asked \in [Pairs -> Calls \cup {NoCall}]
        /\ answered \in [Pairs -> Answers] /\ faults \in 0 .. MaxFaults
BY DEF CallTypeOK, CallRecords

(* The record of a call that is not under way.                             *)
LEMMA IdleRecord ==
    Idle \in CallRecords /\ Idle.at = "idle" /\ Idle.pair = NoPair
BY DEF Idle, CallRecords, CallLabels

(* AttachInv holds before the first call.                                  *)
LEMMA AttachInitHolds ==
    AttachInit => AttachInv
<1> SUFFICES ASSUME AttachInit PROVE AttachInv
  OBVIOUS
<1>1. /\ exists = Volumes /\ cpvi = [p \in Pairs |-> << >>]
      /\ call = [k \in Calls |-> Idle] /\ asked = [p \in Pairs |-> NoCall]
      /\ answered = [p \in Pairs |-> "nothing"] /\ faults = 0
  BY DEF AttachInit
<1>2. CallTypeOK
  BY <1>1, CallType, IdleRecord, AttachAssumption DEF Answers
<1>3. AskedWaits /\ IdleIsEmpty /\ AttachedHasRow /\ DetachedIsClean /\ AnsweredIsQuiet
  BY <1>1, IdleRecord DEF AskedWaits, IdleIsEmpty, AttachedHasRow, DetachedIsClean, AnsweredIsQuiet
<1>4. OneHandler /\ AloneIsLast /\ InsertIsFirst
  BY <1>1, IdleRecord, AttachAssumption DEF OneHandler, AloneIsLast, InsertIsFirst, Runs
<1> QED
  BY <1>2, <1>3, <1>4 DEF AttachInv

(* A call the caller waits for, once it runs, is the only one of its pair: *)
(* the others of the pair would have the mutex it holds.                   *)
LEMMA OnlyCall ==
    ASSUME AttachInv, NEW j \in Calls, NEW k \in Calls, Runs(k),
           call[k].pair \in Pairs, call[j].pair = call[k].pair,
           asked[call[k].pair] = k, call[k].alone
    PROVE  j = k
BY DEF AttachInv, AloneIsLast, OneHandler

(* Why a step that takes one call on from one statement to the next keeps  *)
(* AttachInv.                                                              *)
LEMMA GotoHolds ==
    ASSUME AttachInv, NEW k \in Calls, NEW label \in RunLabels, Goto(k, label),
           call[k].at # "idle", Runs(k) \/ Unlocked(call[k].ctl),
           label = "p_insert" => Rows(k) = << >>,
           UNCHANGED <<exists, cpvi>>, faults' \in 0 .. MaxFaults
    PROVE  AttachInv'
<1>0. /\ call \in [Calls -> CallRecords] /\ call[k] \in CallRecords
      /\ call[k].ctl \in Controllers /\ call[k].pair \in Pairs
  BY CallType DEF AttachInv
<1>1. /\ call' = [call EXCEPT ![k] = [call[k] EXCEPT !.at = label]]
      /\ asked' = asked /\ answered' = answered
  BY DEF Goto
<1>2. /\ call'[k] \in CallRecords /\ call'[k].at = label /\ label # "idle"
      /\ call'[k].ctl = call[k].ctl /\ call'[k].pair = call[k].pair
      /\ call'[k].alone = call[k].alone
  BY <1>0, <1>1 DEF CallRecords, RunLabels
<1>3. \A j \in Calls : j # k => call'[j] = call[j]
  BY <1>0, <1>1
<1>4. call' \in [Calls -> CallRecords]
  BY <1>0, <1>1, <1>2
<1>5. CallTypeOK'
  <2>1. \A j \in Calls : call'[j].at # "idle" =>
            call'[j].ctl \in Controllers /\ call'[j].pair \in Pairs
    BY <1>0, <1>2, <1>3, CallType DEF AttachInv
  <2> QED
    BY <1>1, <1>4, <2>1, CallType DEF AttachInv, CallTypeOK, CallRecords
<1>6. \A j \in Calls : call'[j].pair = call[j].pair /\ call'[j].ctl = call[j].ctl
                       /\ call'[j].alone = call[j].alone
  BY <1>2, <1>3
<1>7. \A j \in Calls : Runs(j) => Runs(j)'
  BY <1>2, <1>3 DEF Runs, RunLabels
<1>8. AskedWaits'
  BY <1>1, <1>2, <1>3, CallType DEF AttachInv, AskedWaits
<1>9. IdleIsEmpty'
  BY <1>2, <1>3 DEF AttachInv, IdleIsEmpty
<1>10. OneHandler'
  <2> SUFFICES ASSUME NEW i \in Calls, NEW j \in Calls, Runs(i)', Runs(j)',
                      call'[i].ctl = call'[j].ctl, i # j
               PROVE  FALSE
    BY DEF OneHandler
  <2>1. i # k => Runs(i)
    BY <1>3 DEF Runs
  <2>2. j # k => Runs(j)
    BY <1>3 DEF Runs
  <2>3. call[i].ctl = call[j].ctl
    BY <1>6
  <2> QED
    BY <2>1, <2>2, <2>3 DEF AttachInv, OneHandler, Unlocked
<1>11. AloneIsLast'
  BY <1>1, <1>6, <1>7 DEF AttachInv, AloneIsLast
<1>12. AnsweredIsQuiet' /\ AttachedHasRow' /\ DetachedIsClean'
  BY <1>1, <1>6 DEF AttachInv, AnsweredIsQuiet, AttachedHasRow, DetachedIsClean
<1>13. InsertIsFirst'
  BY <1>1, <1>2, <1>3, <1>6 DEF AttachInv, InsertIsFirst, Rows
<1> QED
  BY <1>5, <1>8, <1>9, <1>10, <1>11, <1>12, <1>13 DEF AttachInv

(* Why the return of a handler keeps AttachInv: it may change the rows of  *)
(* its own pair if it has the mutex, and what it answers with OK is so.    *)
LEMMA ReturnsHolds ==
    ASSUME AttachInv, NEW k \in Calls, NEW verdict \in Answers, Returns(k, verdict),
           call[k].at # "idle", exists' = exists, faults' \in 0 .. MaxFaults,
           cpvi' \in [Pairs -> Seq(BOOLEAN)],
           \A p \in Pairs : p # call[k].pair => cpvi'[p] = cpvi[p],
           Runs(k) \/ (verdict = "nothing" /\ cpvi' = cpvi),
           verdict \in {"read-only", "read-write"} =>
               /\ cpvi'[call[k].pair] # << >>
               /\ Head(cpvi'[call[k].pair]) = (verdict = "read-only"),
           verdict = "detached" => cpvi'[call[k].pair] = << >>
    PROVE  AttachInv'
<1> DEFINE pair == call[k].pair
<1>0. /\ call \in [Calls -> CallRecords] /\ asked \in [Pairs -> Calls \cup {NoCall}]
      /\ answered \in [Pairs -> Answers] /\ pair \in Pairs
  BY CallType DEF AttachInv
<1>1. /\ call'[k] = Idle /\ \A j \in Calls : j # k => call'[j] = call[j]
      /\ call' \in [Calls -> CallRecords]
  BY <1>0, IdleRecord DEF Returns
<1>2. /\ asked' \in [Pairs -> Calls \cup {NoCall}]
      /\ asked'[pair] = IF asked[pair] = k THEN NoCall ELSE asked[pair]
      /\ \A p \in Pairs : p # pair => asked'[p] = asked[p]
  BY <1>0 DEF Returns
<1>3. /\ answered' \in [Pairs -> Answers]
      /\ answered'[pair] = IF asked[pair] = k /\ call[k].alone THEN verdict
                           ELSE answered[pair]
      /\ \A p \in Pairs : p # pair => answered'[p] = answered[p]
  BY <1>0 DEF Returns
<1>4. Idle.pair \notin Pairs /\ Idle.at = "idle"
  BY IdleRecord, AttachAssumption
<1>5. \A p \in Pairs : asked'[p] # NoCall => asked'[p] = asked[p] /\ asked[p] # k
  BY <1>0, <1>2, AttachAssumption DEF AttachInv, AskedWaits
<1>6. answered[pair] = "nothing"
  BY <1>0 DEF AttachInv, AnsweredIsQuiet
(* An OK that counts comes from the only call of its pair.                 *)
<1>7. ASSUME answered'[pair] # "nothing"
      PROVE  /\ answered'[pair] = verdict /\ Runs(k)
             /\ \A j \in Calls : call[j].pair = pair => j = k
  <2>1. asked[pair] = k /\ call[k].alone /\ answered'[pair] = verdict
    BY <1>3, <1>6, <1>7
  <2> QED
    BY <1>0, <1>7, <2>1, OnlyCall
<1>8. CallTypeOK'
  <2>1. \A j \in Calls : call'[j].at # "idle" =>
            call'[j].ctl \in Controllers /\ call'[j].pair \in Pairs
    BY <1>1, <1>4, CallType DEF AttachInv
  <2> QED
    BY <1>1, <1>2, <1>3, <2>1, CallType DEF AttachInv, CallTypeOK, CallRecords
<1>9. AskedWaits'
  <2> SUFFICES ASSUME NEW p \in Pairs, asked'[p] # NoCall
               PROVE  /\ call'[asked'[p]].at # "idle" /\ call'[asked'[p]].pair = p
                      /\ answered'[p] = "nothing"
    BY DEF AskedWaits
  <2>1. /\ asked'[p] = asked[p] /\ asked[p] # k /\ asked[p] \in Calls
        /\ call[asked[p]].at # "idle" /\ call[asked[p]].pair = p
        /\ answered[p] = "nothing"
    BY <1>0, <1>5 DEF AttachInv, AskedWaits
  <2> QED
    BY <1>1, <1>3, <2>1
<1>10. IdleIsEmpty'
  BY <1>1 DEF AttachInv, IdleIsEmpty
<1>11. OneHandler'
  BY <1>1, <1>4 DEF AttachInv, OneHandler, Runs
<1>12. AloneIsLast'
  <2> SUFFICES ASSUME NEW p \in Pairs, NEW i \in Calls, NEW j \in Calls,
                      asked'[p] = j, call'[j].alone, i # j, call'[i].pair = p
               PROVE  Runs(i)' /\ call'[i].ctl = call'[j].ctl
    BY DEF AloneIsLast
  <2>1. i # k /\ j # k /\ asked[p] = j
    BY <1>1, <1>4, <1>5, AttachAssumption
  <2> QED
    BY <1>1, <2>1 DEF AttachInv, AloneIsLast, Runs
<1>13. AnsweredIsQuiet'
  <2> SUFFICES ASSUME NEW p \in Pairs, answered'[p] # "nothing", NEW j \in Calls,
                      call'[j].pair = p
               PROVE  FALSE
    BY DEF AnsweredIsQuiet
  <2>1. j # k /\ call[j].pair = p
    BY <1>1, <1>4
  <2> QED
    BY <1>3, <1>7, <2>1 DEF AttachInv, AnsweredIsQuiet
<1>14. InsertIsFirst'
  <2> SUFFICES ASSUME NEW j \in Calls, call'[j].at = "p_insert",
                      asked'[call'[j].pair] = j, call'[j].alone
               PROVE  cpvi'[call'[j].pair] = << >>
    BY DEF InsertIsFirst, Rows
  <2>1. j # k /\ call'[j] = call[j] /\ call[j].pair \in Pairs
    BY <1>1, <1>4, CallType DEF AttachInv
  <2>2. asked[call[j].pair] = j
    BY <1>5, <2>1, AttachAssumption
  <2>3. cpvi[call[j].pair] = << >>
    BY <2>1, <2>2 DEF AttachInv, InsertIsFirst, Rows
  <2>4. CASE call[j].pair # pair
    BY <2>1, <2>3, <2>4
  <2>5. CASE call[j].pair = pair
    <3>1. Runs(j)
      BY <2>1 DEF Runs
    <3>2. FALSE
      BY <1>0, <2>1, <2>2, <2>5, <3>1, OnlyCall
    <3> QED
      BY <3>2
  <2> QED
    BY <2>4, <2>5
<1>15. AttachedHasRow' /\ DetachedIsClean'
  <2>1. ASSUME NEW p \in Pairs, p # pair
        PROVE  answered'[p] = answered[p] /\ cpvi'[p] = cpvi[p]
    BY <1>3, <2>1
  <2> QED
    BY <1>7, <2>1 DEF AttachInv, AttachedHasRow, DetachedIsClean
<1> QED
  BY <1>8, <1>9, <1>10, <1>11, <1>12, <1>13, <1>14, <1>15 DEF AttachInv

(* A new call: nothing can overtake it if the others of its pair have the  *)
(* mutex it waits for.                                                     *)
LEMMA AskHolds ==
    ASSUME AttachInv, NEW k \in Calls, NEW p \in Pairs, NEW c \in Controllers,
           NEW label \in {"p_wait", "u_wait"}, NEW ro \in BOOLEAN, Ask(k, p, c, label, ro)
    PROVE  AttachInv'
<1>0. /\ call \in [Calls -> CallRecords] /\ asked \in [Pairs -> Calls \cup {NoCall}]
      /\ answered \in [Pairs -> Answers] /\ cpvi' = cpvi
      /\ call[k].at = "idle" /\ asked[p] = NoCall
  BY CallType DEF AttachInv, Ask
<1>1. /\ call'[k] = [at |-> label, ctl |-> c, pair |-> p, ro |-> ro, alone |-> Alone(p, c)]
      /\ \A j \in Calls : j # k => call'[j] = call[j]
      /\ call' = [call EXCEPT ![k] = call'[k]]
  BY <1>0 DEF Ask
<1>2. /\ asked' \in [Pairs -> Calls \cup {NoCall}] /\ asked'[p] = k
      /\ \A q \in Pairs : q # p => asked'[q] = asked[q]
  BY <1>0 DEF Ask
<1>3. /\ answered' \in [Pairs -> Answers] /\ answered'[p] = "nothing"
      /\ \A q \in Pairs : q # p => answered'[q] = answered[q]
  BY <1>0 DEF Ask, Answers
<1>4. Alone(p, c) \in BOOLEAN
  BY DEF Alone
<1>5. /\ call'[k] \in CallRecords /\ call'[k].at = label /\ call'[k].ctl = c
      /\ call'[k].pair = p /\ call'[k].alone = Alone(p, c)
  <2> HIDE DEF Alone
  <2> QED
    BY <1>1, <1>4 DEF CallRecords, CallLabels
<1>6. call' \in [Calls -> CallRecords]
  BY <1>0, <1>1, <1>5
<1>7. CallTypeOK'
  <2>1. \A j \in Calls : call'[j].at # "idle" =>
            call'[j].ctl \in Controllers /\ call'[j].pair \in Pairs
    BY <1>1, <1>5, CallType DEF AttachInv
  <2> QED
    BY <1>2, <1>3, <1>6, <2>1, CallType DEF AttachInv, CallTypeOK, CallRecords, Ask
<1>8. AskedWaits'
  <2> SUFFICES ASSUME NEW q \in Pairs, asked'[q] # NoCall
               PROVE  /\ call'[asked'[q]].at # "idle" /\ call'[asked'[q]].pair = q
                      /\ answered'[q] = "nothing"
    BY DEF AskedWaits
  <2>1. CASE q = p
    BY <1>2, <1>3, <1>5, <2>1
  <2>2. CASE q # p
    <3>1. /\ asked'[q] = asked[q] /\ asked[q] \in Calls /\ call[asked[q]].at # "idle"
          /\ call[asked[q]].pair = q /\ answered[q] = "nothing"
      BY <1>0, <1>2, <2>2 DEF AttachInv, AskedWaits
    <3> QED
      BY <1>0, <1>1, <1>3, <2>2, <3>1
  <2> QED
    BY <2>1, <2>2
<1>9. IdleIsEmpty'
  BY <1>1, <1>5 DEF AttachInv, IdleIsEmpty
<1>10. ~Runs(k)' /\ ~Runs(k)
  BY <1>0, <1>5 DEF Runs
<1>11. \A j \in Calls : j # k => (Runs(j)' <=> Runs(j))
  BY <1>1 DEF Runs
<1>12. OneHandler'
  BY <1>1, <1>10, <1>11 DEF AttachInv, OneHandler
<1>13. AloneIsLast'
  <2> SUFFICES ASSUME NEW q \in Pairs, NEW i \in Calls, NEW j \in Calls,
                      asked'[q] = j, call'[j].alone, i # j, call'[i].pair = q
               PROVE  Runs(i)' /\ call'[i].ctl = call'[j].ctl
    BY DEF AloneIsLast
  <2>1. CASE q = p
    <3>1. j = k /\ Alone(p, c) /\ i # k /\ call[i].pair = p
      BY <1>1, <1>2, <1>5, <2>1
    <3>2. Runs(i) /\ call[i].ctl = c
      BY <3>1 DEF Alone
    <3> QED
      BY <1>1, <1>5, <1>11, <3>1, <3>2
  <2>2. CASE q # p
    <3>1. asked[q] = j /\ i # k /\ call[i].pair = q
      BY <1>1, <1>2, <1>5, <2>2
    <3>2. j # k
      BY <1>0, <2>2, <3>1, AttachAssumption DEF AttachInv, AskedWaits
    <3> QED
      BY <1>1, <1>11, <3>1, <3>2 DEF AttachInv, AloneIsLast
  <2> QED
    BY <2>1, <2>2
<1>14. AnsweredIsQuiet' /\ AttachedHasRow' /\ DetachedIsClean'
  BY <1>0, <1>1, <1>3, <1>5 DEF AttachInv, AnsweredIsQuiet, AttachedHasRow, DetachedIsClean
<1>15. InsertIsFirst'
  <2> SUFFICES ASSUME NEW j \in Calls, call'[j].at = "p_insert",
                      asked'[call'[j].pair] = j, call'[j].alone
               PROVE  cpvi[call'[j].pair] = << >>
    BY <1>0 DEF InsertIsFirst, Rows
  <2>1. j # k /\ call'[j] = call[j] /\ call[j].pair \in Pairs
    BY <1>1, <1>5, CallType DEF AttachInv
  <2>2. asked[call[j].pair] = j
    BY <1>2, <2>1
  <2> QED
    BY <2>1, <2>2 DEF AttachInv, InsertIsFirst, Rows
<1> QED
  BY <1>7, <1>8, <1>9, <1>12, <1>13, <1>14, <1>15 DEF AttachInv

(* The caller gives up; the call goes on.                                  *)
LEMMA GiveUpHolds ==
    ASSUME AttachInv, NEW p \in Pairs, GiveUp(p)
    PROVE  AttachInv'
<1>0. /\ asked \in [Pairs -> Calls \cup {NoCall}]
      /\ asked' = [asked EXCEPT ![p] = NoCall]
      /\ UNCHANGED <<exists, cpvi, call, answered, faults>>
  BY CallType DEF AttachInv, GiveUp
<1>1. /\ asked' \in [Pairs -> Calls \cup {NoCall}]
      /\ \A q \in Pairs : asked'[q] # NoCall => asked'[q] = asked[q]
  BY <1>0
<1>2. CallTypeOK'
  BY <1>0, <1>1, CallType DEF AttachInv, CallTypeOK, CallRecords
<1>3. AskedWaits' /\ IdleIsEmpty' /\ OneHandler'
  BY <1>0, <1>1 DEF AttachInv, AskedWaits, IdleIsEmpty, OneHandler, Runs
<1>4. AloneIsLast'
  BY <1>0, <1>1, AttachAssumption DEF AttachInv, AloneIsLast, Runs
<1>5. InsertIsFirst'
  <2>1. \A k \in Calls : call[k].at = "p_insert" => call[k].pair \in Pairs
    BY CallType DEF AttachInv
  <2> QED
    BY <1>0, <1>1, <2>1, AttachAssumption DEF AttachInv, InsertIsFirst, Rows
<1>6. AnsweredIsQuiet' /\ AttachedHasRow' /\ DetachedIsClean'
  BY <1>0 DEF AttachInv, AnsweredIsQuiet, AttachedHasRow, DetachedIsClean
<1> QED
  BY <1>2, <1>3, <1>4, <1>5, <1>6 DEF AttachInv

(* A controller ends with all its calls.                                   *)
LEMMA CrashHolds ==
    ASSUME AttachInv, NEW c \in Controllers, ControllerCrash(c)
    PROVE  AttachInv'
<1> DEFINE lost == {k \in Calls : call[k].ctl = c}
<1>0. /\ call \in [Calls -> CallRecords] /\ asked \in [Pairs -> Calls \cup {NoCall}]
      /\ call' = [k \in Calls |-> IF k \in lost THEN Idle ELSE call[k]]
      /\ asked' = [p \in Pairs |-> IF asked[p] \in lost THEN NoCall ELSE asked[p]]
      /\ UNCHANGED <<exists, cpvi, answered>> /\ faults' \in 0 .. MaxFaults
  BY CallType, AttachAssumption DEF AttachInv, ControllerCrash, Fault
<1>1. \A k \in Calls : call'[k] = call[k] \/ (call'[k] = Idle /\ k \in lost)
  BY <1>0
<1>2. call' \in [Calls -> CallRecords] /\ asked' \in [Pairs -> Calls \cup {NoCall}]
  BY <1>0, IdleRecord
<1>3. \A p \in Pairs : asked'[p] # NoCall =>
          asked'[p] = asked[p] /\ asked[p] \in Calls /\ call'[asked[p]] = call[asked[p]]
  BY <1>0
<1>4. Idle.pair \notin Pairs /\ Idle.at = "idle"
  BY IdleRecord, AttachAssumption
<1>5. CallTypeOK'
  <2>1. \A j \in Calls : call'[j].at # "idle" =>
            call'[j].ctl \in Controllers /\ call'[j].pair \in Pairs
    BY <1>1, <1>4, CallType DEF AttachInv
  <2> QED
    BY <1>0, <1>2, <2>1, CallType DEF AttachInv, CallTypeOK, CallRecords
<1>6. AskedWaits'
  BY <1>0, <1>3 DEF AttachInv, AskedWaits
<1>7. IdleIsEmpty'
  BY <1>1 DEF AttachInv, IdleIsEmpty
<1>8. OneHandler'
  BY <1>1, <1>4 DEF AttachInv, OneHandler, Runs
<1>9. AloneIsLast'
  <2> SUFFICES ASSUME NEW p \in Pairs, NEW i \in Calls, NEW j \in Calls,
                      asked'[p] = j, call'[j].alone, i # j, call'[i].pair = p
               PROVE  Runs(i)' /\ call'[i].ctl = call'[j].ctl
    BY DEF AloneIsLast
  <2>1. asked[p] = j /\ call'[j] = call[j] /\ call'[i] = call[i]
    BY <1>1, <1>3, <1>4, AttachAssumption
  <2> QED
    BY <2>1 DEF AttachInv, AloneIsLast, Runs
<1>10. AnsweredIsQuiet' /\ AttachedHasRow' /\ DetachedIsClean'
  BY <1>0, <1>1, <1>4 DEF AttachInv, AnsweredIsQuiet, AttachedHasRow, DetachedIsClean
<1>11. InsertIsFirst'
  <2> SUFFICES ASSUME NEW j \in Calls, call'[j].at = "p_insert",
                      asked'[call'[j].pair] = j, call'[j].alone
               PROVE  cpvi[call'[j].pair] = << >>
    BY <1>0 DEF InsertIsFirst, Rows
  <2>1. call'[j] = call[j] /\ call[j].pair \in Pairs
    BY <1>1, <1>4, CallType DEF AttachInv
  <2>2. asked[call[j].pair] = j
    BY <1>3, <2>1, AttachAssumption
  <2> QED
    BY <2>1, <2>2 DEF AttachInv, InsertIsFirst, Rows
<1> QED
  BY <1>5, <1>6, <1>7, <1>8, <1>9, <1>10, <1>11 DEF AttachInv

(* The end of a volume's row, and steps of the plugins, leave all that     *)
(* AttachInv speaks of as it was.                                          *)
LEMMA QuietHolds ==
    ASSUME AttachInv, exists' \subseteq exists,
           UNCHANGED <<cpvi, call, asked, answered, faults>>
    PROVE  AttachInv'
<1>1. CallTypeOK'
  BY DEF AttachInv, CallTypeOK
<1>2. AskedWaits' /\ IdleIsEmpty' /\ OneHandler' /\ AloneIsLast'
  BY DEF AttachInv, AskedWaits, IdleIsEmpty, OneHandler, AloneIsLast, Runs
<1>3. AnsweredIsQuiet' /\ InsertIsFirst' /\ AttachedHasRow' /\ DetachedIsClean'
  BY DEF AttachInv, AnsweredIsQuiet, InsertIsFirst, AttachedHasRow, DetachedIsClean, Rows
<1> QED
  BY <1>1, <1>2, <1>3 DEF AttachInv

(* A handler that answers an error and has written nothing.                *)
LEMMA EndHolds ==
    ASSUME AttachInv, NEW k \in Calls, call[k].at # "idle", Fails(k),
           UNCHANGED <<exists, cpvi>>, faults' \in 0 .. MaxFaults
    PROVE  AttachInv'
<1>1. "nothing" \in Answers /\ Returns(k, "nothing")
  BY DEF Answers, Fails
<1> QED
  BY <1>1, ReturnsHolds, CallType DEF AttachInv

(* GetVolume under the mutex.                                              *)
LEMMA CheckHolds ==
    ASSUME AttachInv, NEW k \in Calls, NEW label \in {"p_wait", "u_wait"},
           NEW next \in RunLabels \ {"p_insert"}, CheckVolume(k, label, next)
    PROVE  AttachInv'
<1>1. /\ call[k].at # "idle" /\ Unlocked(call[k].ctl)
      /\ UNCHANGED <<exists, cpvi>> /\ faults' \in 0 .. MaxFaults
      /\ Goto(k, next) \/ Fails(k)
  BY CallType, AttachAssumption DEF AttachInv, CheckVolume, NoFault, Fault
<1>2. CASE Goto(k, next)
  BY <1>1, <1>2, GotoHolds
<1>3. CASE Fails(k)
  BY <1>1, <1>3, EndHolds
<1> QED
  BY <1>1, <1>2, <1>3

(* Every statement of the two handlers keeps AttachInv.                    *)
LEMMA HandlerHolds ==
    ASSUME AttachInv, NEW k \in Calls, HandlerStep(k)
    PROVE  AttachInv'
<1> DEFINE pair == call[k].pair
<1>0. /\ cpvi \in [Pairs -> Seq(BOOLEAN)] /\ call \in [Calls -> CallRecords]
      /\ faults \in 0 .. MaxFaults
  BY CallType DEF AttachInv
<1>t. call[k].at # "idle" => pair \in Pairs
  BY CallType DEF AttachInv
<1>f. NoFault \/ Fault("read") \/ Fault("write") => faults' \in 0 .. MaxFaults
  BY <1>0, AttachAssumption DEF NoFault, Fault
<1>1. CASE PublishVolume(k)
  BY <1>1, CheckHolds DEF PublishVolume, RunLabels, CallLabels
<1>2. CASE UnpublishVolume(k)
  BY <1>2, CheckHolds DEF UnpublishVolume, RunLabels, CallLabels
<1>3. CASE PublishNode(k)
  <2>1. /\ call[k].at # "idle" /\ Runs(k) /\ UNCHANGED <<exists, cpvi>>
        /\ faults' \in 0 .. MaxFaults
        /\ Goto(k, "p_row") \/ Fails(k)
    BY <1>3, <1>f DEF PublishNode, Runs
  <2>2. CASE Goto(k, "p_row")
    BY <2>1, <2>2, GotoHolds DEF RunLabels, CallLabels
  <2>3. CASE Fails(k)
    BY <2>1, <2>3, EndHolds
  <2> QED
    BY <2>1, <2>2, <2>3
<1>4. CASE PublishRow(k)
  <2>1. /\ call[k].at = "p_row" /\ Runs(k) /\ UNCHANGED <<exists, cpvi>>
        /\ faults' \in 0 .. MaxFaults
    BY <1>4, <1>f DEF PublishRow, Runs
  <2>2. CASE Rows(k) = << >> /\ Goto(k, "p_insert")
    BY <2>1, <2>2, GotoHolds DEF RunLabels, CallLabels
  <2>3. CASE Rows(k) # << >> /\ Suits(Head(Rows(k)), call[k].ro) /\ OK(k)
    <3> DEFINE verdict == IF call[k].ro THEN "read-only" ELSE "read-write"
    <3>1. Returns(k, verdict) /\ verdict \in Answers /\ verdict # "detached"
      BY <2>1, <2>3 DEF OK, Answers
    <3>2. cpvi[pair] # << >> /\ Head(cpvi[pair]) = (verdict = "read-only")
      BY <1>0, <2>3 DEF Rows, Suits, CallRecords
    <3> HIDE DEF verdict
    <3> QED
      BY <1>0, <2>1, <3>1, <3>2, ReturnsHolds
  <2>4. CASE Fails(k)
    BY <2>1, <2>4, EndHolds
  <2> QED
    BY <1>4, <2>2, <2>3, <2>4 DEF PublishRow
<1>5. CASE PublishInsert(k)
  <2>1. /\ call[k].at = "p_insert" /\ Runs(k) /\ exists' = exists
        /\ faults' \in 0 .. MaxFaults /\ pair \in Pairs /\ call[k].ro \in BOOLEAN
    BY <1>0, <1>5, <1>f, <1>t DEF PublishInsert, Runs, CallRecords
  <2>2. /\ Inserted(k) \in [Pairs -> Seq(BOOLEAN)]
        /\ \A p \in Pairs : p # pair => Inserted(k)[p] = cpvi[p]
        /\ Inserted(k)[pair] = Append(cpvi[pair], call[k].ro)
    BY <1>0, <2>1 DEF Inserted
  <2>3. CASE cpvi' = Inserted(k) /\ OK(k)
    <3> DEFINE verdict == IF call[k].ro THEN "read-only" ELSE "read-write"
    <3>1. Returns(k, verdict) /\ verdict \in Answers /\ verdict # "nothing"
          /\ verdict # "detached"
      BY <2>1, <2>3 DEF OK, Answers
    <3>2. CASE asked[pair] = k /\ call[k].alone
      <4>1. cpvi'[pair] = << call[k].ro >>
        BY <1>0, <2>1, <2>2, <2>3, <3>2 DEF AttachInv, InsertIsFirst, Rows
      <4>2. cpvi'[pair] # << >> /\ Head(cpvi'[pair]) = (verdict = "read-only")
        BY <2>1, <4>1
      <4> HIDE DEF verdict
      <4> QED
        BY <2>1, <2>2, <2>3, <3>1, <4>2, ReturnsHolds
    (* An answer that does not count is as good as none.                   *)
    <3>3. CASE ~(asked[pair] = k /\ call[k].alone)
      <4>1. Returns(k, "nothing") /\ "nothing" \in Answers
        BY <3>1, <3>3 DEF Returns, Answers
      <4> QED
        BY <2>1, <2>2, <2>3, <4>1, ReturnsHolds
    <3> QED
      BY <3>2, <3>3
  <2>4. CASE cpvi' \in {cpvi, Inserted(k)} /\ Fails(k)
    <3>1. Returns(k, "nothing") /\ "nothing" \in Answers
      BY <2>4 DEF Fails, Answers
    <3> QED
      BY <1>0, <2>1, <2>2, <2>4, <3>1, ReturnsHolds
  <2> QED
    BY <1>5, <2>3, <2>4 DEF PublishInsert
<1>6. CASE UnpublishRow(k)
  <2>1. /\ call[k].at = "u_row" /\ Runs(k) /\ UNCHANGED <<exists, cpvi>>
        /\ faults' \in 0 .. MaxFaults
    BY <1>6, <1>f DEF UnpublishRow, Runs
  <2>2. CASE Rows(k) = << >> /\ OK(k)
    <3>1. Returns(k, "detached") /\ "detached" \in Answers
      BY <2>1, <2>2 DEF OK, Answers
    <3> QED
      BY <1>0, <2>1, <2>2, <3>1, ReturnsHolds DEF Rows
  <2>3. CASE Goto(k, "u_delete")
    BY <2>1, <2>3, GotoHolds DEF RunLabels, CallLabels
  <2>4. CASE Fails(k)
    BY <2>1, <2>4, EndHolds
  <2> QED
    BY <1>6, <2>2, <2>3, <2>4 DEF UnpublishRow
<1>7. CASE UnpublishDelete(k)
  <2> DEFINE gone == [cpvi EXCEPT ![pair] = << >>]
  <2>1. /\ call[k].at = "u_delete" /\ Runs(k) /\ exists' = exists
        /\ faults' \in 0 .. MaxFaults /\ pair \in Pairs
    BY <1>0, <1>7, <1>f, <1>t DEF UnpublishDelete, Runs
  <2>2. gone \in [Pairs -> Seq(BOOLEAN)] /\ gone[pair] = << >>
        /\ \A p \in Pairs : p # pair => gone[p] = cpvi[p]
    BY <1>0, <2>1
  <2>3. \/ cpvi' = gone /\ OK(k)
        \/ cpvi' \in {cpvi, gone} /\ Fails(k)
    BY <1>7 DEF UnpublishDelete, Deleted
  <2> HIDE DEF gone
  <2>4. CASE cpvi' = gone /\ OK(k)
    <3>1. Returns(k, "detached") /\ "detached" \in Answers
      BY <2>1, <2>4 DEF OK, Answers
    <3> QED
      BY <2>1, <2>2, <2>4, <3>1, ReturnsHolds
  <2>5. CASE cpvi' \in {cpvi, gone} /\ Fails(k)
    <3>1. Returns(k, "nothing") /\ "nothing" \in Answers
      BY <2>5 DEF Fails, Answers
    <3> QED
      BY <1>0, <2>1, <2>2, <2>5, <3>1, ReturnsHolds
  <2> QED
    BY <2>3, <2>4, <2>5
<1> QED
  BY <1>1, <1>2, <1>3, <1>4, <1>5, <1>6, <1>7 DEF HandlerStep

(* So does every step of callers, controllers and plugins.                 *)
LEMMA AttachStep ==
    ASSUME AttachInv, AttachNext \/ UNCHANGED <<heartbeatVars, attachVars>>
    PROVE  AttachInv'
<1>1. CASE UNCHANGED attachVars
  BY <1>1, QuietHolds DEF attachVars
<1>2. CASE CallNext
  <2>1. ASSUME NEW k \in Calls, NEW p \in Pairs, NEW c \in Controllers,
               PublishCall(k, p, c) \/ UnpublishCall(k, p, c)
        PROVE  AttachInv'
    BY <2>1, AskHolds, AttachAssumption DEF PublishCall, UnpublishCall
  <2>2. ASSUME NEW v \in Volumes, Vanish(v)
        PROVE  AttachInv'
    BY <2>2, QuietHolds DEF Vanish
  <2> QED
    BY <1>2, <2>1, <2>2, GiveUpHolds, HandlerHolds, CrashHolds DEF CallNext
<1> QED
  BY <1>1, <1>2 DEF AttachNext, attachVars

(* AttachInv always holds: OK answers of publish and unpublish calls, the  *)
(* mutex and the calls that have been given up fit together as it says.    *)
THEOREM AttachInvAlways ==
    AttachSpec => []AttachInv
<1>1. AttachInv /\ [AttachNext]_<<heartbeatVars, attachVars>> => AttachInv'
  BY AttachStep
<1> QED
  BY <1>1, AttachInitHolds, PTL DEF AttachSpec

(* A volume whose attachment was answered OK has its row, of the mode that *)
(* was asked for (AttachedHasRow), whatever fails, is lost or given up, at *)
(* however many controllers.                                               *)
THEOREM AttachedHasRowAlways ==
    AttachSpec => []AttachedHasRow
<1>1. AttachInv => AttachedHasRow
  BY DEF AttachInv
<1> QED
  BY <1>1, AttachInvAlways, PTL

(* After an unpublish answered OK no row is left (DetachedIsClean).        *)
THEOREM DetachedIsCleanAlways ==
    AttachSpec => []DetachedIsClean
<1>1. AttachInv => DetachedIsClean
  BY DEF AttachInv
<1> QED
  BY <1>1, AttachInvAlways, PTL

(* Nodes' rows and goroutines keep HeartbeatInv, whatever controllers do.  *)
LEMMA HeartbeatInvAlways ==
    ASSUME WindowHolds
    PROVE  AttachSpec => []HeartbeatInv
<1>1. AttachInit => HeartbeatInv
  BY InitHolds DEF AttachInit
<1>2. HeartbeatInv /\ [AttachNext]_<<heartbeatVars, attachVars>> => HeartbeatInv'
  <2>1. CASE HeartbeatNext
    BY <2>1, HeartbeatStep
  <2>2. CASE UNCHANGED heartbeatVars
    BY <2>2 DEF heartbeatVars, HeartbeatInv, HeartbeatTypeOK, BeatOK, SeenOK
  <2> QED
    BY <2>1, <2>2 DEF AttachNext
<1> QED
  BY <1>1, <1>2, PTL DEF AttachSpec

(* A node plugin that serves is never taken for gone (ServingIsFound) if   *)
(* the window has room for the writes that are slow or fail (WindowHolds). *)
THEOREM ServingIsFoundAlways ==
    ASSUME WindowHolds
    PROVE  AttachSpec => []ServingIsFound
<1>1. HeartbeatInv => ServingIsFound
  BY ServingHolds
<1> QED
  BY <1>1, HeartbeatInvAlways, PTL

(* Every variable keeps its kind (AttachTypeOK): no write of a heartbeat   *)
(* is waited for longer than MaxDelay, no counter passes its bound.        *)
THEOREM AttachTypeOKAlways ==
    ASSUME WindowHolds
    PROVE  AttachSpec => []AttachTypeOK
<1>1. HeartbeatInv /\ AttachInv => AttachTypeOK
  BY DEF HeartbeatInv, AttachInv, AttachTypeOK
<1> QED
  BY <1>1, HeartbeatInvAlways, AttachInvAlways, PTL
=============================================================================
