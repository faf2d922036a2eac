------------------------------ MODULE Heartbeat ------------------------------
(***************************************************************************)
(* How controllers know which nodes are alive: every node plugin writes    *)
(* the time of each tick of a 5 s ticker into its row of node_infos        *)
(* (NewNodeServer of nodeserver.go), and ControllerPublishVolume takes a   *)
(* node for gone whose last_seen is more than 30 s old (GetNodeInfo of     *)
(* utils.go).                                                              *)
(*                                                                         *)
(* Time is counted in periods of the ticker.  An age is the number of      *)
(* periods that ended since a moment, capped where it no longer matters.   *)
(* The clocks of nodes and controllers are taken to agree.                 *)
(***************************************************************************)
EXTENDS Integers

CONSTANTS Nodes,
          Window,     \* periods after which a node is gone: 30 s / 5 s
          MaxDelay,   \* bound: periods the write of a heartbeat takes
          MaxMisses   \* bound: heartbeats in a row that fail

ASSUME HeartbeatAssumption ==
    /\ Window \in Nat \ {0} /\ MaxDelay \in Nat /\ MaxMisses \in Nat

VARIABLES
    seen,   \* seen[n]: the age of last_seen in the row of node n
    beat    \* beat[n]: the goroutine that keeps it, and its ticker

heartbeatVars == <<seen, beat>>

(* Of an age beyond the window nothing is known; no row is no better.      *)
Old == Window + 1
Ages == 0 .. Old
NoTick == -1

(* at: down, or what the plugin is doing; value: the age of the time it    *)
(* writes; took: how long the write takes so far; tick: the age of the     *)
(* tick in the ticker's channel, which has room for one; misses: writes    *)
(* that failed in a row; joined: history, one of this process succeeded.   *)
Down == [at |-> "down", value |-> 0, took |-> 0, tick |-> NoTick,
         misses |-> 0, joined |-> FALSE]

HeartbeatInit ==
    /\ seen = [n \in Nodes |-> Old]
    /\ beat = [n \in Nodes |-> Down]

HeartbeatTypeOK ==
    /\ seen \in [Nodes -> Ages]
    /\ beat \in [Nodes -> [at: {"down", "start", "wait", "write"}, value: Ages,
                           took: 0 .. MaxDelay, tick: Ages \cup {NoTick},
                           misses: 0 .. MaxMisses, joined: BOOLEAN]]

Doing(n, what) == beat[n].at = what
Writing(n) == Doing(n, "start") \/ Doing(n, "write")

(* NewNodeServer writes the time once before it makes the ticker.          *)
NodeStart(n) ==
    /\ Doing(n, "down")
    /\ beat' = [beat EXCEPT ![n] = [Down EXCEPT !.at = "start"]]
    /\ UNCHANGED seen

(* The goroutine takes the tick out of the channel.                        *)
BeatTake(n) ==
    /\ Doing(n, "wait") /\ beat[n].tick # NoTick
    /\ beat' = [beat EXCEPT ![n] = [beat[n] EXCEPT !.at = "write", !.took = 0,
                                        !.value = beat[n].tick, !.tick = NoTick]]
    /\ UNCHANGED seen

(* UpdateNodeInfoLastSeen; its error is only logged.                       *)
BeatWrite(n) ==
    /\ Writing(n)
    /\ \/ /\ seen' = [seen EXCEPT ![n] = beat[n].value]
          /\ beat' = [beat EXCEPT ![n] = [@ EXCEPT !.at = "wait", !.misses = 0,
                                                   !.joined = TRUE]]
       \/ /\ beat[n].misses < MaxMisses
          /\ seen' \in {seen, [seen EXCEPT ![n] = beat[n].value]}
          /\ beat' = [beat EXCEPT ![n] = [@ EXCEPT !.at = "wait",
                                                   !.misses = beat[n].misses + 1]]

(* The plugin ends; a write that was on its way may still arrive.          *)
NodeStop(n) ==
    /\ ~Doing(n, "down")
    /\ beat' = [beat EXCEPT ![n] = Down]
    /\ \/ UNCHANGED seen
       \/ Writing(n) /\ seen' = [seen EXCEPT ![n] = beat[n].value]

Older(age) == IF age = Old THEN Old ELSE age + 1

(* Mutant of Fires: a channel without room drops the ticks of a busy time. *)
Unbuffered(b) == IF b.at = "write" THEN NoTick ELSE 0

(* A ticker drops a tick the channel has no room for.                      *)
Fires(b) == IF b.tick = NoTick THEN 0 ELSE Older(b.tick)

Passed(b) ==
    [b EXCEPT !.value = IF b.at \in {"start", "write"} THEN Older(b.value) ELSE b.value,
              !.took = IF b.at \in {"start", "write"} THEN b.took + 1 ELSE b.took,
              !.tick = IF b.at \in {"wait", "write"} THEN Fires(b) ELSE NoTick]

(* Mutant of Prompt: the database takes any time. *)
Patient(n) == Doing(n, "wait") => beat[n].tick = NoTick

(* A period ends.  The goroutine does not leave a tick waiting while it is *)
(* free, and the database answers in MaxDelay periods.                     *)
Prompt(n) ==
    /\ Doing(n, "wait") => beat[n].tick = NoTick
    /\ Writing(n) => beat[n].took < MaxDelay

Elapse ==
    /\ \A n \in Nodes : Prompt(n)
    /\ seen' = [n \in Nodes |-> Older(seen[n])]
    /\ beat' = [n \in Nodes |-> Passed(beat[n])]

HeartbeatNext ==
    \/ \E n \in Nodes : NodeStart(n) \/ BeatTake(n) \/ BeatWrite(n) \/ NodeStop(n)
    \/ Elapse

(* GetNodeInfo with an age of 30 s.  At exactly Window periods it depends  *)
(* on where in its period the controller asks.                             *)
MayFind(n) == seen[n] <= Window
MayMiss(n) == seen[n] >= Window

-----------------------------------------------------------------------------
Serving(n) == Doing(n, "wait") \/ Doing(n, "write")

(* A plugin that serves and was recorded once is never taken for gone:     *)
(* slow writes that hold up the ticker and failed ones together do not     *)
(* use up the 30 s.                                                        *)
ServingIsFound == \A n \in Nodes : Serving(n) /\ beat[n].joined => ~MayMiss(n)

-----------------------------------------------------------------------------
(* Why the window is long enough: the times of two heartbeats in a row are *)
(* Gap periods apart at most, and one more for the first tick after a slow *)
(* first write.                                                            *)
Gap == IF MaxDelay = 0 THEN 1 ELSE MaxDelay
Lag(misses) == (misses + 1) * Gap + 1

WindowHolds ==
    /\ Window > (MaxMisses + 3) * MaxDelay
    /\ Window > MaxMisses + 2

BeatOK(n) ==
    LET b == beat[n] IN
    /\ b.at = "down" => ~b.joined
    /\ b.at = "start" => ~b.joined /\ b.tick = NoTick /\ b.value = b.took
    /\ b.at = "wait" => b.tick < Gap
    /\ b.at = "write" =>
          /\ b.value < Gap + b.took
          /\ b.tick = NoTick => b.took = 0
          /\ b.tick # NoTick => b.tick < b.took /\ b.value - b.tick <= Gap

SeenOK(n) ==
    LET b == beat[n] IN
    b.joined =>
        /\ b.at = "wait" /\ b.tick = NoTick => seen[n] < Lag(b.misses)
        /\ b.at = "wait" /\ b.tick # NoTick => seen[n] - b.tick <= Lag(b.misses)
        /\ b.at = "write" => seen[n] - b.value <= Lag(b.misses)

HeartbeatInv == HeartbeatTypeOK /\ \A n \in Nodes : BeatOK(n) /\ SeenOK(n)
=============================================================================
