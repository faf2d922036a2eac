---------------------------- MODULE VolumeCatalog ----------------------------
(***************************************************************************)
(* What the controller service promises its callers, without its           *)
(* statements, its files, its locks or its failures: a catalog of volumes  *)
(* with unique names, whose capacities only grow, and answers that are     *)
(* given only for what the catalog holds.                                  *)
(***************************************************************************)
EXTENDS Integers

CONSTANTS Ids, VolNames, Capacities

VARIABLES
    state,    \* state[v]: "free", "live" or "gone"
    name,     \* name[v]: the name of a live volume
    capacity, \* capacity[v]: its capacity
    held,     \* volumes whose creation was answered
    granted,  \* granted[v]: the largest capacity answered for v
    freed     \* volumes whose deletion was answered

vars == <<state, name, capacity, held, granted, freed>>

Live == {v \in Ids : state[v] = "live"}

Init ==
    /\ state = [v \in Ids |-> "free"]
    /\ name = [v \in Ids |-> "none"]
    /\ capacity = [v \in Ids |-> 0]
    /\ held = {} /\ freed = {}
    /\ granted = [v \in Ids |-> 0]

(* A volume appears under a name no live volume has, answered or not.      *)
Provision(v, n, c) ==
    /\ state[v] = "free"
    /\ \A u \in Live : name[u] # n
    /\ state' = [state EXCEPT ![v] = "live"]
    /\ name' = [name EXCEPT ![v] = n]
    /\ capacity' = [capacity EXCEPT ![v] = c]
    /\ \/ UNCHANGED <<held, granted>>
       \/ held' = held \cup {v} /\ granted' = [granted EXCEPT ![v] = c]
    /\ UNCHANGED freed

(* CreateVolume or ControllerExpandVolume is answered for a live volume    *)
(* with a capacity it has.                                                 *)
Answer(v, c) ==
    /\ v \in Live
    /\ c <= capacity[v]
    /\ held' = held \cup {v}
    /\ granted' = [granted EXCEPT ![v] = IF c > @ THEN c ELSE @]
    /\ UNCHANGED <<state, name, capacity, freed>>

Grow(v, c) ==
    /\ v \in Live
    /\ c > capacity[v]
    /\ capacity' = [capacity EXCEPT ![v] = c]
    /\ UNCHANGED <<state, name, held, granted, freed>>

Remove(v) ==
    /\ v \in Live
    /\ state' = [state EXCEPT ![v] = "gone"]
    /\ UNCHANGED <<name, capacity, held, granted, freed>>

AnswerGone(v) ==
    /\ state[v] = "gone"
    /\ freed' = freed \cup {v}
    /\ UNCHANGED <<state, name, capacity, held, granted>>

Next ==
    \E v \in Ids :
        \/ \E n \in VolNames, c \in Capacities : Provision(v, n, c)
        \/ \E c \in Capacities : Answer(v, c) \/ Grow(v, c)
        \/ Remove(v) \/ AnswerGone(v)

Spec == Init /\ [][Next]_vars
=============================================================================
