------------------------------- MODULE Attach -------------------------------
(***************************************************************************)
(* Attaching volumes to nodes (controllerserver.go): ControllerPublish-    *)
(* Volume and ControllerUnpublishVolume over the rows of                   *)
(* controller_publish_volume_infos.  A controller process runs one handler *)
(* at a time (controllerServer.mutex); calls for it wait for the mutex, in *)
(* no order a caller may rely on.  A caller that gives up leaves its call  *)
(* waiting or running, as handlers do not look at their context, and may   *)
(* turn to another controller.  One action is one statement.               *)
(***************************************************************************)
EXTENDS Heartbeat, Sequences

CONSTANTS Volumes,
          Controllers,  \* controller processes
          Calls,        \* calls that may be under way at the same time
          Modes,        \* values of Readonly callers ask for
          MaxFaults,    \* bound: faults over a behaviour
          FaultKinds    \* the faults that may happen, see Fault

Pairs == Volumes \X Nodes
NoCall == "none"
NoPair == <<"none", "none">>

ASSUME AttachAssumption ==
    /\ MaxFaults \in Nat /\ Modes \subseteq BOOLEAN
    /\ NoCall \notin Calls /\ NoPair \notin Pairs

VARIABLES
    exists,    \* volumes that have their row
    cpvi,      \* cpvi[p]: ReadOnly of the live rows of a volume and node,
               \* in the order of StorageID
    call,      \* call[k]: a ControllerPublish- or UnpublishVolume call
    asked,     \* asked[p]: the call whose answer the caller waits for
    answered,  \* history: what the last call of the caller was answered
    faults     \* faults so far

attachVars == <<exists, cpvi, call, asked, answered, faults>>

CallLabels == {"idle", "p_wait", "p_node", "p_row", "p_insert",
               "u_wait", "u_row", "u_delete"}

(* alone: history, no earlier call for the pair could still overtake it.   *)
Idle == [at |-> "idle", ctl |-> "none", pair |-> NoPair, ro |-> FALSE,
         alone |-> FALSE]

AttachInit ==
    /\ HeartbeatInit
    /\ exists = Volumes
    /\ cpvi = [p \in Pairs |-> << >>]
    /\ call = [k \in Calls |-> Idle]
    /\ asked = [p \in Pairs |-> NoCall]
    /\ answered = [p \in Pairs |-> "nothing"]
    /\ faults = 0

Answers == {"nothing", "detached", "read-only", "read-write"}

CallTypeOK ==
    /\ exists \subseteq Volumes
    /\ cpvi \in [Pairs -> Seq(BOOLEAN)]
    /\ call \in [Calls -> [at: CallLabels, ctl: Controllers \cup {"none"},
                           pair: Pairs \cup {NoPair}, ro: BOOLEAN, alone: BOOLEAN]]
    /\ \A k \in Calls : call[k].at # "idle" =>
          call[k].ctl \in Controllers /\ call[k].pair \in Pairs
    /\ asked \in [Pairs -> Calls \cup {NoCall}]
    /\ answered \in [Pairs -> Answers]
    /\ faults \in 0 .. MaxFaults

AttachTypeOK == HeartbeatTypeOK /\ CallTypeOK

(* read: a SELECT; write: an INSERT or DELETE is answered by an error,     *)
(* whether or not it was applied; crash: the controller process ends.      *)
Fault(kind) ==
    /\ kind \in FaultKinds
    /\ faults < MaxFaults
    /\ faults' = faults + 1

NoFault == faults' = faults

Waits(k) == call[k].at \in {"p_wait", "u_wait"}
Runs(k) == call[k].at \notin {"idle", "p_wait", "u_wait"}
Rows(k) == cpvi[call[k].pair]

-----------------------------------------------------------------------------
(* The callers: one call at a time for a pair, as far as they know.        *)

Alone(p, c) ==
    \A k \in Calls : call[k].pair = p => Runs(k) /\ call[k].ctl = c

Ask(k, p, c, label, ro) ==
    /\ call[k].at = "idle"
    /\ asked[p] = NoCall
    /\ call' = [call EXCEPT ![k] = [at |-> label, ctl |-> c, pair |-> p, ro |-> ro,
                                    alone |-> Alone(p, c)]]
    /\ asked' = [asked EXCEPT ![p] = k]
    /\ answered' = [answered EXCEPT ![p] = "nothing"]
    /\ UNCHANGED <<exists, cpvi, faults>>

PublishCall(k, p, c) == \E ro \in Modes : Ask(k, p, c, "p_wait", ro)
UnpublishCall(k, p, c) == Ask(k, p, c, "u_wait", FALSE)

GiveUp(p) ==
    /\ asked[p] # NoCall
    /\ asked' = [asked EXCEPT ![p] = NoCall]
    /\ UNCHANGED <<exists, cpvi, call, answered, faults>>

(* DeleteVolume does not look at the attachments.                          *)
Vanish(v) ==
    /\ v \in exists
    /\ exists' = exists \ {v}
    /\ UNCHANGED <<cpvi, call, asked, answered, faults>>

-----------------------------------------------------------------------------
(* The handlers *)

(* Mutant of Unlocked: nothing is locked. *)
NoMutex(c) == TRUE

Unlocked(c) == \A k \in Calls : call[k].ctl = c => ~Runs(k)

Goto(k, label) ==
    /\ call' = [call EXCEPT ![k] = [@ EXCEPT !.at = label]]
    /\ UNCHANGED <<asked, answered>>

(* The handler returns.  OK counts where the caller still waits for it.    *)
Returns(k, verdict) ==
    LET p == call[k].pair IN
    /\ call' = [call EXCEPT ![k] = Idle]
    /\ asked' = [asked EXCEPT ![p] = IF @ = k THEN NoCall ELSE @]
    /\ answered' = [answered EXCEPT ![p] =
                        IF asked[p] = k /\ call[k].alone THEN verdict ELSE @]

OK(k) ==
    Returns(k, IF call[k].at \in {"u_row", "u_delete"} THEN "detached"
               ELSE IF call[k].ro THEN "read-only" ELSE "read-write")
Fails(k) == Returns(k, "nothing")

(* GetVolume, the first statement under the mutex; any error is the answer *)
(* NotFound.                                                               *)
CheckVolume(k, label, next) ==
    /\ call[k].at = label
    /\ Unlocked(call[k].ctl)
    /\ \/ call[k].pair[1] \in exists /\ Goto(k, next) /\ NoFault
       \/ call[k].pair[1] \notin exists /\ Fails(k) /\ NoFault
       \/ Fails(k) /\ Fault("read")
    /\ UNCHANGED <<exists, cpvi>>

PublishVolume(k) == CheckVolume(k, "p_wait", "p_node")

PublishNode(k) ==
    LET n == call[k].pair[2] IN
    /\ call[k].at = "p_node"
    /\ \/ MayFind(n) /\ Goto(k, "p_row") /\ NoFault
       \/ MayMiss(n) /\ Fails(k) /\ NoFault
       \/ Fails(k) /\ Fault("read")
    /\ UNCHANGED <<exists, cpvi>>

(* Mutant of Suits: a row of either mode will do. *)
AnyMode(row, ro) == TRUE

Suits(row, ro) == row = ro

(* GetControllerPublishVolumeInfo: the first row there is.  Of its errors  *)
(* only "record not found" lets the handler go on.                         *)
PublishRow(k) ==
    /\ call[k].at = "p_row"
    /\ \/ Rows(k) = << >> /\ Goto(k, "p_insert") /\ NoFault
       \/ Rows(k) # << >> /\ Suits(Head(Rows(k)), call[k].ro) /\ OK(k) /\ NoFault
       \/ Rows(k) # << >> /\ ~Suits(Head(Rows(k)), call[k].ro) /\ Fails(k) /\ NoFault
       \/ Fails(k) /\ Fault("read")
    /\ UNCHANGED <<exists, cpvi>>

Inserted(k) == [cpvi EXCEPT ![call[k].pair] = Append(@, call[k].ro)]

PublishInsert(k) ==
    /\ call[k].at = "p_insert"
    /\ \/ cpvi' = Inserted(k) /\ OK(k) /\ NoFault
       \/ cpvi' \in {cpvi, Inserted(k)} /\ Fails(k) /\ Fault("write")
    /\ UNCHANGED exists

UnpublishVolume(k) == CheckVolume(k, "u_wait", "u_row")

UnpublishRow(k) ==
    /\ call[k].at = "u_row"
    /\ \/ Rows(k) = << >> /\ OK(k) /\ NoFault
       \/ Rows(k) # << >> /\ Goto(k, "u_delete") /\ NoFault
       \/ Fails(k) /\ Fault("read")
    /\ UNCHANGED <<exists, cpvi>>

(* Mutant of Deleted: of several rows only the one that was read goes. *)
FirstDeleted(rows) == IF rows = << >> THEN rows ELSE Tail(rows)

(* The DELETE takes all rows of the volume and node.                       *)
Deleted(rows) == << >>

UnpublishDelete(k) ==
    LET gone == [cpvi EXCEPT ![call[k].pair] = Deleted(@)] IN
    /\ call[k].at = "u_delete"
    /\ \/ cpvi' = gone /\ OK(k) /\ NoFault
       \/ cpvi' \in {cpvi, gone} /\ Fails(k) /\ Fault("write")
    /\ UNCHANGED exists

(* A controller process ends with all its calls; callers get an error.     *)
ControllerCrash(c) ==
    LET lost == {k \in Calls : call[k].ctl = c} IN
    /\ lost # {}
    /\ call' = [k \in Calls |-> IF k \in lost THEN Idle ELSE call[k]]
    /\ asked' = [p \in Pairs |-> IF asked[p] \in lost THEN NoCall ELSE asked[p]]
    /\ Fault("crash")
    /\ UNCHANGED <<exists, cpvi, answered>>

-----------------------------------------------------------------------------
HandlerStep(k) ==
    \/ PublishVolume(k) \/ PublishNode(k) \/ PublishRow(k) \/ PublishInsert(k)
    \/ UnpublishVolume(k) \/ UnpublishRow(k) \/ UnpublishDelete(k)

CallNext ==
    \/ \E k \in Calls, p \in Pairs, c \in Controllers :
          PublishCall(k, p, c) \/ UnpublishCall(k, p, c)
    \/ \E p \in Pairs : GiveUp(p)
    \/ \E v \in Volumes : Vanish(v)
    \/ \E k \in Calls : HandlerStep(k)
    \/ \E c \in Controllers : ControllerCrash(c)

AttachNext ==
    \/ CallNext /\ UNCHANGED heartbeatVars
    \/ HeartbeatNext /\ UNCHANGED attachVars

AttachSpec == AttachInit /\ [][AttachNext]_<<heartbeatVars, attachVars>>

-----------------------------------------------------------------------------
(* A volume whose attachment was answered OK has its row, of the mode that *)
(* was asked for, until the caller's next call for it: whatever was tried, *)
(* lost or given up before, at whichever controller.  Calls given up that  *)
(* may still overtake the last one are the exception (alone): nothing      *)
(* stops them.                                                             *)
AttachedHasRow ==
    \A p \in Pairs : answered[p] \in {"read-only", "read-write"} =>
        cpvi[p] # << >> /\ Head(cpvi[p]) = (answered[p] = "read-only")

(* After an unpublish answered OK no row is left, with the same exception. *)
DetachedIsClean ==
    \A p \in Pairs : answered[p] = "detached" => cpvi[p] = << >>

-----------------------------------------------------------------------------
(* Why they hold: an answer counts only for a call nothing can overtake.   *)

(* The call a caller waits for is there, and has not been answered.        *)
AskedWaits ==
    \A p \in Pairs : asked[p] # NoCall =>
        /\ call[asked[p]].at # "idle" /\ call[asked[p]].pair = p
        /\ answered[p] = "nothing"

IdleIsEmpty == \A k \in Calls : call[k].at = "idle" => call[k] = Idle

(* controllerServer.mutex *)
OneHandler ==
    \A j, k \in Calls : Runs(j) /\ Runs(k) /\ call[j].ctl = call[k].ctl => j = k

(* Earlier calls of the pair have the mutex the call is waiting for.       *)
AloneIsLast ==
    \A p \in Pairs, j, k \in Calls :
        asked[p] = k /\ call[k].alone /\ j # k /\ call[j].pair = p
            => Runs(j) /\ call[j].ctl = call[k].ctl

AnsweredIsQuiet ==
    \A p \in Pairs : answered[p] # "nothing" => \A k \in Calls : call[k].pair # p

InsertIsFirst ==
    \A k \in Calls :
        call[k].at = "p_insert" /\ asked[call[k].pair] = k /\ call[k].alone
            => Rows(k) = << >>

AttachInv ==
    /\ CallTypeOK
    /\ AskedWaits /\ IdleIsEmpty /\ OneHandler /\ AloneIsLast
    /\ AnsweredIsQuiet /\ InsertIsFirst
    /\ AttachedHasRow /\ DetachedIsClean
=============================================================================
