------------------------------ MODULE NodeProofs ------------------------------
(***************************************************************************)
(* Proofs about NodeServer, for any targets, volumes, uses, calls, loop    *)
(* devices and faults: its types, and what its answers promise when        *)
(* callers make the calls of a target, and of a block volume, in turn.     *)
(***************************************************************************)
EXTENDS NodeServer, FiniteSetTheorems, SequenceTheorems, WellFoundedInduction, TLAPS

-----------------------------------------------------------------------------
(* Types *)

CallRecords == [at: CallLabels, target: Targets \cup {NoTarget},
                dev: Devices \cup {NoDevice}, asked: 0 .. MaxSize]

LoopRecords == [vol: Volumes \cup {NoVolume}, size: 0 .. MaxSize, closing: BOOLEAN]

(* Where only a call for a block volume gets.                              *)
BlockLabels == {"p_find", "p_make", "p_target", "u_find", "u_detach",
                "x_find", "x_reread", "x_check", "x_resize"}

(* A call for t at this statement has found or made a loop device.         *)
Carries(label, t) ==
    \/ label \in {"p_target", "u_detach", "x_reread", "x_check", "x_resize"}
    \/ label = "p_check" /\ Kind(t) = "raw"
    \/ label = "p_mount" /\ OnBlock(t)

(* A call for t with device d can be at this statement.                    *)
Fit(label, t, d) ==
    /\ t \in Targets
    /\ label \in BlockLabels => OnBlock(t)
    /\ label = "p_target" => Kind(t) = "raw"
    /\ label \in {"x_check", "x_resize"} => Kind(t) = "disk"
    /\ label = "p_mkdir" => Kind(t) # "raw"
    /\ Carries(label, t) => d \in Devices

CallsOK ==
    /\ call \in [Calls -> CallRecords]
    /\ \A c \in Calls : At(c, "idle") \/ Fit(call[c].at, T(c), call[c].dev)

KernelOK ==
    /\ use \in Uses
    /\ path \in [Targets -> {"none", "file", "dir"}]
    /\ mounts \in [Targets -> Seq(Layers)]
    /\ loop \in [Devices -> LoopRecords]
    /\ file \in [Volumes -> 1 .. MaxSize] /\ fsys \in [Volumes -> 0 .. MaxSize]
    /\ intact \subseteq Volumes

AnswersOK ==
    /\ npvi \in [Targets -> 0 .. 2]
    /\ published \in [Targets -> BOOLEAN] /\ gone \in [Targets -> BOOLEAN]
    /\ fits \in [Volumes -> 0 .. MaxSize]

(* The inductive type invariant.                                           *)
NodeTypeInv == CallsOK /\ KernelOK /\ AnswersOK /\ faults \in 0 .. MaxFaults

(* The type invariant contains what the runs check.                        *)
LEMMA TypeInvImplies == NodeTypeInv => NodeTypeOK
BY DEF NodeTypeInv, NodeTypeOK, CallsOK, KernelOK, AnswersOK, CallRecords,
       LoopRecords, Fit, Carries, At, T

(* A set of naturals has a least element.                                  *)
LEMMA LeastElement ==
    ASSUME NEW S \in SUBSET Nat, S # {}
    PROVE  \E m \in S : \A k \in S : m <= k
<1> DEFINE R == OpToRel(<, Nat)
<1>1. \A a, b \in Nat : a < b => <<a, b>> \in R
  BY DEF OpToRel
<1>2. IsWellFoundedOn(R, Nat)
  BY NatLessThanWellFounded
<1> HIDE DEF R
<1>3. PICK x \in S : \A y \in S : ~(<<y, x>> \in R)
  BY <1>2, WFMin
<1>4. x \in Nat /\ \A y \in S : y \in Nat
  OBVIOUS
<1>5. \A y \in S : ~(y < x)
  BY <1>1, <1>3, <1>4
<1> QED
  BY <1>4, <1>5

(* GetLoopDevice finds a device of the file when there is one.             *)
LEMMA FoundIsOf ==
    ASSUME NEW v
    PROVE  /\ LoopsOf(v) = {} => FoundLoop(v) = NoDevice
           /\ LoopsOf(v) # {} => FoundLoop(v) \in LoopsOf(v)
           /\ FoundLoop(v) # NoDevice => FoundLoop(v) \in LoopsOf(v)
           /\ LoopsOf(v) \subseteq Devices /\ NoDevice \notin Devices
<1>1. LoopsOf(v) \in SUBSET Devices /\ LoopsOf(v) \in SUBSET Nat /\ NoDevice \notin Devices
  BY NodeAssumption DEF LoopsOf, Devices, NoDevice
<1>2. ASSUME LoopsOf(v) # {} PROVE FoundLoop(v) \in LoopsOf(v)
  <2>1. \E d \in LoopsOf(v) : \A e \in LoopsOf(v) : d <= e
    BY <1>1, <1>2, LeastElement
  <2> QED
    BY <1>2, <2>1 DEF FoundLoop
<1>3. LoopsOf(v) = {} => FoundLoop(v) = NoDevice
  BY DEF FoundLoop
<1> QED
  BY <1>1, <1>2, <1>3

(* The use of a target.                                                    *)
LEMMA UseFacts ==
    ASSUME KernelOK, NEW t \in Targets
    PROVE  /\ Vol(t) \in Volumes /\ Vol(t) # NoVolume
           /\ Kind(t) \in {"raw", "disk", "folder"} /\ use[t].ro \in BOOLEAN
           /\ \A s \in Targets : Vol(s) = Vol(t) => (OnBlock(s) <=> OnBlock(t))
BY NodeAssumption DEF KernelOK, Publications, Vol, Kind, OnBlock

(* A call moves on.                                                        *)
LEMMA MoveType ==
    ASSUME CallsOK, UNCHANGED use, NEW c \in Calls, NEW r \in CallRecords,
           r.at = "idle" \/ Fit(r.at, r.target, r.dev),
           call' = [call EXCEPT ![c] = r]
    PROVE  CallsOK'
BY DEF CallsOK, Fit, Carries, At, T, Kind, OnBlock

(* A call goes on, with the device it found or made.                       *)
LEMMA GotoWithType ==
    ASSUME CallsOK, UNCHANGED use, NEW c \in Calls, NEW label \in CallLabels,
           NEW d \in Devices \cup {NoDevice}, Fit(label, T(c), d),
           GotoWith(c, label, d)
    PROVE  CallsOK'
<1> DEFINE r == [call[c] EXCEPT !.at = label, !.dev = d]
<1>1. r \in CallRecords /\ r.at = label /\ r.target = T(c) /\ r.dev = d
  BY DEF CallsOK, CallRecords, T
<1>2. call' = [call EXCEPT ![c] = r]
  BY DEF GotoWith
<1> HIDE DEF r
<1> QED
  BY <1>1, <1>2, MoveType

(* A call goes on.                                                         *)
LEMMA GotoType ==
    ASSUME CallsOK, UNCHANGED use, NEW c \in Calls, NEW label \in CallLabels,
           Fit(label, T(c), call[c].dev), Goto(c, label)
    PROVE  CallsOK'
<1> DEFINE r == [call[c] EXCEPT !.at = label]
<1>1. r \in CallRecords /\ r.at = label /\ r.target = T(c) /\ r.dev = call[c].dev
  BY DEF CallsOK, CallRecords, T
<1>2. call' = [call EXCEPT ![c] = r]
  BY DEF Goto
<1> HIDE DEF r
<1> QED
  BY <1>1, <1>2, MoveType

(* A call returns.                                                         *)
LEMMA ReturnType ==
    ASSUME CallsOK, UNCHANGED use, NEW c \in Calls, Return(c)
    PROVE  CallsOK'
<1>1. NoCall \in CallRecords /\ NoCall.at = "idle"
  BY NodeAssumption DEF NoCall, CallRecords, CallLabels
<1> QED
  BY <1>1, MoveType DEF Return

(* A step that only looks: it returns or goes on where it fits.            *)
LEMMA LooksType ==
    ASSUME NodeTypeInv, NEW c \in Calls, NEW label, NEW next, NEW kind,
           Looks(c, label, next, kind),
           next # "return" => next \in CallLabels /\ Fit(next, T(c), call[c].dev)
    PROVE  NodeTypeInv'
<1>1. UNCHANGED <<kernel, npvi, answers>> /\ UNCHANGED use
  BY DEF Looks, kernel
<1>2. CallsOK'
  BY <1>1, GotoType, ReturnType DEF Looks, NodeTypeInv
<1>3. faults' \in 0 .. MaxFaults
  BY NodeAssumption DEF Looks, NodeTypeInv, Fault, NoFault
<1> QED
  BY <1>1, <1>2, <1>3 DEF NodeTypeInv, KernelOK, AnswersOK, kernel, answers

(* A step that looks for the loop device.                                  *)
LEMMA FindsType ==
    ASSUME NodeTypeInv, NEW c \in Calls, NEW label, NEW found, NEW missing,
           FindsLoop(c, label, found, missing), found \in CallLabels,
           \A d \in Devices : Fit(found, T(c), d),
           missing # "return" => missing \in CallLabels /\ Fit(missing, T(c), call[c].dev)
    PROVE  NodeTypeInv'
<1>1. UNCHANGED <<kernel, npvi, answers>> /\ UNCHANGED use
  BY DEF FindsLoop, kernel
<1>2. FoundLoop(Vol(T(c))) # NoDevice => FoundLoop(Vol(T(c))) \in Devices
  BY FoundIsOf
<1>3. CallsOK'
  BY <1>1, <1>2, GotoType, GotoWithType, ReturnType DEF FindsLoop, NodeTypeInv
<1>4. faults' \in 0 .. MaxFaults
  BY NodeAssumption DEF FindsLoop, NodeTypeInv, Fault, NoFault
<1> QED
  BY <1>1, <1>3, <1>4 DEF NodeTypeInv, KernelOK, AnswersOK, kernel, answers

-----------------------------------------------------------------------------
(* The kernel's records stay what they are.                                *)
LEMMA LoopTypes ==
    ASSUME NEW l \in [Devices -> LoopRecords], NEW d \in Devices
    PROVE  /\ \A m : Settled(l, m) \in [Devices -> LoopRecords]
           /\ [l EXCEPT ![d] = [@ EXCEPT !.closing = TRUE]] \in [Devices -> LoopRecords]
           /\ \A v \in Volumes, n \in 0 .. MaxSize :
                 [l EXCEPT ![d] = [vol |-> v, size |-> n, closing |-> FALSE]]
                     \in [Devices -> LoopRecords]
<1>1. NoLoop \in LoopRecords
  BY NodeAssumption DEF NoLoop, LoopRecords
<1>2. \A m : Settled(l, m) \in [Devices -> LoopRecords]
  BY <1>1 DEF Settled
<1>3. [l[d] EXCEPT !.closing = TRUE] \in LoopRecords
  BY DEF LoopRecords
<1>4. \A v \in Volumes, n \in 0 .. MaxSize :
          [vol |-> v, size |-> n, closing |-> FALSE] \in LoopRecords
  BY DEF LoopRecords
<1> QED
  BY <1>2, <1>3, <1>4

(* A mount puts a layer on, an unmount takes one off.                      *)
LEMMA MountTypes ==
    ASSUME KernelOK, NEW t \in Targets
    PROVE  /\ \A d \in Devices \cup {NoDevice}, b \in BOOLEAN :
                  Covered(t, d, b) \in [Targets -> Seq(Layers)]
           /\ Mounted(t) => [mounts EXCEPT ![t] = Tail(@)] \in [Targets -> Seq(Layers)]
<1>1. mounts \in [Targets -> Seq(Layers)] /\ mounts[t] \in Seq(Layers)
  BY DEF KernelOK
<1>2. ASSUME NEW d \in Devices \cup {NoDevice}, NEW b \in BOOLEAN
      PROVE  Covered(t, d, b) \in [Targets -> Seq(Layers)]
  <2>1. [dev |-> d, ro |-> b] \in Layers
    BY DEF Layers
  <2>2. <<[dev |-> d, ro |-> b]>> \o mounts[t] \in Seq(Layers)
    BY <1>1, <2>1
  <2> QED
    BY <1>1, <2>2 DEF Covered
<1>3. ASSUME Mounted(t) PROVE [mounts EXCEPT ![t] = Tail(@)] \in [Targets -> Seq(Layers)]
  <2>1. Tail(mounts[t]) \in Seq(Layers)
    BY <1>1, <1>3 DEF Mounted
  <2> QED
    BY <1>1, <2>1
<1> QED
  BY <1>2, <1>3

(* An unmount, and the device that may go with it.                         *)
LEMMA UnmountType ==
    ASSUME KernelOK, NEW t \in Targets, Unmount(t)
    PROVE  mounts' \in [Targets -> Seq(Layers)] /\ loop' \in [Devices -> LoopRecords]
<1>1. loop \in [Devices -> LoopRecords]
  BY DEF KernelOK
<1>2. loop' \in [Devices -> LoopRecords]
  <2>1. NoLoop \in LoopRecords
    BY NodeAssumption DEF NoLoop, LoopRecords
  <2> QED
    BY <1>1, <2>1 DEF Unmount, Settled
<1> QED
  BY <1>2, MountTypes DEF Unmount

-----------------------------------------------------------------------------
(* Every step of a handler keeps the types.                                *)
LEMMA PublishType ==
    ASSUME NodeTypeInv, NEW c \in Calls,
           \/ PublishGet(c) \/ PublishFind(c) \/ PublishMake(c) \/ PublishTarget(c)
           \/ PublishCheck(c) \/ PublishMkdir(c) \/ PublishMount(c) \/ PublishChmod(c)
           \/ PublishRow(c) \/ PublishUndo(c) \/ PublishClear(c)
    PROVE  NodeTypeInv'
<1> DEFINE t == T(c)
           d == call[c].dev
<1>1. CallsOK /\ KernelOK /\ AnswersOK /\ faults \in 0 .. MaxFaults
  BY DEF NodeTypeInv
<1>2. At(c, "idle") \/ Fit(call[c].at, t, d)
  BY <1>1 DEF CallsOK
<1>3. d \in Devices \cup {NoDevice}
  BY <1>1 DEF CallsOK, CallRecords
<1>4. ~At(c, "idle") => /\ t \in Targets /\ Vol(t) \in Volumes
                        /\ Kind(t) \in {"raw", "disk", "folder"} /\ use[t].ro \in BOOLEAN
  BY <1>1, <1>2, UseFacts DEF Fit
<1>5. \A kind : Fault(kind) \/ NoFault => faults' \in 0 .. MaxFaults
  BY <1>1, NodeAssumption DEF Fault, NoFault
<1>6. UNCHANGED answers /\ UNCHANGED npvi => AnswersOK'
  BY <1>1 DEF AnswersOK, answers
<1> HIDE DEF t, d
<1>7. \A label \in CallLabels : UNCHANGED use /\ Goto(c, label) /\ Fit(label, t, d) => CallsOK'
  BY <1>1, GotoType DEF t, d
<1>8. UNCHANGED use /\ Return(c) => CallsOK'
  BY <1>1, ReturnType
<1>9. \A what \in {"file", "dir"} : t \in Targets =>
          Made(t, what) \in [Targets -> {"none", "file", "dir"}]
  BY <1>1 DEF KernelOK, Made
<1> USE DEF At, CallLabels
<1>10. CASE PublishGet(c)
  <2> DEFINE next == IF Kind(t) = "raw" THEN "p_find" ELSE "p_check"
  <2>1. next \in CallLabels /\ Fit(next, t, d) /\ next # "return"
    BY <1>10, <1>2, <1>4 DEF PublishGet, Looks, Fit, Carries, OnBlock, BlockLabels
  <2>2. Looks(c, "p_get", next, "read")
    BY <1>10 DEF PublishGet, t
  <2> HIDE DEF next
  <2> QED
    BY <2>1, <2>2, LooksType DEF t, d
<1>11. CASE PublishFind(c)
  <2>1. FindsLoop(c, "p_find", Attached(t), "p_make")
    BY <1>11 DEF PublishFind, t
  <2>2. call[c].at = "p_find" /\ t \in Targets /\ OnBlock(t)
    BY <2>1, <1>2 DEF FindsLoop, Fit, BlockLabels
  <2>3. Attached(t) \in CallLabels /\ \A e \in Devices : Fit(Attached(t), t, e)
    BY <2>2, <1>4 DEF Attached, Fit, Carries, OnBlock, BlockLabels
  <2>4. "p_make" \in CallLabels /\ Fit("p_make", t, d)
    BY <2>2 DEF Fit, Carries, BlockLabels
  <2> QED
    BY <2>1, <2>3, <2>4, FindsType DEF t, d
<1>12. CASE PublishMake(c)
  <2>1. /\ call[c].at = "p_make" /\ t \in Targets /\ OnBlock(t) /\ UNCHANGED use
        /\ Vol(t) \in Volumes /\ UNCHANGED answers /\ UNCHANGED npvi
    BY <1>12, <1>2, <1>4 DEF PublishMake, Fit, BlockLabels
  <2>2. Attached(t) \in CallLabels /\ \A e \in Devices : Fit(Attached(t), t, e)
    BY <2>1, <1>4 DEF Attached, Fit, Carries, OnBlock, BlockLabels
  <2>3. CallsOK'
    <3>1. ASSUME NEW e \in Devices, GotoWith(c, Attached(t), e) PROVE CallsOK'
      BY <3>1, <2>1, <2>2, <1>1, GotoWithType DEF t
    <3> QED
      BY <1>12, <2>1, <1>8, <3>1 DEF PublishMake, t
  <2>4. loop' \in [Devices -> LoopRecords]
    <3>1. file[Vol(t)] \in 0 .. MaxSize /\ loop \in [Devices -> LoopRecords]
      BY <1>1, <2>1, NodeAssumption DEF KernelOK
    <3>2. \/ loop' = loop
          \/ \E e \in Devices : loop' = [loop EXCEPT ![e] =
                [vol |-> Vol(t), size |-> file[Vol(t)], closing |-> FALSE]]
      BY <1>12 DEF PublishMake, t
    <3>3. \A e \in Devices : [loop EXCEPT ![e] =
              [vol |-> Vol(t), size |-> file[Vol(t)], closing |-> FALSE]]
                  \in [Devices -> LoopRecords]
      BY <2>1, <3>1, LoopTypes
    <3> QED
      BY <3>1, <3>2, <3>3
  <2>5. UNCHANGED <<use, path, mounts, file, fsys, intact>>
    BY <1>12 DEF PublishMake
  <2>6. KernelOK'
    BY <1>1, <2>4, <2>5 DEF KernelOK
  <2> QED
    BY <1>12, <1>5, <1>6, <2>1, <2>3, <2>6 DEF PublishMake, NodeTypeInv
<1>13. CASE PublishTarget(c)
  <2>1. call[c].at = "p_target" /\ Fit("p_check", t, d) /\ t \in Targets
    BY <1>13, <1>2 DEF PublishTarget, Fit, Carries, OnBlock, BlockLabels
  <2>2. CallsOK' /\ KernelOK' /\ AnswersOK'
    BY <1>13, <2>1, <1>1, <1>6, <1>7, <1>8, <1>9 DEF PublishTarget, KernelOK, t
  <2> QED
    BY <1>13, <2>2, <1>5 DEF PublishTarget, NodeTypeInv
<1>14. CASE PublishCheck(c)
  <2> DEFINE next == AfterCheck(t)
  <2>1. call[c].at = "p_check" /\ t \in Targets /\ (Kind(t) = "raw" => d \in Devices)
    BY <1>14, <1>2 DEF PublishCheck, Looks, Fit, Carries
  <2>2. next \in CallLabels /\ Fit(next, t, d) /\ next # "return"
    BY <2>1, <1>4 DEF AfterCheck, NotMounted, Fit, Carries, OnBlock, BlockLabels
  <2>3. Looks(c, "p_check", next, "fs")
    BY <1>14 DEF PublishCheck, t
  <2> HIDE DEF next
  <2> QED
    BY <2>2, <2>3, LooksType DEF t, d
<1>15. CASE PublishMkdir(c)
  <2>1. /\ call[c].at = "p_mkdir" /\ t \in Targets /\ NotMounted(t) \in CallLabels
        /\ Fit(NotMounted(t), t, d)
    BY <1>15, <1>2, <1>4 DEF PublishMkdir, NotMounted, Fit, Carries, OnBlock, BlockLabels
  <2>2. CallsOK' /\ AnswersOK'
    BY <1>15, <2>1, <1>6, <1>7, <1>8 DEF PublishMkdir, t
  <2>3. KernelOK'
    BY <1>15, <2>1, <1>1, <1>9 DEF PublishMkdir, KernelOK, t
  <2> QED
    BY <1>15, <2>2, <2>3, <1>5 DEF PublishMkdir, NodeTypeInv
<1>16. CASE PublishMount(c)
  <2>1. /\ call[c].at = "p_mount" /\ t \in Targets /\ Vol(t) \in Volumes
        /\ use[t].ro \in BOOLEAN /\ (OnBlock(t) => d \in Devices)
        /\ Fit("p_chmod", t, d) /\ UNCHANGED use
    BY <1>16, <1>2, <1>4 DEF PublishMount, Fit, Carries, BlockLabels
  <2>2. CallsOK'
    BY <1>16, <2>1, <1>7, <1>8 DEF PublishMount
  <2>3. mounts' \in [Targets -> Seq(Layers)]
    <3>1. \/ mounts' = mounts \/ mounts' = Covered(t, d, use[t].ro)
          \/ mounts' = Covered(t, d, FALSE)
      BY <1>16 DEF PublishMount, t, d
    <3>2. \A b \in BOOLEAN : Covered(t, d, b) \in [Targets -> Seq(Layers)]
      BY <2>1, <1>1, <1>3, MountTypes
    <3>3. mounts \in [Targets -> Seq(Layers)]
      BY <1>1 DEF KernelOK
    <3> QED
      BY <2>1, <3>1, <3>2, <3>3
  <2>4. Formatted(t, d) \in [Volumes -> 0 .. MaxSize]
    <3>1. OnBlock(t) => loop[d].size \in 0 .. MaxSize
      BY <2>1, <1>1 DEF KernelOK, LoopRecords
    <3> QED
      BY <3>1, <2>1, <1>1 DEF KernelOK, Formatted, OnBlock
  <2>5. fsys' \in [Volumes -> 0 .. MaxSize]
    BY <1>16, <2>4, <1>1 DEF PublishMount, KernelOK, t, d
  <2>6. KernelOK' /\ AnswersOK'
    BY <1>16, <2>1, <2>3, <2>5, <1>1, <1>6 DEF PublishMount, KernelOK
  <2> QED
    BY <1>16, <2>2, <2>6, <1>5 DEF PublishMount, NodeTypeInv
<1>17. CASE PublishChmod(c)
  <2>1. Fit("p_row", t, d) /\ Fit("p_undo", t, d)
    BY <1>17, <1>2 DEF PublishChmod, Fit, Carries, BlockLabels
  <2>2. CallsOK' /\ KernelOK' /\ AnswersOK'
    BY <1>17, <2>1, <1>1, <1>6, <1>7 DEF PublishChmod, KernelOK, kernel
  <2> QED
    BY <1>17, <2>2, <1>5 DEF PublishChmod, NodeTypeInv
<1>18. CASE PublishRow(c)
  <2>1. t \in Targets /\ Fit("p_undo", t, d)
    BY <1>18, <1>2 DEF PublishRow, Fit, Carries, BlockLabels
  <2>2. Recorded(t) \in [Targets -> 0 .. 2]
    BY <2>1, <1>1 DEF AnswersOK, Recorded
  <2>3. CallsOK' /\ KernelOK'
    BY <1>18, <2>1, <1>1, <1>7, <1>8 DEF PublishRow, KernelOK, kernel
  <2>4. npvi' \in [Targets -> 0 .. 2]
    BY <1>18, <2>2, <1>1 DEF PublishRow, AnswersOK, t
  <2>5. /\ published' \in [Targets -> BOOLEAN] /\ gone' = gone /\ fits' = fits
    BY <1>18, <2>1, <1>1 DEF PublishRow, AnswersOK, answers
  <2>6. AnswersOK'
    BY <2>4, <2>5, <1>1 DEF AnswersOK
  <2> QED
    BY <1>18, <2>3, <2>6, <1>5 DEF PublishRow, NodeTypeInv
<1>19. CASE PublishUndo(c)
  <2>1. t \in Targets /\ Fit("p_clear", t, d)
    BY <1>19, <1>2 DEF PublishUndo, Fit, Carries, BlockLabels
  <2>2. mounts' \in [Targets -> Seq(Layers)] /\ loop' \in [Devices -> LoopRecords]
    BY <1>19, <2>1, <1>1, UnmountType DEF PublishUndo, KernelOK, t
  <2>3. CallsOK' /\ KernelOK' /\ AnswersOK'
    BY <1>19, <2>1, <2>2, <1>1, <1>6, <1>7 DEF PublishUndo, KernelOK
  <2> QED
    BY <1>19, <2>3, <1>5 DEF PublishUndo, NodeTypeInv
<1>20. CASE PublishClear(c)
  <2>1. t \in Targets
    BY <1>20, <1>2 DEF PublishClear, Fit
  <2>2. KernelOK'
    BY <1>20, <2>1, <1>1 DEF PublishClear, RemoveTarget, KernelOK, t
  <2>3. CallsOK' /\ AnswersOK'
    BY <1>20, <1>1, <1>6, <1>8 DEF PublishClear, Fails
  <2> QED
    BY <1>20, <2>2, <2>3, <1>5 DEF PublishClear, NodeTypeInv
<1> QED
  BY <1>10, <1>11, <1>12, <1>13, <1>14, <1>15, <1>16, <1>17, <1>18, <1>19, <1>20

(* The steps of NodeUnpublishVolume.                                       *)
LEMMA UnpublishType ==
    ASSUME NodeTypeInv, NEW c \in Calls,
           \/ UnpublishGet(c) \/ UnpublishCheck(c) \/ UnpublishUnmount(c)
           \/ UnpublishFind(c) \/ UnpublishDetach(c) \/ UnpublishRemove(c)
           \/ UnpublishRow(c)
    PROVE  NodeTypeInv'
<1> DEFINE t == T(c)
           d == call[c].dev
<1>1. CallsOK /\ KernelOK /\ AnswersOK /\ faults \in 0 .. MaxFaults
  BY DEF NodeTypeInv
<1>2. At(c, "idle") \/ Fit(call[c].at, t, d)
  BY <1>1 DEF CallsOK
<1>3. \A kind : Fault(kind) \/ NoFault => faults' \in 0 .. MaxFaults
  BY <1>1, NodeAssumption DEF Fault, NoFault
<1>4. UNCHANGED answers /\ UNCHANGED npvi => AnswersOK'
  BY <1>1 DEF AnswersOK, answers
<1> HIDE DEF t, d
<1>5. \A label \in CallLabels : UNCHANGED use /\ Goto(c, label) /\ Fit(label, t, d) => CallsOK'
  BY <1>1, GotoType DEF t, d
<1>6. UNCHANGED use /\ Return(c) => CallsOK'
  BY <1>1, ReturnType
<1> USE DEF At, CallLabels
<1>7. CASE UnpublishGet(c)
  <2>1. Looks(c, "u_get", "u_check", "read")
    BY <1>7 DEF UnpublishGet
  <2>2. Fit("u_check", t, d)
    BY <2>1, <1>2 DEF Looks, Fit, Carries, BlockLabels
  <2> QED
    BY <2>1, <2>2, LooksType DEF t, d
<1>8. CASE UnpublishCheck(c)
  <2> DEFINE next == WhenMounted(t)
  <2>1. Looks(c, "u_check", next, "fs")
    BY <1>8 DEF UnpublishCheck, t
  <2>2. next \in CallLabels /\ Fit(next, t, d)
    BY <2>1, <1>2 DEF Looks, WhenMounted, Fit, Carries, BlockLabels
  <2> HIDE DEF next
  <2> QED
    BY <2>1, <2>2, LooksType DEF t, d
<1>9. CASE UnpublishUnmount(c)
  <2>1. t \in Targets /\ Fit("u_remove", t, d) /\ (OnBlock(t) => Fit("u_find", t, d))
    BY <1>9, <1>2 DEF UnpublishUnmount, Fit, Carries, BlockLabels
  <2>2. mounts' \in [Targets -> Seq(Layers)] /\ loop' \in [Devices -> LoopRecords]
    BY <1>9, <2>1, <1>1, UnmountType DEF UnpublishUnmount, KernelOK, t
  <2>3. CallsOK' /\ AnswersOK'
    BY <1>9, <2>1, <1>4, <1>5, <1>6 DEF UnpublishUnmount, t
  <2>4. KernelOK'
    BY <1>9, <2>2, <1>1 DEF UnpublishUnmount, KernelOK
  <2> QED
    BY <1>9, <2>3, <2>4, <1>3 DEF UnpublishUnmount, NodeTypeInv
<1>10. CASE UnpublishFind(c)
  <2>1. FindsLoop(c, "u_find", "u_detach", "u_remove")
    BY <1>10 DEF UnpublishFind
  <2>2. Fit("u_remove", t, d) /\ \A e \in Devices : Fit("u_detach", t, e)
    BY <2>1, <1>2 DEF FindsLoop, Fit, Carries, BlockLabels
  <2> QED
    BY <2>1, <2>2, FindsType DEF t, d
<1>11. CASE UnpublishDetach(c)
  <2>1. d \in Devices /\ Fit("u_remove", t, d)
    BY <1>11, <1>2 DEF UnpublishDetach, Fit, Carries, BlockLabels
  <2>2. \/ loop' = loop
        \/ loop' = Settled([loop EXCEPT ![d] = [@ EXCEPT !.closing = TRUE]], mounts)
    BY <1>11 DEF UnpublishDetach, d
  <2>3. [loop EXCEPT ![d] = [@ EXCEPT !.closing = TRUE]] \in [Devices -> LoopRecords]
    BY <2>1, <1>1, LoopTypes DEF KernelOK
  <2>4. Settled([loop EXCEPT ![d] = [@ EXCEPT !.closing = TRUE]], mounts)
            \in [Devices -> LoopRecords]
    BY <2>1, <2>3, LoopTypes
  <2>5. loop' \in [Devices -> LoopRecords]
    BY <2>2, <2>4, <1>1 DEF KernelOK
  <2>6. CallsOK' /\ AnswersOK'
    BY <1>11, <2>1, <1>4, <1>5, <1>6 DEF UnpublishDetach
  <2>7. KernelOK'
    BY <1>11, <2>5, <1>1 DEF UnpublishDetach, KernelOK
  <2> QED
    BY <1>11, <2>6, <2>7, <1>3 DEF UnpublishDetach, NodeTypeInv
<1>12. CASE UnpublishRemove(c)
  <2>1. t \in Targets /\ Fit("u_row", t, d)
    BY <1>12, <1>2 DEF UnpublishRemove, Fit, Carries, BlockLabels
  <2>2. KernelOK'
    BY <1>12, <2>1, <1>1 DEF UnpublishRemove, RemoveTarget, KernelOK, t
  <2>3. CallsOK' /\ AnswersOK'
    BY <1>12, <2>1, <1>4, <1>5, <1>6 DEF UnpublishRemove
  <2> QED
    BY <1>12, <2>2, <2>3, <1>3 DEF UnpublishRemove, NodeTypeInv
<1>13. CASE UnpublishRow(c)
  <2>1. t \in Targets
    BY <1>13, <1>2 DEF UnpublishRow, Fit
  <2>2. Forgotten(t) \in [Targets -> 0 .. 2]
    BY <2>1, <1>1 DEF AnswersOK, Forgotten
  <2>3. npvi' \in [Targets -> 0 .. 2]
    BY <1>13, <2>2, <1>1 DEF UnpublishRow, AnswersOK, t
  <2>4. gone' \in [Targets -> BOOLEAN] /\ published' = published /\ fits' = fits
    BY <1>13, <2>1, <1>1 DEF UnpublishRow, AnswersOK, answers
  <2>5. AnswersOK'
    BY <2>3, <2>4, <1>1 DEF AnswersOK
  <2>6. CallsOK' /\ KernelOK'
    BY <1>13, <1>1, <1>6 DEF UnpublishRow, KernelOK, kernel
  <2> QED
    BY <1>13, <2>5, <2>6, <1>3 DEF UnpublishRow, NodeTypeInv
<1> QED
  BY <1>7, <1>8, <1>9, <1>10, <1>11, <1>12, <1>13

(* The steps of NodeExpandVolume.                                          *)
LEMMA ExpandType ==
    ASSUME NodeTypeInv, NEW c \in Calls,
           \/ ExpandGet(c) \/ ExpandFind(c) \/ ExpandReread(c) \/ ExpandCheck(c)
           \/ ExpandResize(c)
    PROVE  NodeTypeInv'
<1> DEFINE t == T(c)
           d == call[c].dev
<1>1. CallsOK /\ KernelOK /\ AnswersOK /\ faults \in 0 .. MaxFaults
  BY DEF NodeTypeInv
<1>2. At(c, "idle") \/ Fit(call[c].at, t, d)
  BY <1>1 DEF CallsOK
<1>3. ~At(c, "idle") => /\ t \in Targets /\ Vol(t) \in Volumes
                        /\ Kind(t) \in {"raw", "disk", "folder"}
  BY <1>1, <1>2, UseFacts DEF Fit
<1>4. \A kind : Fault(kind) \/ NoFault => faults' \in 0 .. MaxFaults
  BY <1>1, NodeAssumption DEF Fault, NoFault
<1>5. UNCHANGED answers /\ UNCHANGED npvi => AnswersOK'
  BY <1>1 DEF AnswersOK, answers
<1>6. call[c].asked \in 0 .. MaxSize
  BY <1>1 DEF CallsOK, CallRecords
<1> HIDE DEF t, d
<1>7. \A label \in CallLabels : UNCHANGED use /\ Goto(c, label) /\ Fit(label, t, d) => CallsOK'
  BY <1>1, GotoType DEF t, d
<1>8. UNCHANGED use /\ Return(c) => CallsOK'
  BY <1>1, ReturnType
<1>9. AnswerExpanded(c) /\ UNCHANGED npvi /\ t \in Targets /\ Vol(t) \in Volumes => AnswersOK'
  <2> SUFFICES ASSUME AnswerExpanded(c), UNCHANGED npvi, t \in Targets, Vol(t) \in Volumes
               PROVE  AnswersOK'
    OBVIOUS
  <2>1. fits' \in [Volumes -> 0 .. MaxSize]
    BY <1>1, <1>6 DEF AnswerExpanded, AnswersOK, t
  <2> QED
    BY <2>1, <1>1 DEF AnswerExpanded, AnswersOK
<1> USE DEF At, CallLabels
<1>10. CASE ExpandGet(c)
  <2> DEFINE next == IF OnBlock(t) THEN "x_find" ELSE "return"
  <2>1. Looks(c, "x_get", next, "read")
    BY <1>10 DEF ExpandGet, t
  <2>2. next # "return" => next \in CallLabels /\ Fit(next, t, d)
    BY <2>1, <1>2 DEF Looks, Fit, Carries, BlockLabels
  <2> HIDE DEF next
  <2> QED
    BY <2>1, <2>2, LooksType DEF t, d
<1>11. CASE ExpandFind(c)
  <2>1. FindsLoop(c, "x_find", "x_reread", "return")
    BY <1>11 DEF ExpandFind
  <2>2. \A e \in Devices : Fit("x_reread", t, e)
    BY <2>1, <1>2 DEF FindsLoop, Fit, Carries, BlockLabels
  <2> QED
    BY <2>1, <2>2, FindsType DEF t, d
<1>12. CASE ExpandReread(c)
  <2> DEFINE e == FoundLoop(Vol(t))
  <2>1. /\ t \in Targets /\ Vol(t) \in Volumes /\ d \in Devices /\ OnBlock(t)
        /\ Kind(t) \in {"raw", "disk", "folder"}
        /\ UNCHANGED <<use, path, mounts, file, fsys, intact, npvi>>
    BY <1>12, <1>2, <1>3 DEF ExpandReread, Fit, Carries, BlockLabels
  <2>2. e # NoDevice => e \in Devices
    BY FoundIsOf
  <2> HIDE DEF e
  <2>3. Kind(t) # "raw" => Fit("x_check", t, d)
    BY <2>1 DEF Fit, Carries, OnBlock, BlockLabels
  <2>4. loop' \in [Devices -> LoopRecords]
    <3>1. \/ loop' = loop
          \/ e \in Devices /\ loop' = [loop EXCEPT ![e] = [@ EXCEPT !.size = file[Vol(t)]]]
      BY <1>12, <2>2 DEF ExpandReread, Reread, t, e
    <3>2. file[Vol(t)] \in 0 .. MaxSize /\ loop \in [Devices -> LoopRecords]
      BY <1>1, <2>1, NodeAssumption DEF KernelOK
    <3>3. e \in Devices => [loop EXCEPT ![e] = [@ EXCEPT !.size = file[Vol(t)]]]
                               \in [Devices -> LoopRecords]
      <4> DEFINE n == file[Vol(t)]
      <4> HIDE DEF n
      <4>1. n \in 0 .. MaxSize
        BY <3>2 DEF n
      <4>2. e \in Devices => [loop[e] EXCEPT !.size = n] \in LoopRecords
        BY <3>2, <4>1 DEF LoopRecords
      <4> QED
        BY <3>2, <4>2 DEF n
    <3> QED
      BY <3>1, <3>2, <3>3
  <2>5. KernelOK'
    BY <2>1, <2>4, <1>1 DEF KernelOK
  <2>6. CallsOK' /\ AnswersOK'
    <3>1. UNCHANGED npvi
      BY <2>1
    <3>2. CASE Fails(c)
      BY <3>1, <3>2, <2>1, <1>5, <1>8 DEF Fails
    <3>3. CASE AnswerExpanded(c)
      BY <3>1, <3>3, <2>1, <1>8, <1>9 DEF AnswerExpanded
    <3>4. CASE Kind(t) # "raw" /\ Goto(c, "x_check") /\ UNCHANGED answers
      BY <3>1, <3>4, <2>1, <2>3, <1>5, <1>7
    <3> QED
      BY <1>12, <3>2, <3>3, <3>4 DEF ExpandReread, t
  <2> QED
    BY <1>12, <2>5, <2>6, <1>4 DEF ExpandReread, NodeTypeInv
<1>13. CASE ExpandCheck(c)
  <2> DEFINE next == IF Mounted(t) THEN "x_resize" ELSE "return"
  <2>1. Looks(c, "x_check", next, "fs")
    BY <1>13 DEF ExpandCheck, t
  <2>2. next # "return" => next \in CallLabels /\ Fit(next, t, d)
    BY <2>1, <1>2 DEF Looks, Fit, Carries, BlockLabels
  <2> HIDE DEF next
  <2> QED
    BY <2>1, <2>2, LooksType DEF t, d
<1>14. CASE ExpandResize(c)
  <2>1. t \in Targets /\ Vol(t) \in Volumes /\ d \in Devices
    BY <1>14, <1>2, <1>3 DEF ExpandResize, Fit, Carries
  <2>2. loop[d].size \in 0 .. MaxSize
    BY <2>1, <1>1 DEF KernelOK, LoopRecords
  <2>3. fsys' \in [Volumes -> 0 .. MaxSize]
    BY <1>14, <2>2, <1>1 DEF ExpandResize, KernelOK, d
  <2>4. KernelOK'
    BY <1>14, <2>3, <1>1 DEF ExpandResize, KernelOK
  <2>5. CallsOK' /\ AnswersOK'
    BY <1>14, <2>1, <1>5, <1>8, <1>9 DEF ExpandResize, AnswerExpanded, Fails
  <2> QED
    BY <1>14, <2>4, <2>5, <1>4 DEF ExpandResize, NodeTypeInv
<1> QED
  BY <1>10, <1>11, <1>12, <1>13, <1>14

(* A call starts, the controller extends a file, or the process ends.      *)
LEMMA CallType ==
    ASSUME NodeTypeInv, NEW c \in Calls, NEW t \in Targets,
           PublishCall(c, t) \/ UnpublishCall(c, t) \/ ExpandCall(c, t)
    PROVE  NodeTypeInv'
<1>1. CallsOK /\ KernelOK /\ AnswersOK /\ faults \in 0 .. MaxFaults
  BY DEF NodeTypeInv
<1>2. PICK label \in {"p_get", "u_get", "x_get"} : Start(c, t, label)
  BY DEF PublishCall, UnpublishCall, ExpandCall
<1>3. file[Vol(t)] \in 0 .. MaxSize
  BY <1>1, UseFacts, NodeAssumption DEF KernelOK
<1> DEFINE r == [at |-> label, target |-> t, dev |-> NoDevice, asked |-> file[Vol(t)]]
<1>4. r \in CallRecords /\ Fit(r.at, r.target, r.dev)
  BY <1>3 DEF CallRecords, CallLabels, Fit, Carries, BlockLabels
<1>5. call' = [call EXCEPT ![c] = r] /\ UNCHANGED <<kernel, npvi, fits, faults>>
  BY <1>2 DEF Start
<1>6. UNCHANGED use
  BY <1>5 DEF kernel
<1> HIDE DEF r
<1>7. CallsOK'
  BY <1>1, <1>4, <1>5, <1>6, MoveType
<1>8. published' \in [Targets -> BOOLEAN] /\ gone' \in [Targets -> BOOLEAN]
  BY <1>1 DEF AnswersOK, PublishCall, UnpublishCall, ExpandCall
<1> QED
  BY <1>1, <1>5, <1>7, <1>8 DEF NodeTypeInv, KernelOK, AnswersOK, kernel

(* The steps of the controller, and a crash.                               *)
LEMMA OutsideType ==
    ASSUME NodeTypeInv, PluginCrash \/ \E v \in Volumes : Grow(v)
    PROVE  NodeTypeInv'
<1>1. CallsOK /\ KernelOK /\ AnswersOK /\ faults \in 0 .. MaxFaults
  BY DEF NodeTypeInv
<1>2. CASE PluginCrash
  <2>1. NoCall \in CallRecords /\ NoCall.at = "idle"
    BY NodeAssumption DEF NoCall, CallRecords, CallLabels
  <2>2. CallsOK'
    BY <1>2, <2>1 DEF PluginCrash, CallsOK, At
  <2> QED
    BY <1>1, <1>2, <2>2, NodeAssumption
       DEF PluginCrash, NodeTypeInv, KernelOK, AnswersOK, kernel, answers, Fault
<1>3. ASSUME NEW v \in Volumes, Grow(v) PROVE NodeTypeInv'
  <2>1. file' \in [Volumes -> 1 .. MaxSize]
    BY <1>1, <1>3, NodeAssumption DEF Grow, KernelOK
  <2>2. UNCHANGED <<use, path, mounts, loop, fsys, intact, npvi, call, published, gone, fits, faults>>
    BY <1>3 DEF Grow, answers
  <2>3. KernelOK' /\ AnswersOK'
    BY <1>1, <2>1, <2>2 DEF KernelOK, AnswersOK
  <2>4. CallsOK'
    BY <1>1, <2>2 DEF CallsOK, Fit, Carries, At, T, Kind, OnBlock
  <2> QED
    BY <1>1, <2>2, <2>3, <2>4 DEF NodeTypeInv
<1> QED
  BY <1>2, <1>3

(* The initial states have the types.                                      *)
LEMMA NodeInitType == NodeInit => NodeTypeInv
<1> SUFFICES ASSUME NodeInit PROVE NodeTypeInv
  OBVIOUS
<1>1. NoCall \in CallRecords /\ NoCall.at = "idle" /\ NoLoop \in LoopRecords /\ << >> \in Seq(Layers)
  BY NodeAssumption DEF NoCall, CallRecords, CallLabels, NoLoop, LoopRecords
<1>2. CallsOK
  BY <1>1 DEF NodeInit, CallsOK, At
<1>3. KernelOK /\ AnswersOK /\ faults \in 0 .. MaxFaults
  BY <1>1, NodeAssumption DEF NodeInit, KernelOK, AnswersOK
<1> QED
  BY <1>2, <1>3 DEF NodeTypeInv

(* The type invariant is inductive.                                        *)
LEMMA NodeNextType == NodeTypeInv /\ [NodeNext]_nodeVars => NodeTypeInv'
<1> SUFFICES ASSUME NodeTypeInv, [NodeNext]_nodeVars PROVE NodeTypeInv'
  OBVIOUS
<1>1. ASSUME NEW c \in Calls, NodeCall(c) PROVE NodeTypeInv'
  BY <1>1, CallType DEF NodeCall
<1>2. ASSUME NEW c \in Calls, NodeStep(c) PROVE NodeTypeInv'
  BY <1>2, PublishType, UnpublishType, ExpandType DEF NodeStep
<1>3. CASE UNCHANGED nodeVars
  BY <1>3 DEF nodeVars, NodeTypeInv, CallsOK, KernelOK, AnswersOK, Fit, Carries, At, T,
              Kind, OnBlock
<1> QED
  BY <1>1, <1>2, <1>3, OutsideType DEF NodeNext

(* The kernel's state, the calls and the rows keep their types, whether    *)
(* calls overlap or not: a call that detaches, rereads or resizes has a    *)
(* loop device in hand.                                                    *)
THEOREM NodeTypeCorrect == NodeSpec => []NodeTypeOK
<1>1. NodeSpec => []NodeTypeInv
  BY NodeInitType, NodeNextType, PTL DEF NodeSpec
<1> QED
  BY <1>1, TypeInvImplies, PTL

-----------------------------------------------------------------------------
(* What the answers of NodePublish-, NodeUnpublish- and NodeExpandVolume   *)
(* promise when callers make the calls of a target, and of a block volume, *)
(* in turn (Overlaps is FALSE).                                            *)

(* No volume is published raw at one target and at another one too: the    *)
(* unpublish of either takes the loop device from under the other.         *)
RawAlone ==
    \A u \in Uses : \A s, t \in Targets :
        (s # t /\ u[s].vol = u[t].vol) => u[s].kind # "raw"

-----------------------------------------------------------------------------
(* The inductive invariant, part by part *)

TurnsOK ==
    \A b, c \in Calls :
        (b # c /\ ~At(b, "idle") /\ ~At(c, "idle")) => InTurn(T(b), T(c))

UnmountedLabels == {"p_mkdir", "p_mount", "u_find", "u_detach", "u_remove", "u_row"}
MountedLabels == {"p_chmod", "p_row", "p_undo"}
ExpandLabels == {"x_get", "x_find", "x_reread", "x_check", "x_resize"}

(* What a call for t at a statement, with device d and the size n it saw,  *)
(* may rely on.                                                            *)
Relies(label, t, d, n) ==
    /\ Carries(label, t) => d \in LoopsOf(Vol(t))
    /\ label = "p_make" => LoopsOf(Vol(t)) = {}
    /\ label \in UnmountedLabels => ~Mounted(t)
    /\ (label \in {"p_find", "p_make"} /\ Kind(t) = "disk") => ~Mounted(t)
    /\ label \in MountedLabels => Mounted(t)
    /\ label = "p_undo" => Top(t).ro \/ faults >= 1
    /\ label = "p_clear" => ~Mounted(t) \/ Top(t).ro \/ faults >= 2
    /\ label = "u_row" => path[t] = "none"
    /\ label \notin ExpandLabels => ~published[t] /\ ~gone[t]
    /\ n <= file[Vol(t)]
    /\ label \in {"x_check", "x_resize"} => n <= loop[d].size

CallGood(c) == At(c, "idle") \/ Relies(call[c].at, T(c), call[c].dev, call[c].asked)

OnLoop(t) == Top(t).dev \in LoopsOf(Vol(t))

(* One layer at most, on a path, over the loop device of the file; and     *)
(* what the last answer promised.                                          *)
TargetGood(t) ==
    /\ mounts[t] = << >> \/ \E l \in Layers : mounts[t] = <<l>>
    /\ Mounted(t) => path[t] # "none"
    /\ (Mounted(t) /\ Kind(t) = "disk") => OnLoop(t)
    /\ (Mounted(t) /\ Kind(t) = "raw" /\ RawAlone) => OnLoop(t)
    /\ published[t] => Mounted(t) /\ npvi[t] > 0
    /\ gone[t] => ~Mounted(t) /\ path[t] = "none" /\ npvi[t] = 0

(* One device at most, and no size below the one promised.                 *)
VolumeGood(v) ==
    /\ \A d, e \in LoopsOf(v) : d = e
    /\ fits[v] <= file[v]
    /\ \A d \in LoopsOf(v) : fits[v] <= loop[d].size
    /\ RawAlone => \A t \in Targets :
                      (Vol(t) = v /\ Kind(t) = "disk") => fits[v] <= fsys[v]

(* A device that is told to go is still there for a mounted disk.          *)
DeviceGood(d) ==
    loop[d].closing => \E t \in Targets : Kind(t) = "disk" /\ Mounted(t) /\ Top(t).dev = d

(* One fault does not lead RemoveAll through a mount.                      *)
OneFaultSpares == faults <= 1 => intact = Volumes

NodeInv ==
    /\ NodeTypeInv
    /\ TurnsOK
    /\ \A c \in Calls : CallGood(c)
    /\ \A t \in Targets : TargetGood(t)
    /\ \A v \in Volumes : VolumeGood(v)
    /\ \A d \in Devices : DeviceGood(d)
    /\ OneFaultSpares

-----------------------------------------------------------------------------
(* What a step of call c leaves alone: the other calls and targets, the    *)
(* other volumes and their devices, and the devices that mounted disks     *)
(* hold.                                                                   *)
Elsewhere(c) ==
    LET t == T(c) IN
    /\ use' = use /\ file' = file /\ faults' \in Nat /\ faults' >= faults
    /\ \A k \in Calls : k # c => call'[k] = call[k]
    /\ \A s \in Targets : s # t =>
          /\ mounts'[s] = mounts[s] /\ path'[s] = path[s] /\ npvi'[s] = npvi[s]
          /\ published'[s] = published[s] /\ gone'[s] = gone[s]
          /\ (Kind(s) = "disk" /\ Mounted(s)) =>
                loop'[Top(s).dev].vol = loop[Top(s).dev].vol
    /\ \A v \in Volumes : (v # Vol(t) \/ ~OnBlock(t)) =>
          fits'[v] = fits[v] /\ fsys'[v] = fsys[v]
    /\ \A d \in Devices :
          \/ loop'[d] = loop[d]
          \/ /\ OnBlock(t)
             /\ loop[d].vol \in {Vol(t), NoVolume} /\ loop'[d].vol \in {Vol(t), NoVolume}

(* A call goes on with its target, or returns.                             *)
LEMMA GotoFacts ==
    ASSUME CallsOK, NEW c \in Calls, NEW label, Goto(c, label)
    PROVE  /\ call'[c].at = label /\ call'[c].target = call[c].target
           /\ call'[c].dev = call[c].dev /\ call'[c].asked = call[c].asked
           /\ \A k \in Calls : k # c => call'[k] = call[k]
BY DEF CallsOK, CallRecords, Goto

(* A call goes on with a device.                                           *)
LEMMA GotoWithFacts ==
    ASSUME CallsOK, NEW c \in Calls, NEW label, NEW d, GotoWith(c, label, d)
    PROVE  /\ call'[c].at = label /\ call'[c].target = call[c].target
           /\ call'[c].dev = d /\ call'[c].asked = call[c].asked
           /\ \A k \in Calls : k # c => call'[k] = call[k]
BY DEF CallsOK, CallRecords, GotoWith

(* A call returns.                                                         *)
LEMMA ReturnFacts ==
    ASSUME CallsOK, NEW c \in Calls, Return(c)
    PROVE  call'[c].at = "idle" /\ \A k \in Calls : k # c => call'[k] = call[k]
BY DEF CallsOK, Return, NoCall

(* The devices of a volume that a step does not touch.                     *)
LEMMA OtherLoops ==
    ASSUME NEW c \in Calls, Elsewhere(c), NEW v \in Volumes, v # Vol(T(c)) \/ ~OnBlock(T(c))
    PROVE  /\ \A d \in Devices : loop[d].vol = v \/ loop'[d].vol = v => loop'[d] = loop[d]
           /\ LoopsOf(v)' = LoopsOf(v)
BY NodeAssumption DEF Elsewhere, LoopsOf

(* A step of one call leaves the others what they rely on.                 *)
LEMMA OthersCallGood ==
    ASSUME NodeInv, NEW c \in Calls, ~At(c, "idle"), Elsewhere(c),
           NEW k \in Calls, k # c
    PROVE  CallGood(k)'
<1> DEFINE t == T(c)
           s == T(k)
<1>1. call'[k] = call[k] /\ use' = use /\ file' = file /\ faults' \in Nat /\ faults' >= faults
  BY DEF Elsewhere
<1>2. CASE At(k, "idle")
  BY <1>1, <1>2 DEF CallGood, At
<1>3. CASE ~At(k, "idle")
  <2>1. s # t /\ (Vol(t) = Vol(s) => ~OnBlock(t))
    BY <1>3 DEF NodeInv, TurnsOK, InTurn
  <2>2. s \in Targets /\ t \in Targets /\ KernelOK /\ faults \in Nat
    BY <1>3, NodeAssumption DEF NodeInv, NodeTypeInv, CallsOK, Fit
  <2>3. Vol(s) \in Volumes
    BY <2>2, UseFacts
  <2>4. /\ LoopsOf(Vol(s))' = LoopsOf(Vol(s))
        /\ \A d \in Devices : loop[d].vol = Vol(s) => loop'[d] = loop[d]
    <3>1. Vol(s)' = Vol(s)
      BY <1>1 DEF Vol, T
    <3>2. LoopsOf(Vol(s)') = LoopsOf(Vol(s))
      BY <3>1
    <3>3. /\ \A v \in Volumes : (v # Vol(t) \/ ~OnBlock(t)) =>
                /\ \A d \in Devices : loop[d].vol = v => loop'[d] = loop[d]
                /\ LoopsOf(v)' = LoopsOf(v)
      BY OtherLoops
    <3> QED
      BY <2>1, <2>3, <3>1, <3>3 DEF LoopsOf
  <2>5. /\ mounts'[s] = mounts[s] /\ path'[s] = path[s]
        /\ published'[s] = published[s] /\ gone'[s] = gone[s]
    BY <2>1, <2>2 DEF Elsewhere
  <2>6. Relies(call[k].at, s, call[k].dev, call[k].asked)
    BY <1>3 DEF NodeInv, CallGood
  <2>7. s' = s
    BY <1>1 DEF T
  <2>8. Relies(call[k].at, s, call[k].dev, call[k].asked)'
    <3>1. Carries(call[k].at, s)' <=> Carries(call[k].at, s)
      BY <1>1, <2>7 DEF Carries, OnBlock, Kind
    <3>2. /\ Vol(s)' = Vol(s) /\ Kind(s)' = Kind(s) /\ Mounted(s)' = Mounted(s) /\ Top(s)' = Top(s)
      BY <1>1, <2>5, <2>7 DEF Vol, Kind, Mounted, Top
    <3>3. call[k].at \in {"x_check", "x_resize"} =>
              call[k].dev \in Devices /\ loop[call[k].dev].vol = Vol(s)
      BY <2>6 DEF Relies, Carries, LoopsOf
    <3> HIDE DEF s, t
    <3> QED
      BY <1>1, <2>2, <2>4, <2>5, <2>6, <2>7, <3>1, <3>2, <3>3 DEF Relies
  <2> QED
    BY <2>8, <1>1 DEF CallGood
<1> QED
  BY <1>2, <1>3

(* It leaves the other targets as they are,                                *)
LEMMA OthersTargetGood ==
    ASSUME NodeInv, NEW c \in Calls, ~At(c, "idle"), Elsewhere(c),
           NEW s \in Targets, s # T(c)
    PROVE  TargetGood(s)'
<1> DEFINE t == T(c)
<1>1. /\ mounts'[s] = mounts[s] /\ path'[s] = path[s] /\ npvi'[s] = npvi[s]
      /\ published'[s] = published[s] /\ gone'[s] = gone[s] /\ use' = use
      /\ (Kind(s) = "disk" /\ Mounted(s)) => loop'[Top(s).dev].vol = loop[Top(s).dev].vol
  BY DEF Elsewhere
<1>2. TargetGood(s) /\ KernelOK /\ t \in Targets
  BY DEF NodeInv, NodeTypeInv, CallsOK, Fit
<1>3. Vol(s) \in Volumes
  BY <1>2, UseFacts
<1>4. /\ Vol(s)' = Vol(s) /\ Kind(s)' = Kind(s) /\ Mounted(s)' = Mounted(s) /\ Top(s)' = Top(s)
  BY <1>1 DEF Vol, Kind, Mounted, Top
<1>5. (Mounted(s) /\ Kind(s) = "disk" /\ OnLoop(s)) => OnLoop(s)'
  BY <1>1, <1>4 DEF OnLoop, LoopsOf
<1>6. (Mounted(s) /\ Kind(s) = "raw" /\ RawAlone /\ OnLoop(s)) => OnLoop(s)'
  <2> SUFFICES ASSUME Mounted(s), Kind(s) = "raw", RawAlone, OnLoop(s) PROVE OnLoop(s)'
    OBVIOUS
  <2>1. Vol(s) # Vol(t)
    BY <1>2 DEF RawAlone, KernelOK, Vol, Kind
  <2> HIDE DEF t
  <2>2. LoopsOf(Vol(s))' = LoopsOf(Vol(s))
    BY <2>1, <1>3, <1>4, OtherLoops DEF LoopsOf, t
  <2> QED
    BY <2>2, <1>4 DEF OnLoop
<1> HIDE DEF t
<1> QED
  BY <1>1, <1>2, <1>4, <1>5, <1>6 DEF TargetGood

(* and the other volumes.                                                  *)
LEMMA OthersVolumeGood ==
    ASSUME NodeInv, NEW c \in Calls, ~At(c, "idle"), Elsewhere(c),
           NEW v \in Volumes, v # Vol(T(c)) \/ ~OnBlock(T(c))
    PROVE  VolumeGood(v)'
<1>1. VolumeGood(v)
  BY DEF NodeInv
<1>2. /\ LoopsOf(v)' = LoopsOf(v)
      /\ \A d \in Devices : loop[d].vol = v => loop'[d] = loop[d]
  BY OtherLoops
<1>3. use' = use /\ file' = file /\ fits'[v] = fits[v] /\ fsys'[v] = fsys[v]
  BY DEF Elsewhere
<1>4. \A d \in LoopsOf(v) : loop'[d] = loop[d]
  BY <1>2 DEF LoopsOf
<1>5. \A t \in Targets : Vol(t)' = Vol(t) /\ Kind(t)' = Kind(t)
  BY <1>3 DEF Vol, Kind
<1> QED
  BY <1>1, <1>2, <1>3, <1>4, <1>5 DEF VolumeGood

(* Calls stay in turn when one of them goes on or returns.                 *)
LEMMA TurnsStay ==
    ASSUME TurnsOK, UNCHANGED use, NEW c \in Calls, ~At(c, "idle"),
           \A k \in Calls : k # c => call'[k] = call[k],
           call'[c].at = "idle" \/ call'[c].target = call[c].target
    PROVE  TurnsOK'
<1>1. \A s, t : InTurn(s, t)' <=> InTurn(s, t)
  BY DEF InTurn, Vol, OnBlock, Kind
<1> QED
  BY <1>1 DEF TurnsOK, At, T

(* What remains to be shown of a step of call c for t, of volume v.        *)
LEMMA StepHolds ==
    ASSUME NodeInv, NodeTypeInv', NEW c \in Calls, ~At(c, "idle"), Elsewhere(c),
           NEW t \in Targets, NEW v \in Volumes, T(c) = t, Vol(t) = v,
           call'[c].at = "idle" \/ call'[c].target = call[c].target,
           CallGood(c)', TargetGood(t)', OnBlock(t) => VolumeGood(v)',
           \A d \in Devices : DeviceGood(d)', OneFaultSpares'
    PROVE  NodeInv'
<1>1. TurnsOK'
  <2>1. UNCHANGED use /\ \A k \in Calls : k # c => call'[k] = call[k]
    BY DEF Elsewhere
  <2> QED
    BY <2>1, TurnsStay DEF NodeInv
<1>2. \A k \in Calls : CallGood(k)'
  BY OthersCallGood
<1>3. \A s \in Targets : TargetGood(s)'
  BY OthersTargetGood
<1>4. \A w \in Volumes : VolumeGood(w)'
  BY OthersVolumeGood
<1> QED
  BY <1>1, <1>2, <1>3, <1>4 DEF NodeInv

(* A call for t under way: its target, and what it may rely on.            *)
LEMMA CallFacts ==
    ASSUME NodeInv, NEW c \in Calls, ~At(c, "idle")
    PROVE  /\ T(c) \in Targets /\ Vol(T(c)) \in Volumes
           /\ Kind(T(c)) \in {"raw", "disk", "folder"} /\ use[T(c)].ro \in BOOLEAN
           /\ Fit(call[c].at, T(c), call[c].dev)
           /\ Relies(call[c].at, T(c), call[c].dev, call[c].asked)
           /\ CallsOK /\ KernelOK /\ AnswersOK /\ faults \in Nat
           /\ TargetGood(T(c)) /\ VolumeGood(Vol(T(c))) /\ OneFaultSpares
           /\ \A d \in Devices : DeviceGood(d)
<1>1. CallsOK /\ KernelOK /\ AnswersOK /\ faults \in Nat
  BY NodeAssumption DEF NodeInv, NodeTypeInv
<1>2. Fit(call[c].at, T(c), call[c].dev) /\ T(c) \in Targets
  BY <1>1 DEF CallsOK, Fit
<1>3. Relies(call[c].at, T(c), call[c].dev, call[c].asked)
  BY DEF NodeInv, CallGood
<1> QED
  BY <1>1, <1>2, <1>3, UseFacts DEF NodeInv

(* A step that changes nothing but its own call, and the count of faults.  *)
LEMMA QuietHolds ==
    ASSUME NodeInv, NodeTypeInv', NEW c \in Calls, ~At(c, "idle"),
           UNCHANGED <<kernel, npvi, answers>>, faults' >= faults,
           \A k \in Calls : k # c => call'[k] = call[k],
           \/ call'[c].at = "idle"
           \/ /\ call'[c].target = call[c].target /\ call'[c].asked = call[c].asked
              /\ \/ Relies(call'[c].at, T(c), call'[c].dev, call[c].asked)
                 \/ /\ call'[c].at = "p_undo" /\ faults' >= 1
                    /\ Relies("p_row", T(c), call'[c].dev, call[c].asked)
    PROVE  NodeInv'
<1> DEFINE t == T(c)
           v == Vol(t)
<1>1. /\ t \in Targets /\ v \in Volumes /\ TargetGood(t) /\ VolumeGood(v)
      /\ OneFaultSpares /\ (\A d \in Devices : DeviceGood(d)) /\ faults \in Nat
  BY CallFacts
<1>2. /\ UNCHANGED <<use, path, mounts, loop, file, fsys, intact, npvi, published, gone, fits>>
      /\ faults' \in Nat
  BY NodeAssumption DEF kernel, answers, NodeTypeInv
<1>3. Elsewhere(c)
  BY <1>2 DEF Elsewhere
<1>4. CallGood(c)'
  BY <1>2, <1>1 DEF CallGood, At, T, Relies, Carries, LoopsOf, Vol, Kind, OnBlock, Mounted, Top,
                    UnmountedLabels, MountedLabels, ExpandLabels
<1>5. \A s \in Targets : TargetGood(s) => TargetGood(s)'
  BY <1>2 DEF TargetGood, Mounted, Top, OnLoop, LoopsOf, Vol, Kind
<1>6. \A w \in Volumes : VolumeGood(w) => VolumeGood(w)'
  BY <1>2 DEF VolumeGood, LoopsOf, Vol, Kind
<1>7. (\A d \in Devices : DeviceGood(d)') /\ OneFaultSpares'
  BY <1>1, <1>2 DEF DeviceGood, OneFaultSpares, Mounted, Top, Kind
<1> HIDE DEF t, v
<1> QED
  BY <1>1, <1>3, <1>4, <1>5, <1>6, <1>7, StepHolds DEF t, v

(* A step that only looks, and goes on where it may.                       *)
LEMMA LooksHolds ==
    ASSUME NodeInv, NodeTypeInv', NEW c \in Calls, NEW label, NEW next, NEW kind,
           Looks(c, label, next, kind), label # "idle",
           next # "return" => Relies(next, T(c), call[c].dev, call[c].asked)
    PROVE  NodeInv'
<1>1. ~At(c, "idle") /\ CallsOK /\ faults \in Nat
  BY NodeAssumption DEF Looks, At, NodeInv, NodeTypeInv
<1>2. CASE Return(c)
  <2>1. UNCHANGED <<kernel, npvi, answers>> /\ faults' >= faults
    BY <1>1 DEF Looks, Fault, NoFault
  <2> QED
    BY <1>1, <1>2, <2>1, ReturnFacts, QuietHolds
<1>3. CASE next # "return" /\ Goto(c, next) /\ NoFault
  <2>1. UNCHANGED <<kernel, npvi, answers>> /\ faults' = faults
    BY <1>3 DEF Looks, NoFault
  <2> QED
    BY <1>1, <1>3, <2>1, GotoFacts, QuietHolds
<1> QED
  BY <1>2, <1>3 DEF Looks

(* A step that looks for the device of the file.                           *)
LEMMA FindsHolds ==
    ASSUME NodeInv, NodeTypeInv', NEW c \in Calls, NEW label, NEW found, NEW missing,
           FindsLoop(c, label, found, missing), label # "idle",
           \A d \in LoopsOf(Vol(T(c))) : Relies(found, T(c), d, call[c].asked),
           (LoopsOf(Vol(T(c))) = {} /\ missing # "return") =>
                Relies(missing, T(c), call[c].dev, call[c].asked)
    PROVE  NodeInv'
<1> DEFINE d == FoundLoop(Vol(T(c)))
<1>1. ~At(c, "idle") /\ CallsOK /\ faults \in Nat /\ UNCHANGED <<kernel, npvi, answers>>
  BY NodeAssumption DEF FindsLoop, At, NodeInv, NodeTypeInv
<1>2. /\ d # NoDevice => d \in LoopsOf(Vol(T(c)))
      /\ d = NoDevice => LoopsOf(Vol(T(c))) = {}
  BY FoundIsOf
<1> HIDE DEF d
<1>3. CASE Return(c)
  <2>1. faults' >= faults
    BY <1>1 DEF FindsLoop, Fault, NoFault
  <2> QED
    BY <1>1, <1>3, <2>1, ReturnFacts, QuietHolds
<1>4. CASE d # NoDevice /\ GotoWith(c, found, d) /\ NoFault
  <2>1. faults' = faults /\ Relies(found, T(c), d, call[c].asked)
    BY <1>2, <1>4 DEF NoFault
  <2> QED
    BY <1>1, <1>4, <2>1, GotoWithFacts, QuietHolds
<1>5. CASE d = NoDevice /\ missing # "return" /\ Goto(c, missing) /\ NoFault
  <2>1. faults' = faults /\ Relies(missing, T(c), call[c].dev, call[c].asked)
    BY <1>2, <1>5 DEF NoFault
  <2> QED
    BY <1>1, <1>5, <2>1, GotoFacts, QuietHolds
<1> QED
  BY <1>3, <1>4, <1>5 DEF FindsLoop, d

-----------------------------------------------------------------------------
(* A device is held by the disks mounted from it.                          *)
LEMMA HeldIsTop ==
    ASSUME NEW m, \A s \in Targets : m[s] = << >> \/ \E l \in Layers : m[s] = <<l>>, NEW d
    PROVE  HeldBy(m, d) <=>
              \E s \in Targets : Kind(s) = "disk" /\ m[s] # << >> /\ Head(m[s]).dev = d
<1>1. \A s \in Targets : m[s] # << >> =>
          DOMAIN m[s] = {1} /\ m[s][1] = Head(m[s])
  <2> SUFFICES ASSUME NEW s \in Targets, m[s] # << >>
               PROVE  DOMAIN m[s] = {1} /\ m[s][1] = Head(m[s])
    OBVIOUS
  <2>1. PICK l \in Layers : m[s] = <<l>>
    OBVIOUS
  <2> QED
    BY <2>1
<1>2. \A s \in Targets : m[s] = << >> => DOMAIN m[s] = {}
  <2>1. DOMAIN << >> = {}
    OBVIOUS
  <2> QED
    BY <2>1
<1> QED
  BY <1>1, <1>2 DEF HeldBy

(* What umount takes away: the layer of t, and a device that was to go and *)
(* that only t held.                                                       *)
LEMMA UnmountFacts ==
    ASSUME NodeInv, NEW t \in Targets, Unmount(t), UNCHANGED use
    PROVE  /\ mounts'[t] = << >> /\ \A s \in Targets : s # t => mounts'[s] = mounts[s]
           /\ \A d \in Devices :
                 \/ loop'[d] = loop[d]
                 \/ /\ Kind(t) = "disk" /\ loop[d].vol = Vol(t) /\ loop'[d] = NoLoop
                    /\ \A s \in Targets : s # t =>
                          ~(Kind(s) = "disk" /\ Mounted(s) /\ Top(s).dev = d)
           /\ \A d \in Devices : DeviceGood(d)'
<1>1. /\ KernelOK /\ \A s \in Targets : TargetGood(s)
      /\ \A d \in Devices : DeviceGood(d)
  BY DEF NodeInv, NodeTypeInv
<1>2. PICK l \in Layers : mounts[t] = <<l>>
  BY <1>1 DEF TargetGood, Unmount, Mounted
<1>3. mounts' = [mounts EXCEPT ![t] = << >>]
  <2>1. Tail(<<l>>) = << >>
    OBVIOUS
  <2> QED
    BY <1>2, <2>1 DEF Unmount
<1>4. mounts'[t] = << >> /\ \A s \in Targets : s # t => mounts'[s] = mounts[s]
  BY <1>1, <1>3 DEF KernelOK
<1>5. \A s \in Targets : mounts'[s] = << >> \/ \E k \in Layers : mounts'[s] = <<k>>
  BY <1>1, <1>4 DEF TargetGood
<1>6. \A d \in Devices : HeldBy(mounts', d) <=>
          \E s \in Targets : Kind(s) = "disk" /\ mounts'[s] # << >> /\ Head(mounts'[s]).dev = d
  BY <1>5, HeldIsTop
<1>7. \A d \in Devices :
          loop'[d] = IF loop[d].closing /\ ~HeldBy(mounts', d) THEN NoLoop ELSE loop[d]
  BY <1>1 DEF Unmount, Settled, KernelOK
<1>8. ASSUME NEW d \in Devices, loop'[d] # loop[d]
      PROVE  /\ Kind(t) = "disk" /\ loop[d].vol = Vol(t) /\ loop'[d] = NoLoop
             /\ \A s \in Targets : s # t =>
                   ~(Kind(s) = "disk" /\ Mounted(s) /\ Top(s).dev = d)
  <2>1. loop[d].closing /\ ~HeldBy(mounts', d) /\ loop'[d] = NoLoop
    BY <1>7, <1>8
  <2>2. \A s \in Targets : s # t => ~(Kind(s) = "disk" /\ Mounted(s) /\ Top(s).dev = d)
    BY <2>1, <1>4, <1>6 DEF Mounted, Top
  <2>3. Kind(t) = "disk" /\ Mounted(t) /\ Top(t).dev = d
    BY <2>1, <2>2, <1>1 DEF DeviceGood
  <2>4. loop[d].vol = Vol(t)
    BY <2>3, <1>1 DEF TargetGood, OnLoop, LoopsOf
  <2> QED
    BY <2>1, <2>2, <2>3, <2>4
<1>9. ASSUME NEW d \in Devices PROVE DeviceGood(d)'
  <2> SUFFICES ASSUME loop'[d].closing
               PROVE  \E s \in Targets : Kind(s)' = "disk" /\ Mounted(s)' /\ Top(s)'.dev = d
    BY DEF DeviceGood
  <2>1. HeldBy(mounts', d)
    BY <1>7 DEF NoLoop
  <2>2. PICK s \in Targets : Kind(s) = "disk" /\ mounts'[s] # << >> /\ Head(mounts'[s]).dev = d
    BY <2>1, <1>6
  <2> QED
    BY <2>2 DEF Kind, Mounted, Top
<1> QED
  BY <1>4, <1>8, <1>9

-----------------------------------------------------------------------------
(* NodePublishVolume: the steps that look, find or decide                  *)
LEMMA PublishLooksHolds ==
    ASSUME NodeInv, NodeTypeInv', NEW c \in Calls,
           PublishGet(c) \/ PublishFind(c) \/ PublishCheck(c) \/ PublishChmod(c)
    PROVE  NodeInv'
<1> DEFINE t == T(c)
           d == call[c].dev
           n == call[c].asked
<1>0. ~At(c, "idle")
  BY DEF PublishGet, PublishFind, PublishCheck, PublishChmod, Looks, FindsLoop, At
<1>1. /\ t \in Targets /\ Kind(t) \in {"raw", "disk", "folder"}
      /\ Fit(call[c].at, t, d) /\ Relies(call[c].at, t, d, n) /\ TargetGood(t)
      /\ CallsOK /\ faults \in Nat
  BY <1>0, CallFacts
<1> HIDE DEF t, d, n
<1> USE DEF At, UnmountedLabels, MountedLabels, ExpandLabels
<1>2. CASE PublishGet(c)
  <2> DEFINE next == IF Kind(t) = "raw" THEN "p_find" ELSE "p_check"
  <2>1. Looks(c, "p_get", next, "read")
    BY <1>2 DEF PublishGet, t
  <2>2. Relies(next, t, d, n)
    BY <2>1, <1>1 DEF Looks, Relies, Carries
  <2> HIDE DEF next
  <2> QED
    BY <2>1, <2>2, LooksHolds DEF t, d, n
<1>3. CASE PublishFind(c)
  <2>1. FindsLoop(c, "p_find", Attached(t), "p_make")
    BY <1>3 DEF PublishFind, t
  <2>2. call[c].at = "p_find" /\ OnBlock(t) /\ Relies("p_find", t, d, n)
    BY <2>1, <1>1 DEF FindsLoop, Fit, BlockLabels
  <2>3. \A e \in LoopsOf(Vol(t)) : Relies(Attached(t), t, e, n)
    BY <2>2, <1>1 DEF Attached, Relies, Carries, OnBlock
  <2>4. LoopsOf(Vol(t)) = {} => Relies("p_make", t, d, n)
    BY <2>2 DEF Relies, Carries
  <2> QED
    BY <2>1, <2>3, <2>4, FindsHolds DEF t, d, n
<1>4. CASE PublishCheck(c)
  <2> DEFINE next == AfterCheck(t)
  <2>1. Looks(c, "p_check", next, "fs")
    BY <1>4 DEF PublishCheck, t
  <2>2. Relies("p_check", t, d, n)
    BY <2>1, <1>1 DEF Looks
  <2>3. Relies(next, t, d, n)
    <3>1. CASE Mounted(t)
      BY <2>2, <3>1 DEF AfterCheck, LooksMounted, Relies, Carries
    <3>2. CASE ~Mounted(t)
      BY <2>2, <3>2, <1>1 DEF AfterCheck, LooksMounted, NotMounted, Relies, Carries, OnBlock
    <3> QED
      BY <3>1, <3>2
  <2> HIDE DEF next
  <2> QED
    BY <2>1, <2>3, LooksHolds DEF t, d, n
<1>5. CASE PublishChmod(c)
  <2>1. /\ UNCHANGED <<kernel, npvi, answers>> /\ call[c].at = "p_chmod"
        /\ faults' >= faults /\ Relies("p_chmod", t, d, n)
    BY <1>5, <1>1 DEF PublishChmod, Fault, NoFault
  <2>2. Relies("p_row", t, d, n)
    BY <2>1 DEF Relies, Carries
  <2>3. ~CanChmod(t) => Relies("p_undo", t, d, n)
    <3>1. Mounted(t) => path[t] # "none"
      BY <1>1 DEF TargetGood
    <3> QED
      BY <2>1, <3>1 DEF CanChmod, Relies, Carries
  <2>4. CASE Goto(c, "p_row")
    BY <2>1, <2>2, <2>4, <1>0, <1>1, GotoFacts, QuietHolds DEF t, d, n
  <2>5. CASE ~CanChmod(t) /\ Goto(c, "p_undo")
    BY <2>1, <2>3, <2>5, <1>0, <1>1, GotoFacts, QuietHolds DEF t, d, n
  <2>6. CASE Goto(c, "p_undo") /\ Fault("fs")
    <3>1. faults' >= 1
      BY <2>6, <1>1 DEF Fault
    <3> QED
      BY <3>1, <2>1, <2>2, <2>6, <1>0, <1>1, GotoFacts, QuietHolds DEF t, d, n
  <2> QED
    BY <1>5, <2>4, <2>5, <2>6 DEF PublishChmod, t
<1> QED
  BY <1>2, <1>3, <1>4, <1>5

(* AttachFileDevice makes the only device of the file.                     *)
LEMMA PublishMakeHolds ==
    ASSUME NodeInv, NodeTypeInv', NEW c \in Calls, PublishMake(c),
           NEW t \in Targets, NEW v \in Volumes, T(c) = t, Vol(t) = v
    PROVE  NodeInv'
<1>1. ~At(c, "idle") /\ call[c].at = "p_make"
  BY DEF PublishMake, At
<1>2. /\ Kind(t) \in {"raw", "disk", "folder"}
      /\ Fit("p_make", t, call[c].dev) /\ Relies("p_make", t, call[c].dev, call[c].asked)
      /\ TargetGood(t) /\ VolumeGood(v) /\ OneFaultSpares /\ (\A d \in Devices : DeviceGood(d))
      /\ CallsOK /\ KernelOK /\ faults \in Nat
  BY <1>1, CallFacts
<1>3. OnBlock(t) /\ LoopsOf(v) = {}
  BY <1>2 DEF Fit, BlockLabels, Relies
<1>4. /\ UNCHANGED <<use, path, mounts, file, fsys, intact, npvi, published, gone, fits>>
      /\ faults' >= faults /\ faults' \in Nat
  BY <1>2 DEF PublishMake, answers, Fault, NoFault
<1>5. CASE Return(c) /\ UNCHANGED loop
  <2>1. UNCHANGED <<kernel, npvi, answers>>
    BY <1>4, <1>5 DEF kernel, answers
  <2> QED
    BY <2>1, <1>1, <1>2, <1>4, <1>5, ReturnFacts, QuietHolds
<1>6. ASSUME NEW d \in Devices, IsFirstFree(d),
             loop' = [loop EXCEPT ![d] = [vol |-> v, size |-> file[v], closing |-> FALSE]],
             GotoWith(c, Attached(t), d)
      PROVE  NodeInv'
  <2>1. /\ loop[d] = NoLoop /\ loop[d].vol = NoVolume
        /\ loop'[d] = [vol |-> v, size |-> file[v], closing |-> FALSE]
        /\ \A e \in Devices : e # d => loop'[e] = loop[e]
    BY <1>2, <1>6 DEF IsFirstFree, NoLoop, KernelOK
  <2>2. /\ call'[c].at = Attached(t) /\ call'[c].target = t /\ call'[c].dev = d
        /\ call'[c].asked = call[c].asked /\ \A k \in Calls : k # c => call'[k] = call[k]
    BY <1>2, <1>6, GotoWithFacts DEF T
  <2>3. LoopsOf(v)' = {d}
    <3>1. \A e \in Devices : loop[e].vol # v
      BY <1>3 DEF LoopsOf
    <3>2. \A e \in Devices : loop'[e].vol = v <=> e = d
      BY <2>1, <3>1
    <3> QED
      BY <3>2 DEF LoopsOf
  <2>4. \A s \in Targets : (Kind(s) = "disk" /\ Mounted(s)) => Top(s).dev \in Devices /\ Top(s).dev # d
    <3>1. \A s \in Targets : TargetGood(s) /\ Vol(s) # NoVolume
      BY <1>2, UseFacts DEF NodeInv
    <3> QED
      BY <3>1, <2>1 DEF TargetGood, OnLoop, LoopsOf
  <2>5. Elsewhere(c)
    BY <2>1, <2>2, <2>4, <1>3, <1>4 DEF Elsewhere
  <2>6. /\ Vol(t)' = v /\ Kind(t)' = Kind(t) /\ Mounted(t)' = Mounted(t)
        /\ LoopsOf(Vol(t))' = {d}
    BY <1>4, <2>3 DEF Vol, Kind, Mounted, LoopsOf
  <2>7. CallGood(c)'
    <3>1. (Kind(t) = "disk" => ~Mounted(t)) /\ ~published[t] /\ ~gone[t] /\ call[c].asked <= file[v]
      BY <1>2 DEF Relies, ExpandLabels
    <3>2. Attached(t) \in {"p_target", "p_mount"} /\ (Attached(t) = "p_mount" => Kind(t) = "disk")
      BY <1>2, <1>3 DEF Attached, OnBlock
    <3>3. Relies(Attached(t), t, d, call[c].asked)'
      <4>1. Attached(t)' = Attached(t) /\ call'[c].asked = call[c].asked
        BY <2>2, <2>6 DEF Attached
      <4> QED
        BY <2>6, <3>1, <3>2, <4>1, <1>4
           DEF Relies, UnmountedLabels, MountedLabels, ExpandLabels
    <3>4. Attached(t)' = Attached(t)
      BY <2>6 DEF Attached
    <3> QED
      BY <3>3, <3>4, <2>2 DEF CallGood, T
  <2>8. TargetGood(t)'
    <3>1. ~OnLoop(t)
      BY <1>3 DEF OnLoop
    <3> QED
      BY <1>2, <1>4, <3>1 DEF TargetGood, Mounted, Kind
  <2>9. VolumeGood(v)'
    <3>1. fits[v] <= file[v] /\ loop'[d].size = file[v]
      BY <2>1, <1>2 DEF VolumeGood
    <3>2. \A s \in Targets : Vol(s)' = Vol(s) /\ Kind(s)' = Kind(s)
      BY <1>4 DEF Vol, Kind
    <3> QED
      BY <3>1, <3>2, <2>3, <1>2, <1>4 DEF VolumeGood
  <2>10. (\A e \in Devices : DeviceGood(e)') /\ OneFaultSpares'
    BY <2>1, <1>2, <1>4 DEF DeviceGood, OneFaultSpares, Mounted, Top, Kind
  <2> QED
    BY <2>2, <2>5, <2>7, <2>8, <2>9, <2>10, <1>1, StepHolds DEF T
<1> QED
  BY <1>5, <1>6 DEF PublishMake

(* A step that leaves mounts, devices and sizes alone.                     *)
LEMMA SurfaceHolds ==
    ASSUME NodeInv, NodeTypeInv', NEW c \in Calls, ~At(c, "idle"),
           NEW t \in Targets, T(c) = t,
           UNCHANGED <<use, mounts, loop, file, fsys, fits>>, faults' >= faults,
           \A s \in Targets : s # t =>
               /\ path'[s] = path[s] /\ npvi'[s] = npvi[s]
               /\ published'[s] = published[s] /\ gone'[s] = gone[s],
           \A k \in Calls : k # c => call'[k] = call[k],
           call'[c].at = "idle" \/ call'[c].target = call[c].target,
           CallGood(c)', TargetGood(t)', OneFaultSpares'
    PROVE  NodeInv'
<1> DEFINE v == Vol(t)
<1>1. /\ v \in Volumes /\ VolumeGood(v) /\ (\A d \in Devices : DeviceGood(d)) /\ faults \in Nat
  BY CallFacts
<1>2. faults' \in Nat
  BY NodeAssumption DEF NodeTypeInv
<1>3. Elsewhere(c)
  BY <1>2 DEF Elsewhere
<1>4. \A w \in Volumes : VolumeGood(w) => VolumeGood(w)'
  BY DEF VolumeGood, LoopsOf, Vol, Kind
<1>5. \A d \in Devices : DeviceGood(d)'
  BY <1>1 DEF DeviceGood, Mounted, Top, Kind
<1>6. ASSUME NEW w \in Volumes, w = v PROVE NodeInv'
  <2>1. Vol(t) = w /\ VolumeGood(w)'
    BY <1>1, <1>4, <1>6
  <2> HIDE DEF v
  <2> QED
    BY <2>1, <1>3, <1>5, StepHolds
<1> QED
  BY <1>1, <1>6

(* What a call relies on outlasts a step that leaves mounts, devices and    *)
(* answers alone.                                                          *)
LEMMA ReliesStays ==
    ASSUME NEW l, NEW t \in Targets, NEW d, NEW n, Relies(l, t, d, n),
           UNCHANGED <<use, mounts, loop, file, published, gone>>,
           faults \in Nat, faults' \in Nat, faults' >= faults,
           l = "u_row" => path'[t] = "none"
    PROVE  Relies(l, t, d, n)'
BY DEF Relies, Carries, LoopsOf, Vol, Kind, OnBlock, Mounted, Top,
       UnmountedLabels, MountedLabels, ExpandLabels

(* A call relies on no more than its statement needs.                      *)
LEMMA CallGoodAt ==
    ASSUME NEW c \in Calls, NEW l, NEW t, NEW d, NEW n, Relies(l, t, d, n)',
           call'[c].at = l, call'[c].target = t, call'[c].dev = d, call'[c].asked = n
    PROVE  CallGood(c)'
BY DEF CallGood, T

(* The target path is made.                                                *)
LEMMA PublishPathHolds ==
    ASSUME NodeInv, NodeTypeInv', NEW c \in Calls, PublishTarget(c) \/ PublishMkdir(c),
           NEW t \in Targets, NEW v \in Volumes, T(c) = t, Vol(t) = v
    PROVE  NodeInv'
<1>1. ~At(c, "idle") /\ call[c].at \in {"p_target", "p_mkdir"}
  BY DEF PublishTarget, PublishMkdir, At
<1>2. /\ Kind(t) \in {"raw", "disk", "folder"}
      /\ Fit(call[c].at, t, call[c].dev) /\ Relies(call[c].at, t, call[c].dev, call[c].asked)
      /\ TargetGood(t) /\ OneFaultSpares /\ CallsOK /\ KernelOK /\ faults \in Nat
  BY <1>1, CallFacts
<1>3. /\ UNCHANGED <<use, mounts, loop, file, fsys, intact, npvi, published, gone, fits>>
      /\ faults' >= faults /\ faults' \in Nat
  BY <1>2 DEF PublishTarget, PublishMkdir, answers, Fault, NoFault
<1>4. /\ \A s \in Targets : s # t => path'[s] = path[s]
      /\ path[t] # "none" => path'[t] # "none"
  BY <1>2 DEF PublishTarget, PublishMkdir, Made, KernelOK
<1>5. /\ \A k \in Calls : k # c => call'[k] = call[k]
      /\ \/ call'[c].at = "idle"
         \/ /\ call'[c].at = (IF call[c].at = "p_target" THEN "p_check" ELSE NotMounted(t))
            /\ call'[c].target = call[c].target /\ call'[c].dev = call[c].dev
            /\ call'[c].asked = call[c].asked
  BY <1>1, <1>2, GotoFacts, ReturnFacts DEF PublishTarget, PublishMkdir, At
<1>6. TargetGood(t)'
  <2>1. ~gone[t]
    BY <1>1, <1>2 DEF Relies, ExpandLabels
  <2> QED
    BY <2>1, <1>2, <1>3, <1>4 DEF TargetGood, Mounted, Top, OnLoop, LoopsOf, Vol, Kind
<1>7. CallGood(c)'
  <2>1. PICK l : l = IF call[c].at = "p_target" THEN "p_check" ELSE NotMounted(t)
    OBVIOUS
  <2>2. PICK d, n : d = call[c].dev /\ n = call[c].asked
    OBVIOUS
  <2>3. Relies(l, t, d, n) /\ l # "u_row"
    BY <1>1, <1>2, <2>1, <2>2 DEF Fit, Relies, Carries, NotMounted, OnBlock, UnmountedLabels,
                      MountedLabels, ExpandLabels
  <2>4. Relies(l, t, d, n)'
    BY <2>3, <1>2, <1>3, ReliesStays
  <2>5. CASE call'[c].at = "idle"
    BY <2>5 DEF CallGood, At
  <2>6. CASE call'[c].at = l /\ call'[c].target = t /\ call'[c].dev = d /\ call'[c].asked = n
    BY <2>4, <2>6, CallGoodAt
  <2> QED
    BY <2>1, <2>2, <2>5, <2>6, <1>5 DEF T
<1>8. OneFaultSpares'
  BY <1>2, <1>3 DEF OneFaultSpares
<1> QED
  BY <1>1, <1>3, <1>4, <1>5, <1>6, <1>7, <1>8, SurfaceHolds

(* A mount on a target that is not mounted: one layer, over the device of  *)
(* the file.                                                               *)
LEMMA PublishMountHolds ==
    ASSUME NodeInv, NodeTypeInv', NEW c \in Calls, PublishMount(c),
           NEW t \in Targets, NEW v \in Volumes, T(c) = t, Vol(t) = v
    PROVE  NodeInv'
<1>1. ~At(c, "idle") /\ call[c].at = "p_mount"
  BY DEF PublishMount, At
<1>2. /\ Kind(t) \in {"raw", "disk", "folder"} /\ use[t].ro \in BOOLEAN
      /\ Relies("p_mount", t, call[c].dev, call[c].asked)
      /\ TargetGood(t) /\ VolumeGood(v) /\ OneFaultSpares /\ (\A d \in Devices : DeviceGood(d))
      /\ CallsOK /\ KernelOK /\ AnswersOK /\ faults \in Nat
  BY <1>1, CallFacts
<1>3. PICK d : d = call[c].dev
  OBVIOUS
<1>4. /\ mounts[t] = << >> /\ ~published[t] /\ ~gone[t] /\ d \in Devices \cup {NoDevice}
      /\ OnBlock(t) => d \in LoopsOf(v)
  <2>1. mounts[t] = << >> /\ ~published[t] /\ ~gone[t]
    BY <1>2 DEF Relies, UnmountedLabels, ExpandLabels, Mounted
  <2>2. d \in Devices \cup {NoDevice}
    BY <1>2, <1>3 DEF CallsOK, CallRecords
  <2>3. OnBlock(t) => d \in LoopsOf(v)
    BY <1>2, <1>3 DEF Relies, Carries
  <2> QED
    BY <2>1, <2>2, <2>3
<1>5. /\ UNCHANGED <<use, path, loop, file, intact, npvi, published, gone, fits>>
      /\ faults' >= faults /\ faults' \in Nat
  <2>1. UNCHANGED <<use, path, loop, file, intact, npvi, published, gone, fits>>
    BY DEF PublishMount, answers
  <2>2. NoFault \/ Fault("fs")
    BY DEF PublishMount
  <2> QED
    BY <2>1, <2>2, <1>2 DEF Fault, NoFault
<1>6. \A b \in BOOLEAN : [dev |-> d, ro |-> b] \in Layers
  BY <1>4 DEF Layers
<1>7. \/ mounts' = mounts
      \/ /\ path[t] # "none"
         /\ \E l \in Layers : l.dev = d /\ mounts'[t] = <<l>>
         /\ \A s \in Targets : s # t => mounts'[s] = mounts[s]
  <2>1. \/ mounts' = mounts
        \/ CanMount(t, d) /\ \E b \in BOOLEAN : mounts' = Covered(t, d, b)
    BY <1>2, <1>3 DEF PublishMount
  <2>2. \A b \in BOOLEAN : <<[dev |-> d, ro |-> b]>> \o << >> = <<[dev |-> d, ro |-> b]>>
    BY <1>6
  <2>3. \A b \in BOOLEAN : mounts' = Covered(t, d, b) =>
            /\ mounts'[t] = <<[dev |-> d, ro |-> b]>>
            /\ \A s \in Targets : s # t => mounts'[s] = mounts[s]
    BY <2>2, <1>2, <1>4 DEF Covered, KernelOK
  <2> QED
    BY <2>1, <2>3, <1>6 DEF CanMount
<1>8. /\ \A w \in Volumes : (w # v \/ ~OnBlock(t)) => fsys'[w] = fsys[w]
      /\ fsys'[v] = fsys[v] \/ (OnBlock(t) /\ fsys'[v] = loop[d].size)
  <2>1. fsys' = fsys \/ fsys' = Formatted(t, d)
    BY <1>3 DEF PublishMount
  <2> QED
    BY <2>1, <1>2 DEF Formatted, KernelOK, OnBlock
<1>9. /\ \A k \in Calls : k # c => call'[k] = call[k]
      /\ \/ call'[c].at = "idle"
         \/ /\ call'[c].at = "p_chmod" /\ mounts' = Covered(t, d, use[t].ro)
            /\ call'[c].target = call[c].target /\ call'[c].dev = call[c].dev
            /\ call'[c].asked = call[c].asked
  BY <1>2, <1>3, GotoFacts, ReturnFacts DEF PublishMount
<1>10. Elsewhere(c)
  BY <1>5, <1>7, <1>8, <1>9 DEF Elsewhere
<1>11. TargetGood(t)'
  <2>1. /\ Vol(t)' = Vol(t) /\ Kind(t)' = Kind(t) /\ LoopsOf(v)' = LoopsOf(v)
    BY <1>5 DEF Vol, Kind, LoopsOf
  <2>2. CASE mounts' = mounts
    BY <2>1, <2>2, <1>2, <1>5 DEF TargetGood, Mounted, Top, OnLoop, LoopsOf
  <2>3. CASE path[t] # "none" /\ \E l \in Layers : l.dev = d /\ mounts'[t] = <<l>>
    <3>1. PICK l \in Layers : l.dev = d /\ mounts'[t] = <<l>>
      BY <2>3
    <3>2. Top(t)' = l
      BY <3>1 DEF Top
    <3>3. OnBlock(t) => OnLoop(t)'
      BY <3>1, <3>2, <2>1, <1>4 DEF OnLoop, LoopsOf
    <3>4. ~published'[t] /\ ~gone'[t] /\ path'[t] # "none"
      BY <2>3, <1>4, <1>5
    <3> QED
      BY <3>1, <3>3, <3>4, <2>1 DEF TargetGood, OnBlock
  <2> QED
    BY <2>2, <2>3, <1>7
<1>12. VolumeGood(v)'
  <2>1. LoopsOf(v)' = LoopsOf(v)
    BY <1>5 DEF LoopsOf
  <2>2. \A s \in Targets : Vol(s)' = Vol(s) /\ Kind(s)' = Kind(s)
    BY <1>5 DEF Vol, Kind
  <2>3. OnBlock(t) => fits[v] <= loop[d].size
    BY <1>2, <1>4 DEF VolumeGood
  <2> QED
    BY <2>1, <2>2, <2>3, <1>2, <1>5, <1>8 DEF VolumeGood
<1>13. (\A e \in Devices : DeviceGood(e)') /\ OneFaultSpares'
  <2>1. ~Mounted(t)
    BY <1>4 DEF Mounted
  <2>2. \A s \in Targets : Mounted(s) => mounts'[s] = mounts[s]
    BY <2>1, <1>7
  <2> QED
    BY <2>2, <1>2, <1>5 DEF DeviceGood, OneFaultSpares, Mounted, Top, Kind
<1>14. CallGood(c)'
  <2>1. CASE call'[c].at = "idle"
    BY <2>1 DEF CallGood, At
  <2>2. CASE call'[c].at # "idle"
    <3>1. /\ call'[c].at = "p_chmod" /\ call'[c].target = t /\ call'[c].dev = d
          /\ call'[c].asked = call[c].asked /\ mounts' = Covered(t, d, use[t].ro)
      BY <2>2, <1>3, <1>9 DEF T
    <3>2. PICK n : n = call[c].asked
      OBVIOUS
    <3>3. mounts'[t] # << >>
      <4>1. <<[dev |-> d, ro |-> use[t].ro]>> \o << >> # << >>
        BY <1>2, <1>6
      <4> QED
        BY <3>1, <4>1, <1>2, <1>4 DEF Covered, KernelOK
    <3>4. n <= file[v]
      BY <3>2, <1>2 DEF Relies
    <3>5. Relies("p_chmod", t, d, n)'
      BY <3>3, <3>4, <1>4, <1>5
         DEF Relies, Carries, Mounted, Vol, UnmountedLabels, MountedLabels, ExpandLabels
    <3> QED
      BY <3>1, <3>2, <3>5, CallGoodAt
  <2> QED
    BY <2>1, <2>2
<1> QED
  BY <1>1, <1>9, <1>10, <1>11, <1>12, <1>13, <1>14, StepHolds

(* The row of a publish, and the clean-up of one that failed: with one     *)
(* fault it reaches the RemoveAll with nothing mounted, or read-only.      *)
LEMMA PublishEndHolds ==
    ASSUME NodeInv, NodeTypeInv', NEW c \in Calls, PublishRow(c) \/ PublishClear(c),
           NEW t \in Targets, NEW v \in Volumes, T(c) = t, Vol(t) = v
    PROVE  NodeInv'
<1>1. ~At(c, "idle") /\ call[c].at \in {"p_row", "p_clear"}
  BY DEF PublishRow, PublishClear, At
<1>2. /\ Relies(call[c].at, t, call[c].dev, call[c].asked)
      /\ TargetGood(t) /\ OneFaultSpares /\ CallsOK /\ KernelOK /\ AnswersOK /\ faults \in Nat
  BY <1>1, CallFacts
<1>3. /\ UNCHANGED <<use, mounts, loop, file, fsys, gone, fits>>
      /\ faults' >= faults /\ faults' \in Nat
  BY <1>2 DEF PublishRow, PublishClear, kernel, answers, Fails, Fault, NoFault
<1>4. /\ Vol(t)' = Vol(t) /\ Kind(t)' = Kind(t) /\ Mounted(t)' = Mounted(t) /\ Top(t)' = Top(t)
      /\ OnLoop(t)' = OnLoop(t)
  BY <1>3 DEF Vol, Kind, Mounted, Top, OnLoop, LoopsOf
<1>5. ~published[t] /\ ~gone[t]
  BY <1>1, <1>2 DEF Relies, ExpandLabels
<1>6. CASE PublishRow(c)
  <2>1. call[c].at = "p_row" /\ UNCHANGED <<path, intact>> /\ Mounted(t)
    BY <1>6, <1>2 DEF PublishRow, kernel, At, Relies, MountedLabels
  <2>2. /\ \A s \in Targets : s # t => npvi'[s] = npvi[s] /\ published'[s] = published[s]
        /\ published'[t] => npvi'[t] > 0
    <3>1. Recorded(t)[t] > 0 /\ \A s \in Targets : s # t => Recorded(t)[s] = npvi[s]
      BY <1>2 DEF Recorded, AnswersOK
    <3>2. UNCHANGED published \/ (published' = [published EXCEPT ![t] = TRUE] /\ npvi' = Recorded(t))
      BY <1>6 DEF PublishRow, answers
    <3>3. npvi' \in {npvi, Recorded(t)}
      BY <1>6 DEF PublishRow
    <3> QED
      BY <3>1, <3>2, <3>3, <1>2, <1>5 DEF AnswersOK
  <2>3. TargetGood(t)'
    BY <2>1, <2>2, <1>2, <1>3, <1>4, <1>5 DEF TargetGood
  <2>4. OneFaultSpares'
    BY <2>1, <1>2, <1>3 DEF OneFaultSpares
  <2>5. CASE Return(c)
    <3>1. CallGood(c)'
      BY <2>5, <1>2, ReturnFacts DEF CallGood, At
    <3> QED
      BY <3>1, <2>1, <2>2, <2>3, <2>4, <2>5, <1>1, <1>2, <1>3, ReturnFacts, SurfaceHolds
  <2>6. CASE Goto(c, "p_undo") /\ Fault("write") /\ UNCHANGED answers
    <3>1. PICK d, n : d = call[c].dev /\ n = call[c].asked
      OBVIOUS
    <3>2. faults' >= 1
      BY <2>6, <1>2 DEF Fault
    <3>3. Relies("p_row", t, d, n) /\ UNCHANGED published
      BY <3>1, <2>1, <2>6, <1>2 DEF answers
    <3>4. Relies("p_row", t, d, n)'
      BY <3>3, <1>2, <1>3, ReliesStays
    <3>5. Relies("p_undo", t, d, n)'
      BY <3>2, <3>4 DEF Relies, Carries, UnmountedLabels, MountedLabels, ExpandLabels
    <3>6. /\ call'[c].at = "p_undo" /\ call'[c].target = t /\ call'[c].dev = d
          /\ call'[c].asked = n /\ \A k \in Calls : k # c => call'[k] = call[k]
      BY <3>1, <2>6, <1>2, GotoFacts DEF T
    <3>7. CallGood(c)'
      BY <3>5, <3>6, CallGoodAt
    <3> QED
      BY <3>6, <3>7, <2>1, <2>2, <2>3, <2>4, <1>1, <1>3, SurfaceHolds DEF T
  <2> QED
    BY <1>6, <2>5, <2>6 DEF PublishRow
<1>7. CASE PublishClear(c)
  <2>1. /\ call[c].at = "p_clear" /\ UNCHANGED <<npvi, published>> /\ Return(c)
        /\ ~Mounted(t) \/ Top(t).ro \/ faults >= 2
    BY <1>7, <1>2 DEF PublishClear, At, Relies, Fails, answers
  <2>2. /\ \A s \in Targets : s # t => path'[s] = path[s]
        /\ Mounted(t) => path' = path
    BY <1>7, <1>2 DEF PublishClear, RemoveTarget, KernelOK
  <2>3. TargetGood(t)'
    BY <2>1, <2>2, <1>2, <1>3, <1>4, <1>5 DEF TargetGood
  <2>4. OneFaultSpares'
    BY <1>7, <2>1, <1>2, <1>3 DEF OneFaultSpares, PublishClear, RemoveTarget
  <2>5. CallGood(c)'
    BY <2>1, <1>2, ReturnFacts DEF CallGood, At
  <2> QED
    BY <2>1, <2>2, <2>3, <2>4, <2>5, <1>1, <1>2, <1>3, ReturnFacts, SurfaceHolds
<1> QED
  BY <1>6, <1>7

-----------------------------------------------------------------------------
(* A successful umount, in the clean-up of a publish or in an unpublish.   *)
LEMMA UnmountHolds ==
    ASSUME NodeInv, NodeTypeInv', NEW c \in Calls, ~At(c, "idle"),
           call[c].at \notin ExpandLabels,
           NEW t \in Targets, NEW v \in Volumes, T(c) = t, Vol(t) = v, Unmount(t),
           UNCHANGED <<use, path, file, fsys, intact, npvi, answers, faults>>,
           NEW l \in {"p_clear", "u_find", "u_remove"}, Goto(c, l)
    PROVE  NodeInv'
<1>1. /\ Kind(t) \in {"raw", "disk", "folder"}
      /\ Relies(call[c].at, t, call[c].dev, call[c].asked)
      /\ TargetGood(t) /\ VolumeGood(v) /\ OneFaultSpares
      /\ CallsOK /\ KernelOK /\ faults \in Nat
  BY CallFacts
<1>2. /\ mounts'[t] = << >> /\ \A s \in Targets : s # t => mounts'[s] = mounts[s]
      /\ \A d \in Devices :
            \/ loop'[d] = loop[d]
            \/ /\ Kind(t) = "disk" /\ loop[d].vol = v /\ loop'[d] = NoLoop
               /\ \A s \in Targets : s # t =>
                     ~(Kind(s) = "disk" /\ Mounted(s) /\ Top(s).dev = d)
      /\ \A d \in Devices : DeviceGood(d)'
  BY UnmountFacts
<1>3. UNCHANGED <<published, gone, fits>> /\ faults' >= faults /\ faults' \in Nat
  BY <1>1 DEF answers
<1>4. ~published[t] /\ ~gone[t] /\ call[c].asked <= file[v]
  BY <1>1 DEF Relies
<1>5. /\ call'[c].at = l /\ call'[c].target = t /\ call'[c].asked = call[c].asked
      /\ \A k \in Calls : k # c => call'[k] = call[k]
  BY <1>1, GotoFacts DEF T
<1>6. \A s \in Targets : (Kind(s) = "disk" /\ Mounted(s)) => Top(s).dev \in Devices
  BY DEF NodeInv, TargetGood, OnLoop, LoopsOf
<1>7. Elsewhere(c)
  <2>1. \A d \in Devices :
            \/ loop'[d] = loop[d]
            \/ /\ OnBlock(t)
               /\ loop[d].vol \in {v, NoVolume} /\ loop'[d].vol \in {v, NoVolume}
    BY <1>2 DEF NoLoop, OnBlock
  <2>2. \A s \in Targets : (s # t /\ Kind(s) = "disk" /\ Mounted(s)) =>
            loop'[Top(s).dev].vol = loop[Top(s).dev].vol
    BY <1>2, <1>6
  <2> QED
    BY <2>1, <2>2, <1>2, <1>3, <1>5 DEF Elsewhere
<1>8. ~Mounted(t)' /\ Vol(t)' = v /\ Kind(t)' = Kind(t)
  BY <1>2 DEF Mounted, Vol, Kind
<1>9. TargetGood(t)'
  BY <1>2, <1>3, <1>4, <1>8 DEF TargetGood
<1>10. VolumeGood(v)'
  <2>1. \A d \in LoopsOf(v)' : d \in LoopsOf(v) /\ loop'[d] = loop[d]
    BY <1>2, NodeAssumption DEF LoopsOf, NoLoop
  <2>2. \A s \in Targets : Vol(s)' = Vol(s) /\ Kind(s)' = Kind(s)
    BY DEF Vol, Kind
  <2> QED
    BY <2>1, <2>2, <1>1, <1>3 DEF VolumeGood
<1>11. CallGood(c)'
  <2>1. PICK d, n : d = call'[c].dev /\ n = call[c].asked
    OBVIOUS
  <2>2. Relies(l, t, d, n)'
    BY <2>1, <1>3, <1>4, <1>8
       DEF Relies, Carries, UnmountedLabels, MountedLabels, ExpandLabels
  <2> QED
    BY <2>1, <2>2, <1>5, CallGoodAt
<1>12. OneFaultSpares'
  BY <1>1 DEF OneFaultSpares
<1> QED
  BY <1>2, <1>5, <1>7, <1>9, <1>10, <1>11, <1>12, StepHolds DEF T

(* The two steps that unmount, and what they do when that fails.           *)
LEMMA UnmountStepsHold ==
    ASSUME NodeInv, NodeTypeInv', NEW c \in Calls, PublishUndo(c) \/ UnpublishUnmount(c),
           NEW t \in Targets, NEW v \in Volumes, T(c) = t, Vol(t) = v
    PROVE  NodeInv'
<1>1. ~At(c, "idle") /\ call[c].at \in {"p_undo", "u_unmount"}
  BY DEF PublishUndo, UnpublishUnmount, At
<1>2. /\ Relies(call[c].at, t, call[c].dev, call[c].asked)
      /\ CallsOK /\ faults \in Nat
  BY <1>1, CallFacts
<1>3. UNCHANGED <<use, path, file, fsys, intact, npvi, answers>>
  BY DEF PublishUndo, UnpublishUnmount
<1>4. call[c].at \notin ExpandLabels
  BY <1>1 DEF ExpandLabels
<1>5. CASE PublishUndo(c)
  <2>1. call[c].at = "p_undo" /\ Goto(c, "p_clear") /\ Mounted(t)
    BY <1>5, <1>2 DEF PublishUndo, At, Relies, MountedLabels
  <2>2. CASE Unmount(t) /\ NoFault
    BY <2>1, <2>2, <1>1, <1>3, <1>4, UnmountHolds DEF NoFault
  <2>3. CASE UNCHANGED <<mounts, loop>> /\ Fault("umount")
    <3>1. faults' = faults + 1 /\ faults' >= faults /\ UNCHANGED <<kernel, npvi, answers>>
      BY <2>3, <1>2, <1>3 DEF Fault, kernel
    <3>2. PICK d, n : d = call[c].dev /\ n = call[c].asked
      OBVIOUS
    <3>3. Top(t).ro \/ faults >= 1
      BY <2>1, <1>2 DEF Relies
    <3>4. UNCHANGED <<use, path, mounts, loop, file, fsys, intact, npvi, published, gone, fits>>
      BY <2>3, <1>3 DEF answers
    <3>5. Relies("p_clear", t, d, n)'
      <4>1. ~published[t] /\ ~gone[t] /\ n <= file[v]
        BY <3>2, <1>2, <1>4 DEF Relies
      <4>2. Top(t)' = Top(t) /\ Vol(t)' = v
        BY <3>4 DEF Top, Vol
      <4>3. Top(t)'.ro \/ faults' >= 2
        BY <3>1, <3>3, <4>2, <1>2
      <4> QED
        BY <4>1, <4>2, <4>3, <3>4
           DEF Relies, Carries, UnmountedLabels, MountedLabels, ExpandLabels
    <3>6. /\ call'[c].at = "p_clear" /\ call'[c].target = t /\ call'[c].dev = d
          /\ call'[c].asked = n /\ \A k \in Calls : k # c => call'[k] = call[k]
      BY <2>1, <3>2, <1>2, GotoFacts DEF T
    <3>7. CallGood(c)'
      BY <3>5, <3>6, CallGoodAt
    <3>8. TargetGood(t)' /\ OneFaultSpares'
      <4>1. TargetGood(t) /\ OneFaultSpares
        BY DEF NodeInv
      <4> QED
        BY <4>1, <3>1, <3>4, <1>2
           DEF TargetGood, OneFaultSpares, Mounted, Top, OnLoop, LoopsOf, Vol, Kind
    <3> QED
      BY <3>1, <3>4, <3>6, <3>7, <3>8, <1>1, SurfaceHolds DEF T
  <2> QED
    BY <1>5, <2>1, <2>2, <2>3 DEF PublishUndo
<1>6. CASE UnpublishUnmount(c)
  <2>1. CASE Unmount(t) /\ NoFault /\ Goto(c, IF OnBlock(t) THEN "u_find" ELSE "u_remove")
    <3>1. PICK l \in {"p_clear", "u_find", "u_remove"} :
              l = IF OnBlock(t) THEN "u_find" ELSE "u_remove"
      OBVIOUS
    <3>2. Goto(c, l)
      BY <2>1, <3>1
    <3> QED
      BY <2>1, <3>2, <1>1, <1>3, <1>4, UnmountHolds DEF NoFault
  <2>2. CASE Return(c) /\ UNCHANGED <<mounts, loop>>
    <3>1. UNCHANGED <<kernel, npvi, answers>> /\ faults' >= faults
      BY <2>2, <1>2, <1>3, <1>6 DEF kernel, UnpublishUnmount, Fault, NoFault
    <3> QED
      BY <3>1, <2>2, <1>1, <1>2, ReturnFacts, QuietHolds
  <2> QED
    BY <1>6, <2>1, <2>2 DEF UnpublishUnmount
<1> QED
  BY <1>5, <1>6

-----------------------------------------------------------------------------
(* NodeUnpublishVolume and NodeExpandVolume: the steps that look or find   *)
LEMMA LaterLooksHold ==
    ASSUME NodeInv, NodeTypeInv', NEW c \in Calls,
           \/ UnpublishGet(c) \/ UnpublishCheck(c) \/ UnpublishFind(c)
           \/ ExpandGet(c) \/ ExpandFind(c) \/ ExpandCheck(c)
    PROVE  NodeInv'
<1> DEFINE t == T(c)
           d == call[c].dev
           n == call[c].asked
<1>0. ~At(c, "idle")
  BY DEF UnpublishGet, UnpublishCheck, UnpublishFind, ExpandGet, ExpandFind, ExpandCheck,
         Looks, FindsLoop, At
<1>1. Relies(call[c].at, t, d, n)
  BY <1>0, CallFacts
<1> HIDE DEF t, d, n
<1> USE DEF At, UnmountedLabels, MountedLabels, ExpandLabels
<1>2. CASE UnpublishGet(c)
  <2>1. Looks(c, "u_get", "u_check", "read")
    BY <1>2 DEF UnpublishGet
  <2>2. Relies("u_check", t, d, n)
    BY <2>1, <1>1 DEF Looks, Relies, Carries
  <2> QED
    BY <2>1, <2>2, LooksHolds DEF t, d, n
<1>3. CASE UnpublishCheck(c)
  <2>1. Looks(c, "u_check", WhenMounted(t), "fs")
    BY <1>3 DEF UnpublishCheck, t
  <2>2. Relies(WhenMounted(t), t, d, n)
    BY <2>1, <1>1 DEF Looks, Relies, Carries, WhenMounted
  <2> QED
    BY <2>1, <2>2, LooksHolds DEF t, d, n
<1>4. CASE UnpublishFind(c)
  <2>1. FindsLoop(c, "u_find", "u_detach", "u_remove")
    BY <1>4 DEF UnpublishFind
  <2>2. /\ Relies("u_remove", t, d, n)
        /\ \A e \in LoopsOf(Vol(t)) : Relies("u_detach", t, e, n)
    BY <2>1, <1>1 DEF FindsLoop, Relies, Carries
  <2> QED
    BY <2>1, <2>2, FindsHolds DEF t, d, n
<1>5. CASE ExpandGet(c)
  <2> DEFINE next == IF OnBlock(t) THEN "x_find" ELSE "return"
  <2>1. Looks(c, "x_get", next, "read")
    BY <1>5 DEF ExpandGet, t
  <2>2. next # "return" => Relies(next, t, d, n)
    BY <2>1, <1>1 DEF Looks, Relies, Carries
  <2> HIDE DEF next
  <2> QED
    BY <2>1, <2>2, LooksHolds DEF t, d, n
<1>6. CASE ExpandFind(c)
  <2>1. FindsLoop(c, "x_find", "x_reread", "return")
    BY <1>6 DEF ExpandFind
  <2>2. \A e \in LoopsOf(Vol(t)) : Relies("x_reread", t, e, n)
    BY <2>1, <1>1 DEF FindsLoop, Relies, Carries
  <2> QED
    BY <2>1, <2>2, FindsHolds DEF t, d, n
<1>7. CASE ExpandCheck(c)
  <2> DEFINE next == IF Mounted(t) THEN "x_resize" ELSE "return"
  <2>1. Looks(c, "x_check", next, "fs")
    BY <1>7 DEF ExpandCheck, t
  <2>2. next # "return" => Relies(next, t, d, n)
    BY <2>1, <1>1 DEF Looks, Relies, Carries
  <2> HIDE DEF next
  <2> QED
    BY <2>1, <2>2, LooksHolds DEF t, d, n
<1> QED
  BY <1>2, <1>3, <1>4, <1>5, <1>6, <1>7

(* losetup -d of the device of the file, which nothing of t holds by now:  *)
(* it goes at once, or with the last other disk mounted from it.           *)
LEMMA UnpublishDetachHolds ==
    ASSUME NodeInv, NodeTypeInv', NEW c \in Calls, UnpublishDetach(c),
           NEW t \in Targets, NEW v \in Volumes, T(c) = t, Vol(t) = v
    PROVE  NodeInv'
<1>1. ~At(c, "idle") /\ call[c].at = "u_detach"
  BY DEF UnpublishDetach, At
<1>2. /\ Kind(t) \in {"raw", "disk", "folder"} /\ Fit("u_detach", t, call[c].dev)
      /\ Relies("u_detach", t, call[c].dev, call[c].asked)
      /\ TargetGood(t) /\ VolumeGood(v) /\ OneFaultSpares /\ (\A d \in Devices : DeviceGood(d))
      /\ CallsOK /\ KernelOK /\ AnswersOK /\ faults \in Nat
  BY <1>1, CallFacts
<1>3. PICK d : d = call[c].dev
  OBVIOUS
<1>4. /\ d \in Devices /\ loop[d].vol = v /\ OnBlock(t) /\ ~Mounted(t)
      /\ ~published[t] /\ ~gone[t] /\ call[c].asked <= file[v]
  BY <1>2, <1>3 DEF Fit, BlockLabels, Relies, Carries, LoopsOf, UnmountedLabels, ExpandLabels
<1>5. /\ UNCHANGED <<use, path, mounts, file, fsys, intact, npvi, published, gone, fits>>
      /\ faults' >= faults /\ faults' \in Nat
  <2>1. UNCHANGED <<use, path, mounts, file, fsys, intact, npvi, published, gone, fits>>
    BY DEF UnpublishDetach, answers
  <2>2. NoFault \/ Fault("losetup")
    BY DEF UnpublishDetach
  <2> QED
    BY <2>1, <2>2, <1>2 DEF Fault, NoFault
<1>6. CASE Return(c) /\ UNCHANGED loop
  <2>1. UNCHANGED <<kernel, npvi, answers>>
    BY <1>5, <1>6 DEF kernel, answers
  <2> QED
    BY <2>1, <1>1, <1>2, <1>5, <1>6, ReturnFacts, QuietHolds
<1>7. CASE /\ loop' = Settled([loop EXCEPT ![d] = [@ EXCEPT !.closing = TRUE]], mounts)
           /\ Goto(c, "u_remove")
  <2>1. \A e \in Devices : HeldBy(mounts, e) <=>
            \E s \in Targets : Kind(s) = "disk" /\ Mounted(s) /\ Top(s).dev = e
    <3>1. \A s \in Targets : mounts[s] = << >> \/ \E l \in Layers : mounts[s] = <<l>>
      BY DEF NodeInv, TargetGood
    <3> QED
      BY <3>1, HeldIsTop DEF Mounted, Top
  <2>2. /\ loop'[d] = IF HeldBy(mounts, d) THEN [loop[d] EXCEPT !.closing = TRUE] ELSE NoLoop
        /\ \A e \in Devices : e # d => loop'[e] = loop[e]
    <3>1. [loop[d] EXCEPT !.closing = TRUE].closing
      BY <1>2, <1>4 DEF KernelOK, LoopRecords
    <3>2. \A e \in Devices : loop[e].closing => HeldBy(mounts, e)
      BY <2>1, <1>2 DEF DeviceGood
    <3> QED
      BY <3>1, <3>2, <1>2, <1>4, <1>7 DEF Settled, KernelOK
  <2>3. HeldBy(mounts, d) => loop'[d].vol = v /\ loop'[d].size = loop[d].size
    BY <2>2, <1>2, <1>4 DEF KernelOK, LoopRecords
  <2>4. ~HeldBy(mounts, d) => loop'[d] = NoLoop /\ loop'[d].vol = NoVolume /\ ~loop'[d].closing
    BY <2>2 DEF NoLoop
  <2>5. /\ call'[c].at = "u_remove" /\ call'[c].target = t /\ call'[c].asked = call[c].asked
        /\ \A k \in Calls : k # c => call'[k] = call[k]
    BY <1>2, <1>7, GotoFacts DEF T
  <2>6. Elsewhere(c)
    <3>1. \A e \in Devices :
              \/ loop'[e] = loop[e]
              \/ /\ OnBlock(t)
                 /\ loop[e].vol \in {v, NoVolume} /\ loop'[e].vol \in {v, NoVolume}
      BY <2>2, <2>3, <2>4, <1>4
    <3>2. \A s \in Targets : (s # t /\ Kind(s) = "disk" /\ Mounted(s)) =>
              loop'[Top(s).dev].vol = loop[Top(s).dev].vol
      <4>1. \A s \in Targets : (Kind(s) = "disk" /\ Mounted(s)) => Top(s).dev \in Devices
        BY DEF NodeInv, TargetGood, OnLoop, LoopsOf
      <4> QED
        BY <4>1, <2>1, <2>2, <2>3, <1>4
    <3> QED
      BY <3>1, <3>2, <2>5, <1>5 DEF Elsewhere
  <2>7. Vol(t)' = v /\ Kind(t)' = Kind(t) /\ ~Mounted(t)'
    BY <1>4, <1>5 DEF Vol, Kind, Mounted
  <2>8. TargetGood(t)'
    BY <2>7, <1>2, <1>4, <1>5 DEF TargetGood, Mounted
  <2>9. VolumeGood(v)'
    <3>1. \A e \in LoopsOf(v)' : e \in LoopsOf(v) /\ loop'[e].size = loop[e].size
      BY <2>2, <2>3, <2>4, <1>4, NodeAssumption DEF LoopsOf
    <3>2. \A s \in Targets : Vol(s)' = Vol(s) /\ Kind(s)' = Kind(s)
      BY <1>5 DEF Vol, Kind
    <3> QED
      BY <3>1, <3>2, <1>2, <1>5 DEF VolumeGood
  <2>10. \A e \in Devices : DeviceGood(e)'
    <3>1. \A e \in Devices : loop'[e].closing => HeldBy(mounts, e)
      BY <2>1, <2>2, <2>4, <1>2 DEF DeviceGood
    <3>2. \A s \in Targets : Mounted(s)' = Mounted(s) /\ Top(s)' = Top(s) /\ Kind(s)' = Kind(s)
      BY <1>5 DEF Mounted, Top, Kind
    <3> QED
      BY <3>1, <3>2, <2>1 DEF DeviceGood
  <2>11. OneFaultSpares'
    BY <1>2, <1>5 DEF OneFaultSpares
  <2>12. CallGood(c)'
    <3>1. PICK e, n : e = call'[c].dev /\ n = call[c].asked
      OBVIOUS
    <3>2. Relies("u_remove", t, e, n)'
      BY <3>1, <2>7, <1>4, <1>5
         DEF Relies, Carries, UnmountedLabels, MountedLabels, ExpandLabels
    <3> QED
      BY <3>1, <3>2, <2>5, CallGoodAt
  <2> QED
    BY <2>5, <2>6, <2>8, <2>9, <2>10, <2>11, <2>12, <1>1, StepHolds DEF T
<1> QED
  BY <1>3, <1>6, <1>7 DEF UnpublishDetach

(* The end of an unpublish: with nothing mounted, RemoveAll removes the    *)
(* path and not the volume.                                                *)
LEMMA UnpublishEndHolds ==
    ASSUME NodeInv, NodeTypeInv', NEW c \in Calls, UnpublishRemove(c) \/ UnpublishRow(c),
           NEW t \in Targets, NEW v \in Volumes, T(c) = t, Vol(t) = v
    PROVE  NodeInv'
<1>1. ~At(c, "idle") /\ call[c].at \in {"u_remove", "u_row"}
  BY DEF UnpublishRemove, UnpublishRow, At
<1>2. /\ Relies(call[c].at, t, call[c].dev, call[c].asked)
      /\ TargetGood(t) /\ OneFaultSpares /\ CallsOK /\ KernelOK /\ AnswersOK /\ faults \in Nat
  BY <1>1, CallFacts
<1>3. UNCHANGED <<use, mounts, loop, file, fsys, published, fits>>
  BY DEF UnpublishRemove, UnpublishRow, kernel, answers
<1>4. faults' >= faults /\ faults' \in Nat
  <2>1. NoFault \/ Fault("fs") \/ Fault("write")
    BY DEF UnpublishRemove, UnpublishRow
  <2> QED
    BY <2>1, <1>2 DEF Fault, NoFault
<1>5. ~Mounted(t) /\ mounts[t] = << >> /\ ~published[t] /\ ~gone[t] /\ call[c].asked <= file[v]
  BY <1>1, <1>2 DEF Relies, Mounted, UnmountedLabels, ExpandLabels
<1>6. Vol(t)' = v /\ ~Mounted(t)'
  BY <1>3, <1>5 DEF Vol, Mounted
<1>7. CASE UnpublishRemove(c)
  <2>1. UNCHANGED <<npvi, published, gone, intact>>
    BY <1>7, <1>5 DEF UnpublishRemove, RemoveTarget, answers
  <2>2. \A s \in Targets : s # t => path'[s] = path[s]
    BY <1>7, <1>2, <1>5 DEF UnpublishRemove, RemoveTarget, KernelOK
  <2>3. TargetGood(t)' /\ OneFaultSpares'
    BY <2>1, <1>2, <1>3, <1>4, <1>5, <1>6 DEF TargetGood, OneFaultSpares
  <2>4. CASE Return(c)
    <3>1. CallGood(c)'
      BY <2>4, <1>2, ReturnFacts DEF CallGood, At
    <3> QED
      BY <3>1, <2>1, <2>2, <2>3, <2>4, <1>1, <1>2, <1>3, <1>4, ReturnFacts, SurfaceHolds
  <2>5. CASE RemoveTarget(t) /\ Goto(c, "u_row")
    <3>1. path'[t] = "none"
      BY <2>5, <1>2, <1>5 DEF RemoveTarget, KernelOK
    <3>2. PICK d, n : d = call[c].dev /\ n = call[c].asked
      OBVIOUS
    <3>3. Relies("u_row", t, d, n)'
      BY <3>1, <3>2, <2>1, <1>3, <1>5, <1>6
         DEF Relies, Carries, UnmountedLabels, MountedLabels, ExpandLabels
    <3>4. /\ call'[c].at = "u_row" /\ call'[c].target = t /\ call'[c].dev = d
          /\ call'[c].asked = n /\ \A k \in Calls : k # c => call'[k] = call[k]
      BY <3>2, <2>5, <1>2, GotoFacts DEF T
    <3>5. CallGood(c)'
      BY <3>3, <3>4, CallGoodAt
    <3> QED
      BY <3>4, <3>5, <2>1, <2>2, <2>3, <1>1, <1>3, <1>4, SurfaceHolds DEF T
  <2> QED
    BY <1>5, <1>7, <2>4, <2>5 DEF UnpublishRemove
<1>8. CASE UnpublishRow(c)
  <2>1. /\ UNCHANGED <<path, intact>> /\ Return(c) /\ path[t] = "none"
    BY <1>8, <1>2 DEF UnpublishRow, kernel, At, Relies
  <2>2. /\ \A s \in Targets : s # t => npvi'[s] = npvi[s] /\ gone'[s] = gone[s]
        /\ gone'[t] => npvi'[t] = 0
    <3>1. Forgotten(t)[t] = 0 /\ \A s \in Targets : s # t => Forgotten(t)[s] = npvi[s]
      BY <1>2 DEF Forgotten, AnswersOK
    <3>2. UNCHANGED gone \/ (gone' = [gone EXCEPT ![t] = TRUE] /\ npvi' = Forgotten(t))
      BY <1>8 DEF UnpublishRow, answers
    <3>3. npvi' \in {npvi, Forgotten(t)}
      BY <1>8 DEF UnpublishRow
    <3> QED
      BY <3>1, <3>2, <3>3, <1>2, <1>5 DEF AnswersOK
  <2>3. TargetGood(t)' /\ OneFaultSpares'
    BY <2>1, <2>2, <1>2, <1>3, <1>4, <1>5, <1>6 DEF TargetGood, OneFaultSpares
  <2>4. CallGood(c)'
    BY <2>1, <1>2, ReturnFacts DEF CallGood, At
  <2> QED
    BY <2>1, <2>2, <2>3, <2>4, <1>1, <1>2, <1>3, <1>4, ReturnFacts, SurfaceHolds
<1> QED
  BY <1>7, <1>8

(* losetup -c gives the device the size of the file, and the resize gives  *)
(* it to the file system; an answer promises no more than that.            *)
LEMMA AnswerFacts ==
    ASSUME CallsOK, KernelOK, AnswersOK, NEW c \in Calls, NEW t \in Targets, NEW v \in Volumes,
           T(c) = t, Vol(t) = v, AnswerExpanded(c)
    PROVE  /\ UNCHANGED <<published, gone>> /\ Return(c)
           /\ fits'[v] = fits[v] \/ fits'[v] = call[c].asked
           /\ \A w \in Volumes : w # v => fits'[w] = fits[w]
BY DEF AnswerExpanded, AnswersOK

(* The device found again is the one the call had found.                   *)
LEMMA ExpandRereadHolds ==
    ASSUME NodeInv, NodeTypeInv', NEW c \in Calls, ExpandReread(c),
           NEW t \in Targets, NEW v \in Volumes, T(c) = t, Vol(t) = v
    PROVE  NodeInv'
<1>1. ~At(c, "idle") /\ call[c].at = "x_reread"
  BY DEF ExpandReread, At
<1>2. /\ Kind(t) \in {"raw", "disk", "folder"} /\ Fit("x_reread", t, call[c].dev)
      /\ Relies("x_reread", t, call[c].dev, call[c].asked)
      /\ TargetGood(t) /\ VolumeGood(v) /\ OneFaultSpares /\ (\A d \in Devices : DeviceGood(d))
      /\ CallsOK /\ KernelOK /\ AnswersOK /\ faults \in Nat
  BY <1>1, CallFacts
<1>3. PICK d : d = call[c].dev
  OBVIOUS
<1>4. PICK n : n = call[c].asked
  OBVIOUS
<1>5. /\ d \in Devices /\ d \in LoopsOf(v) /\ loop[d].vol = v /\ OnBlock(t)
      /\ n <= file[v] /\ n \in Nat /\ file[v] \in Nat /\ fits[v] \in Nat
  <2>1. d \in Devices /\ d \in LoopsOf(v) /\ loop[d].vol = v /\ OnBlock(t) /\ n <= file[v]
    BY <1>2, <1>3, <1>4 DEF Fit, BlockLabels, Relies, Carries, LoopsOf
  <2>2. n \in Nat /\ file[v] \in Nat /\ fits[v] \in Nat
    BY <1>2, <1>4, NodeAssumption DEF CallsOK, CallRecords, KernelOK, AnswersOK
  <2> QED
    BY <2>1, <2>2
<1>6. FoundLoop(v) = d
  <2>1. FoundLoop(v) \in LoopsOf(v)
    BY <1>5, FoundIsOf
  <2> QED
    BY <2>1, <1>2, <1>5 DEF VolumeGood
<1>7. UNCHANGED <<use, path, mounts, file, fsys, intact, npvi>> /\ faults' >= faults /\ faults' \in Nat
  <2>1. UNCHANGED <<use, path, mounts, file, fsys, intact, npvi>> /\ (NoFault \/ Fault("losetup"))
    BY DEF ExpandReread
  <2> QED
    BY <2>1, <1>2 DEF Fault, NoFault
<1>8. CASE Fails(c) /\ UNCHANGED loop
  <2>1. UNCHANGED <<kernel, npvi, answers>> /\ Return(c)
    BY <1>7, <1>8 DEF kernel, answers, Fails
  <2> QED
    BY <2>1, <1>1, <1>2, <1>7, ReturnFacts, QuietHolds
<1>9. CASE /\ loop' = Reread(d, v)
           /\ IF Kind(t) = "raw" THEN AnswerExpanded(c)
              ELSE Goto(c, "x_check") /\ UNCHANGED answers
  <2>1. /\ loop'[d].vol = v /\ loop'[d].size = file[v] /\ loop'[d].closing = loop[d].closing
        /\ \A e \in Devices : e # d => loop'[e] = loop[e]
    BY <1>2, <1>5, <1>9 DEF Reread, KernelOK, LoopRecords
  <2>2. \A w : LoopsOf(w)' = LoopsOf(w)
    BY <2>1, <1>5 DEF LoopsOf
  <2>3. /\ UNCHANGED <<published, gone>> /\ \A k \in Calls : k # c => call'[k] = call[k]
        /\ fits'[v] = fits[v] \/ (Kind(t) = "raw" /\ fits'[v] = n)
        /\ \A w \in Volumes : w # v => fits'[w] = fits[w]
    <3>1. CASE AnswerExpanded(c) /\ Kind(t) = "raw"
      <4>1. /\ UNCHANGED <<published, gone>> /\ Return(c)
            /\ fits'[v] = fits[v] \/ fits'[v] = n
            /\ \A w \in Volumes : w # v => fits'[w] = fits[w]
        BY <3>1, <1>2, <1>4, AnswerFacts
      <4> QED
        BY <3>1, <4>1, <1>2, ReturnFacts
    <3>2. CASE Goto(c, "x_check") /\ UNCHANGED answers
      BY <3>2, <1>2, GotoFacts DEF answers
    <3> QED
      BY <3>1, <3>2, <1>9
  <2>4. \A s \in Targets : /\ Vol(s)' = Vol(s) /\ Kind(s)' = Kind(s)
                           /\ Mounted(s)' = Mounted(s) /\ Top(s)' = Top(s)
    BY <1>7 DEF Vol, Kind, Mounted, Top
  <2>5. Elsewhere(c)
    <3>1. \A e \in Devices :
              \/ loop'[e] = loop[e]
              \/ /\ OnBlock(t)
                 /\ loop[e].vol \in {v, NoVolume} /\ loop'[e].vol \in {v, NoVolume}
      BY <2>1, <1>5
    <3>2. \A s \in Targets : (Kind(s) = "disk" /\ Mounted(s)) =>
              loop'[Top(s).dev].vol = loop[Top(s).dev].vol
      <4>1. \A s \in Targets : (Kind(s) = "disk" /\ Mounted(s)) => Top(s).dev \in Devices
        BY DEF NodeInv, TargetGood, OnLoop, LoopsOf
      <4> QED
        BY <4>1, <2>1, <1>5
    <3> QED
      BY <3>1, <3>2, <2>3, <1>5, <1>7 DEF Elsewhere
  <2>6. TargetGood(t)'
    BY <2>2, <2>3, <2>4, <1>2, <1>7 DEF TargetGood, OnLoop, Mounted
  <2>7. VolumeGood(v)'
    <3>1. fits'[v] <= file[v] /\ fits'[v] <= loop'[d].size
      BY <2>1, <2>3, <1>2, <1>5 DEF VolumeGood
    <3>2. \A e \in LoopsOf(v) : e = d
      BY <1>2, <1>5 DEF VolumeGood
    <3>3. (Kind(t) = "raw" /\ RawAlone) =>
              \A s \in Targets : ~(Vol(s) = v /\ Kind(s) = "disk")
      BY <1>2 DEF RawAlone, KernelOK, Vol, Kind
    <3> QED
      BY <3>1, <3>2, <3>3, <2>2, <2>3, <2>4, <1>2, <1>7 DEF VolumeGood
  <2>8. (\A e \in Devices : DeviceGood(e)') /\ OneFaultSpares'
    BY <2>1, <2>4, <1>2, <1>7 DEF DeviceGood, OneFaultSpares
  <2>9. CallGood(c)' /\ (call'[c].at = "idle" \/ call'[c].target = t)
    <3>1. CASE AnswerExpanded(c)
      <4>1. Return(c)
        BY <3>1 DEF AnswerExpanded
      <4> QED
        BY <4>1, <1>2, ReturnFacts DEF CallGood, At
    <3>2. CASE Goto(c, "x_check")
      <4>1. /\ call'[c].at = "x_check" /\ call'[c].target = t /\ call'[c].dev = d
            /\ call'[c].asked = n
        BY <3>2, <1>2, <1>3, <1>4, GotoFacts DEF T
      <4>2. Relies("x_check", t, d, n)'
        BY <2>1, <2>2, <2>3, <2>4, <1>5, <1>7
           DEF Relies, Carries, UnmountedLabels, MountedLabels, ExpandLabels
      <4> QED
        BY <4>1, <4>2, CallGoodAt
    <3> QED
      BY <3>1, <3>2, <1>9
  <2> QED
    BY <2>3, <2>5, <2>6, <2>7, <2>8, <2>9, <1>1, StepHolds DEF T
<1> QED
  BY <1>3, <1>6, <1>8, <1>9 DEF ExpandReread

(* The file system gets the size of the device.                            *)
LEMMA ExpandResizeHolds ==
    ASSUME NodeInv, NodeTypeInv', NEW c \in Calls, ExpandResize(c),
           NEW t \in Targets, NEW v \in Volumes, T(c) = t, Vol(t) = v
    PROVE  NodeInv'
<1>1. ~At(c, "idle") /\ call[c].at = "x_resize"
  BY DEF ExpandResize, At
<1>2. /\ Kind(t) \in {"raw", "disk", "folder"} /\ Fit("x_resize", t, call[c].dev)
      /\ Relies("x_resize", t, call[c].dev, call[c].asked)
      /\ TargetGood(t) /\ VolumeGood(v) /\ OneFaultSpares /\ (\A d \in Devices : DeviceGood(d))
      /\ CallsOK /\ KernelOK /\ AnswersOK /\ faults \in Nat
  BY <1>1, CallFacts
<1>3. PICK d : d = call[c].dev
  OBVIOUS
<1>4. PICK n : n = call[c].asked
  OBVIOUS
<1>5. d \in LoopsOf(v) /\ OnBlock(t) /\ n <= file[v] /\ n <= loop[d].size
  BY <1>2, <1>3, <1>4 DEF Fit, BlockLabels, Relies, Carries
<1>6. /\ UNCHANGED <<use, path, mounts, loop, file, intact, npvi>>
      /\ faults' >= faults /\ faults' \in Nat /\ Return(c)
  <2>1. /\ UNCHANGED <<use, path, mounts, loop, file, intact, npvi>>
        /\ (NoFault \/ Fault("fs")) /\ Return(c)
    BY DEF ExpandResize, AnswerExpanded, Fails
  <2> QED
    BY <2>1, <1>2 DEF Fault, NoFault
<1>7. CASE UNCHANGED fsys /\ Fails(c)
  <2>1. UNCHANGED <<kernel, npvi, answers>>
    BY <1>6, <1>7 DEF kernel, answers, Fails
  <2> QED
    BY <2>1, <1>1, <1>2, <1>6, ReturnFacts, QuietHolds
<1>8. CASE fsys' = [fsys EXCEPT ![v] = loop[d].size] /\ AnswerExpanded(c)
  <2>1. /\ UNCHANGED <<published, gone>>
        /\ fits'[v] = fits[v] \/ fits'[v] = n
        /\ \A w \in Volumes : w # v => fits'[w] = fits[w]
    BY <1>2, <1>4, <1>8, AnswerFacts
  <2>2. fsys'[v] = loop[d].size /\ \A w \in Volumes : w # v => fsys'[w] = fsys[w]
    BY <1>2, <1>8 DEF KernelOK
  <2>3. \A s \in Targets : /\ Vol(s)' = Vol(s) /\ Kind(s)' = Kind(s)
                           /\ Mounted(s)' = Mounted(s) /\ Top(s)' = Top(s)
    BY <1>6 DEF Vol, Kind, Mounted, Top
  <2>4. \A w : LoopsOf(w)' = LoopsOf(w)
    BY <1>6 DEF LoopsOf
  <2>5. Elsewhere(c)
    BY <2>1, <2>2, <1>2, <1>5, <1>6, ReturnFacts DEF Elsewhere
  <2>6. TargetGood(t)'
    BY <2>1, <2>3, <2>4, <1>2, <1>6 DEF TargetGood, OnLoop, Mounted
  <2>7. VolumeGood(v)'
    <3>1. fits'[v] <= file[v] /\ fits'[v] <= loop[d].size
      BY <2>1, <1>2, <1>5 DEF VolumeGood
    <3>2. \A e \in LoopsOf(v) : e = d
      BY <1>2, <1>5 DEF VolumeGood
    <3> QED
      BY <3>1, <3>2, <2>2, <2>3, <2>4, <1>2, <1>6 DEF VolumeGood
  <2>8. (\A e \in Devices : DeviceGood(e)') /\ OneFaultSpares'
    BY <2>3, <1>2, <1>6 DEF DeviceGood, OneFaultSpares
  <2>9. CallGood(c)' /\ call'[c].at = "idle" /\ \A k \in Calls : k # c => call'[k] = call[k]
    BY <1>2, <1>6, ReturnFacts DEF CallGood, At
  <2> QED
    BY <2>5, <2>6, <2>7, <2>8, <2>9, <1>1, StepHolds
<1> QED
  BY <1>3, <1>7, <1>8 DEF ExpandResize

-----------------------------------------------------------------------------
(* A call starts, the controller extends a file, or the process ends.      *)
LEMMA CallHolds ==
    ASSUME NodeInv, NodeTypeInv', ~Overlaps, NEW c \in Calls, NEW t \in Targets,
           PublishCall(c, t) \/ UnpublishCall(c, t) \/ ExpandCall(c, t)
    PROVE  NodeInv'
<1>1. PICK label \in {"p_get", "u_get", "x_get"} :
          /\ Start(c, t, label)
          /\ label = "x_get" \/ (~published'[t] /\ ~gone'[t])
  <2>1. published \in [Targets -> BOOLEAN] /\ gone \in [Targets -> BOOLEAN]
    BY DEF NodeInv, NodeTypeInv, AnswersOK
  <2> QED
    BY <2>1 DEF PublishCall, UnpublishCall, ExpandCall
<1>2. /\ CallsOK /\ KernelOK /\ AnswersOK /\ TurnsOK /\ OneFaultSpares
      /\ (\A k \in Calls : CallGood(k)) /\ (\A s \in Targets : TargetGood(s))
      /\ (\A v \in Volumes : VolumeGood(v)) /\ (\A d \in Devices : DeviceGood(d))
  BY DEF NodeInv, NodeTypeInv
<1>3. UNCHANGED <<use, path, mounts, loop, file, fsys, intact, npvi, fits, faults>>
  BY <1>1 DEF Start, kernel
<1>4. /\ call'[c].at = label /\ call'[c].target = t /\ call'[c].asked = file[Vol(t)]
      /\ \A k \in Calls : k # c => call'[k] = call[k]
  BY <1>1, <1>2 DEF Start, CallsOK
<1>5. \A s \in Targets : (published'[s] => published[s]) /\ (gone'[s] => gone[s])
  BY <1>2 DEF PublishCall, UnpublishCall, ExpandCall, AnswersOK
<1>6. \A s \in Targets : /\ Vol(s)' = Vol(s) /\ Kind(s)' = Kind(s) /\ OnBlock(s)' = OnBlock(s)
                         /\ Mounted(s)' = Mounted(s) /\ Top(s)' = Top(s)
  BY <1>3 DEF Vol, Kind, OnBlock, Mounted, Top
<1>7. \A w : LoopsOf(w)' = LoopsOf(w)
  BY <1>3 DEF LoopsOf
<1>8. TurnsOK'
  <2>1. \A k \in Calls : (k # c /\ ~At(k, "idle")) =>
            T(k) \in Targets /\ InTurn(t, T(k)) /\ InTurn(T(k), t)
    <3>1. \A k \in Calls : (k # c /\ ~At(k, "idle")) => T(k) \in Targets /\ InTurn(t, T(k))
      BY <1>2 DEF MayCall, PublishCall, UnpublishCall, ExpandCall, CallsOK, Fit
    <3>2. \A s \in Targets : Vol(s) = Vol(t) => (OnBlock(s) <=> OnBlock(t))
      BY <1>2, UseFacts
    <3> QED
      BY <3>1, <3>2 DEF InTurn
  <2>2. \A s, r : InTurn(s, r)' <=> InTurn(s, r)
    BY <1>3 DEF InTurn, Vol, OnBlock, Kind
  <2> QED
    BY <2>1, <2>2, <1>2, <1>4 DEF TurnsOK, At, T
<1>9. ASSUME NEW k \in Calls PROVE CallGood(k)'
  <2>1. CASE k = c
    <3>1. PICK d, n : d = call'[c].dev /\ n = file[Vol(t)]
      OBVIOUS
    <3>2. file[Vol(t)] \in Nat
      BY <1>2, UseFacts, NodeAssumption DEF KernelOK
    <3>3. Relies(label, t, d, n)'
      BY <3>1, <3>2, <1>1, <1>3, <1>6
         DEF Relies, Carries, UnmountedLabels, MountedLabels, ExpandLabels
    <3> QED
      BY <2>1, <3>1, <3>3, <1>4, CallGoodAt
  <2>2. CASE k # c /\ At(k, "idle")
    BY <2>2, <1>4 DEF CallGood, At
  <2>3. CASE k # c /\ ~At(k, "idle")
    <3>1. PICK s \in Targets : s = T(k)
      BY <2>3, <1>2 DEF CallsOK, Fit
    <3>2. PICK l, d, n : l = call[k].at /\ d = call[k].dev /\ n = call[k].asked
      OBVIOUS
    <3>3. Relies(l, s, d, n)
      BY <2>3, <3>1, <3>2, <1>2 DEF CallGood
    <3>4. Relies(l, s, d, n)'
      BY <3>3, <1>3, <1>5, <1>6, <1>7 DEF Relies, Carries
    <3> QED
      BY <2>3, <3>1, <3>2, <3>4, <1>4, CallGoodAt DEF T
  <2> QED
    BY <2>1, <2>2, <2>3
<1>10. \A s \in Targets : TargetGood(s)'
  BY <1>2, <1>3, <1>5, <1>6, <1>7 DEF TargetGood, OnLoop
<1>11. \A v \in Volumes : VolumeGood(v)'
  BY <1>2, <1>3, <1>6, <1>7 DEF VolumeGood
<1>12. (\A d \in Devices : DeviceGood(d)') /\ OneFaultSpares'
  BY <1>2, <1>3, <1>6 DEF DeviceGood, OneFaultSpares
<1> QED
  BY <1>8, <1>9, <1>10, <1>11, <1>12 DEF NodeInv

(* A file only grows; a crash leaves no call to rely on anything.          *)
LEMMA OutsideHolds ==
    ASSUME NodeInv, NodeTypeInv', PluginCrash \/ \E v \in Volumes : Grow(v)
    PROVE  NodeInv'
<1>1. /\ CallsOK /\ KernelOK /\ TurnsOK /\ OneFaultSpares /\ faults \in Nat
      /\ (\A k \in Calls : CallGood(k)) /\ (\A s \in Targets : TargetGood(s))
      /\ (\A v \in Volumes : VolumeGood(v)) /\ (\A d \in Devices : DeviceGood(d))
  BY NodeAssumption DEF NodeInv, NodeTypeInv
<1>2. /\ UNCHANGED <<use, path, mounts, loop, fsys, intact, npvi, published, gone, fits>>
      /\ faults' >= faults /\ faults' \in Nat
      /\ \A v \in Volumes : file'[v] >= file[v] /\ file[v] \in Nat /\ file'[v] \in Nat
      /\ UNCHANGED call \/ \A c \in Calls : call'[c].at = "idle"
  <2>1. CASE PluginCrash
    <3>1. UNCHANGED <<use, path, mounts, loop, file, fsys, intact, npvi, published, gone, fits>>
      BY <2>1 DEF PluginCrash, kernel, answers
    <3>2. \A v \in Volumes : file[v] \in Nat
      BY <1>1, NodeAssumption DEF KernelOK
    <3>3. \A c \in Calls : call'[c].at = "idle"
      BY <2>1 DEF PluginCrash, NoCall
    <3>4. faults' = faults + 1
      BY <2>1 DEF PluginCrash, Fault
    <3> QED
      BY <3>1, <3>2, <3>3, <3>4, <1>1
  <2>2. ASSUME NEW v \in Volumes, Grow(v)
        PROVE  /\ UNCHANGED <<use, path, mounts, loop, fsys, intact, npvi, published, gone, fits,
                              faults, call>>
               /\ \A w \in Volumes : file'[w] >= file[w] /\ file[w] \in Nat /\ file'[w] \in Nat
    BY <2>2, <1>1, NodeAssumption DEF Grow, answers, KernelOK
  <2> QED
    BY <2>1, <2>2, <1>1
<1>3. \A s : /\ Vol(s)' = Vol(s) /\ Kind(s)' = Kind(s) /\ OnBlock(s)' = OnBlock(s)
             /\ Mounted(s)' = Mounted(s) /\ Top(s)' = Top(s)
  BY <1>2 DEF Vol, Kind, OnBlock, Mounted, Top
<1>4. \A w : LoopsOf(w)' = LoopsOf(w)
  BY <1>2 DEF LoopsOf
<1>5. TurnsOK'
  BY <1>1, <1>2, <1>3 DEF TurnsOK, InTurn, At, T
<1>6. ASSUME NEW k \in Calls PROVE CallGood(k)'
  <2>1. CASE call'[k].at = "idle"
    BY <2>1 DEF CallGood, At
  <2>2. CASE call' = call /\ ~At(k, "idle")
    <3>1. PICK s \in Targets : s = T(k)
      BY <2>2, <1>1 DEF CallsOK, Fit
    <3>2. PICK l, d, n : l = call[k].at /\ d = call[k].dev /\ n = call[k].asked
      OBVIOUS
    <3>3. Relies(l, s, d, n) /\ n \in Nat /\ Vol(s) \in Volumes
      <4>1. n \in Nat
        BY <3>2, <1>1, NodeAssumption DEF CallsOK, CallRecords
      <4> QED
        BY <2>2, <3>1, <3>2, <4>1, <1>1, UseFacts DEF CallGood
    <3>4. Relies(l, s, d, n)'
      <4>1. n <= file'[Vol(s)]
        BY <3>3, <1>2 DEF Relies
      <4> QED
        BY <3>3, <4>1, <1>1, <1>2, <1>3, <1>4 DEF Relies, Carries
    <3> QED
      BY <2>2, <3>1, <3>2, <3>4, CallGoodAt DEF T
  <2> QED
    BY <2>1, <2>2, <1>2 DEF At
<1>7. \A s \in Targets : TargetGood(s)'
  BY <1>1, <1>2, <1>3, <1>4 DEF TargetGood, OnLoop
<1>8. \A v \in Volumes : VolumeGood(v)'
  <2>1. \A v \in Volumes : fits[v] \in Nat
    BY NodeAssumption DEF NodeInv, NodeTypeInv, AnswersOK
  <2> QED
    BY <2>1, <1>1, <1>2, <1>3, <1>4 DEF VolumeGood
<1>9. (\A d \in Devices : DeviceGood(d)') /\ OneFaultSpares'
  BY <1>1, <1>2, <1>3 DEF DeviceGood, OneFaultSpares
<1> QED
  BY <1>5, <1>6, <1>7, <1>8, <1>9 DEF NodeInv

(* Every step of a call under way keeps the invariant.                     *)
LEMMA NodeStepHolds ==
    ASSUME NodeInv, NodeTypeInv', NEW c \in Calls, NodeStep(c)
    PROVE  NodeInv'
<1> DEFINE Silent == \/ PublishGet(c) \/ PublishFind(c) \/ PublishCheck(c) \/ PublishChmod(c)
                     \/ UnpublishGet(c) \/ UnpublishCheck(c) \/ UnpublishFind(c)
                     \/ ExpandGet(c) \/ ExpandFind(c) \/ ExpandCheck(c)
<1>1. CASE Silent
  BY <1>1, PublishLooksHolds, LaterLooksHold
<1>2. CASE ~Silent
  <2>1. ~At(c, "idle")
    BY <1>2 DEF NodeStep, PublishMake, PublishTarget, PublishMkdir, PublishMount, PublishRow,
        PublishUndo, PublishClear, UnpublishUnmount, UnpublishDetach, UnpublishRemove,
        UnpublishRow, ExpandReread, ExpandResize, At
  <2>2. T(c) \in Targets /\ Vol(T(c)) \in Volumes
    BY <2>1, CallFacts
  <2>3. PICK t \in Targets, v \in Volumes : T(c) = t /\ Vol(t) = v
    BY <2>2
  <2> QED
    BY <1>2, <2>3, PublishMakeHolds, PublishPathHolds, PublishMountHolds, PublishEndHolds,
       UnmountStepsHold, UnpublishDetachHolds, UnpublishEndHolds, ExpandRereadHolds,
       ExpandResizeHolds
       DEF NodeStep
<1> QED
  BY <1>1, <1>2

(* The initial states satisfy the invariant.                               *)
LEMMA NodeInitHolds == NodeInit => NodeInv
<1> SUFFICES ASSUME NodeInit PROVE NodeInv
  OBVIOUS
<1>1. NodeTypeInv /\ NoLoop.vol = NoVolume /\ ~NoLoop.closing
  BY NodeInitType DEF NoLoop
<1>2. \A c \in Calls : At(c, "idle")
  BY DEF NodeInit, At, NoCall
<1>3. \A v \in Volumes : LoopsOf(v) = {} /\ VolumeGood(v)
  <2>1. \A v \in Volumes : LoopsOf(v) = {}
    BY <1>1, NodeAssumption DEF NodeInit, LoopsOf
  <2> QED
    BY <2>1 DEF NodeInit, VolumeGood
<1>4. \A t \in Targets : TargetGood(t)
  BY DEF NodeInit, TargetGood, Mounted
<1>5. (\A d \in Devices : DeviceGood(d)) /\ OneFaultSpares
  BY <1>1 DEF NodeInit, DeviceGood, OneFaultSpares
<1> QED
  BY <1>1, <1>2, <1>3, <1>4, <1>5 DEF NodeInv, TurnsOK, CallGood

(* The invariant is inductive where calls are made in turn.                *)
LEMMA NodeInductive ==
    ASSUME ~Overlaps
    PROVE  NodeInv /\ [NodeNext]_nodeVars => NodeInv'
<1> SUFFICES ASSUME NodeInv, [NodeNext]_nodeVars PROVE NodeInv'
  OBVIOUS
<1>1. NodeTypeInv'
  BY NodeNextType DEF NodeInv
<1>2. ASSUME NEW c \in Calls, NodeCall(c) PROVE NodeInv'
  BY <1>1, <1>2, CallHolds DEF NodeCall
<1>3. ASSUME NEW c \in Calls, NodeStep(c) PROVE NodeInv'
  BY <1>1, <1>3, NodeStepHolds
<1>4. CASE UNCHANGED nodeVars
  <2>1. UNCHANGED <<use, path, mounts, loop, file, fsys, intact, npvi, call, published, gone,
                    fits, faults>>
    BY <1>4 DEF nodeVars
  <2>2. \A s : /\ Vol(s)' = Vol(s) /\ Kind(s)' = Kind(s) /\ OnBlock(s)' = OnBlock(s)
               /\ Mounted(s)' = Mounted(s) /\ Top(s)' = Top(s) /\ LoopsOf(s)' = LoopsOf(s)
    BY <2>1 DEF Vol, Kind, OnBlock, Mounted, Top, LoopsOf
  <2>3. TurnsOK' /\ \A c \in Calls : CallGood(c)'
    BY <2>1, <2>2 DEF NodeInv, TurnsOK, CallGood, Relies, Carries, InTurn, At, T
  <2>4. (\A t \in Targets : TargetGood(t)') /\ (\A v \in Volumes : VolumeGood(v)')
    BY <2>1, <2>2 DEF NodeInv, TargetGood, VolumeGood, OnLoop
  <2>5. (\A d \in Devices : DeviceGood(d)') /\ OneFaultSpares'
    BY <2>1, <2>2 DEF NodeInv, DeviceGood, OneFaultSpares
  <2> QED
    BY <1>1, <2>3, <2>4, <2>5 DEF NodeInv
<1> QED
  BY <1>1, <1>2, <1>3, <1>4, OutsideHolds DEF NodeNext

(* So it holds in every state.                                             *)
LEMMA NodeInvAlways ==
    ASSUME ~Overlaps
    PROVE  NodeSpec => []NodeInv
<1>1. NodeInv /\ [NodeNext]_nodeVars => NodeInv'
  BY NodeInductive
<1> QED
  BY <1>1, NodeInitHolds, PTL DEF NodeSpec

-----------------------------------------------------------------------------
(* The theorems *)

(* AttachFileDevice makes a loop device only for a file that has none, so  *)
(* DetachFileDevice and NodeExpandVolume find the device that is mounted.  *)
THEOREM OneLoopPerFileAlways ==
    ASSUME ~Overlaps
    PROVE  NodeSpec => []OneLoopPerFile
<1>1. ASSUME NodeInv PROVE OneLoopPerFile
  <2> SUFFICES ASSUME NEW v \in Volumes PROVE Cardinality(LoopsOf(v)) <= 1
    BY DEF OneLoopPerFile
  <2>1. CASE LoopsOf(v) = {}
    BY <2>1, FS_EmptySet
  <2>2. ASSUME NEW d \in LoopsOf(v) PROVE Cardinality(LoopsOf(v)) <= 1
    <3>1. LoopsOf(v) = {d}
      BY <1>1 DEF NodeInv, VolumeGood
    <3> QED
      BY <3>1, FS_Singleton
  <2> QED
    BY <2>1, <2>2
<1> QED
  BY <1>1, NodeInvAlways, PTL

(* A target whose unpublish was answered OK has no mount, no path and no   *)
(* row, whatever failed before and whenever the plugin crashed.            *)
THEOREM UnpublishedIsCleanAlways ==
    ASSUME ~Overlaps
    PROVE  NodeSpec => []UnpublishedIsClean
<1>1. NodeInv => UnpublishedIsClean
  BY DEF NodeInv, TargetGood, UnpublishedIsClean
<1> QED
  BY <1>1, NodeInvAlways, PTL

(* A target whose publish was answered OK stays mounted from the loop      *)
(* device of its file, whatever calls for other targets do.                *)
THEOREM PublishedIsMountedAlways ==
    ASSUME ~Overlaps, RawAlone
    PROVE  NodeSpec => []PublishedIsMounted
<1>1. ASSUME NodeInv PROVE PublishedIsMounted
  <2> SUFFICES ASSUME NEW t \in Targets, published[t]
               PROVE  /\ Mounted(t) /\ npvi[t] > 0
                      /\ OnBlock(t) => Top(t).dev \in LoopsOf(Vol(t))
    BY DEF PublishedIsMounted
  <2>1. TargetGood(t) /\ Kind(t) \in {"raw", "disk", "folder"}
    BY <1>1, UseFacts DEF NodeInv, NodeTypeInv
  <2> QED
    BY <2>1 DEF TargetGood, OnLoop, OnBlock
<1> QED
  BY <1>1, NodeInvAlways, PTL

(* NodeExpandVolume answers OK only when the published device, and the     *)
(* file system on it, have the size the file had when it was called; a     *)
(* later publish, unpublish or failed expansion does not take it back.     *)
THEOREM ExpandedFitsAlways ==
    ASSUME ~Overlaps, RawAlone
    PROVE  NodeSpec => []ExpandedFits
<1>1. ASSUME NodeInv PROVE ExpandedFits
  <2> SUFFICES ASSUME NEW t \in Targets, published[t], OnBlock(t)
               PROVE  /\ loop[Top(t).dev].size >= fits[Vol(t)]
                      /\ Kind(t) = "disk" => fsys[Vol(t)] >= fits[Vol(t)]
    BY DEF ExpandedFits
  <2>1. /\ TargetGood(t) /\ VolumeGood(Vol(t)) /\ Kind(t) \in {"raw", "disk", "folder"}
        /\ Vol(t) \in Volumes /\ KernelOK /\ AnswersOK
    BY <1>1, UseFacts DEF NodeInv, NodeTypeInv
  <2>2. Top(t).dev \in LoopsOf(Vol(t)) /\ Top(t).dev \in Devices
    BY <2>1 DEF TargetGood, OnLoop, OnBlock, LoopsOf
  <2>3. fits[Vol(t)] \in Nat /\ fsys[Vol(t)] \in Nat /\ loop[Top(t).dev].size \in Nat
    BY <2>1, <2>2, NodeAssumption DEF KernelOK, AnswersOK, LoopRecords
  <2> QED
    BY <2>1, <2>2, <2>3 DEF VolumeGood
<1> QED
  BY <1>1, NodeInvAlways, PTL

(* One failed statement, command or crash, at any point of any number of   *)
(* calls, does not make RemoveAll reach into a volume.                     *)
THEOREM DataSparedAlways ==
    ASSUME ~Overlaps, MaxFaults <= 1
    PROVE  NodeSpec => []DataSpared
<1>1. NodeInv => DataSpared
  BY NodeAssumption DEF NodeInv, NodeTypeInv, OneFaultSpares, DataSpared
<1> QED
  BY <1>1, NodeInvAlways, PTL

(* However many faults a behaviour may have: until the second of them      *)
(* RemoveAll reached into no volume.                                       *)
THEOREM OneFaultSparesAlways ==
    ASSUME ~Overlaps
    PROVE  NodeSpec => []OneFaultSpares
<1>1. NodeInv => OneFaultSpares
  BY DEF NodeInv
<1> QED
  BY <1>1, NodeInvAlways, PTL

(* The check of NodePublishVolume keeps a target from being mounted twice  *)
(* when the calls for it are made in turn; run node_remount shows that     *)
(* nothing does when they overlap.                                         *)
THEOREM NeverRemountedInTurn ==
    ASSUME ~Overlaps
    PROVE  NodeSpec => []NeverRemounted
<1>1. ASSUME NodeInv PROVE NeverRemounted
  <2> SUFFICES ASSUME NEW t \in Targets PROVE Len(mounts[t]) <= 1
    BY DEF NeverRemounted
  <2>1. mounts[t] = << >> \/ \E l \in Layers : mounts[t] = <<l>>
    BY <1>1 DEF NodeInv, TargetGood
  <2>2. CASE mounts[t] = << >>
    BY <2>2
  <2>3. ASSUME NEW l \in Layers, mounts[t] = <<l>> PROVE Len(mounts[t]) <= 1
    BY <2>3
  <2> QED
    BY <2>1, <2>2, <2>3
<1> QED
  BY <1>1, NodeInvAlways, PTL
=============================================================================
