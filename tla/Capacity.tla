------------------------------ MODULE Capacity ------------------------------
(***************************************************************************)
(* The capacity a request is given: fixCapacity (utils.go) and the limit   *)
(* both capacity-taking handlers of the controller apply to its result.    *)
(* Bytes are int64; a build of the model scales 2^63 to Half, and the      *)
(* units 1<<20, 1<<30 and 1<<40 to MiB, GiB and MaxStorage, with the same  *)
(* divisibility.                                                           *)
(***************************************************************************)
EXTENDS Integers

CONSTANTS MiB, GiB, MaxStorage, Half

ASSUME CapacityAssumption ==
    /\ MiB \in Nat \ {0} /\ GiB \in Nat /\ MaxStorage \in Nat /\ Half \in Nat
    /\ MiB <= GiB /\ GiB < MaxStorage /\ MaxStorage < Half
    /\ GiB % MiB = 0 /\ MaxStorage % MiB = 0 /\ Half % MiB = 0

Int64 == -Half .. Half - 1

(* Two's complement: the value an int64 holds after a computation gives x. *)
Wrap(x) == ((x + Half) % (2 * Half)) - Half

(* Mutant of RoundUp: the multiple below. *)
RoundDown(c) == Wrap((c \div MiB) * MiB)

(* Mutant of RoundUp: one unit too many. *)
RoundUpTwice(c) == Wrap(((c \div MiB) + 2) * MiB)

(* ((c >> 20) + 1) << 20 for a c that is not a multiple of MiB.             *)
RoundUp(c) == Wrap(((c \div MiB) + 1) * MiB)

AtLeastGiB(c) == IF c < GiB THEN GiB ELSE c

FixCapacity(c) ==
    LET d == AtLeastGiB(c) IN IF d % MiB # 0 THEN RoundUp(d) ELSE d

(* The capacities FixCapacity rounds without leaving int64.                *)
NoOverflow(c) == AtLeastGiB(c) <= Half - MiB

(* Mutant of WithinLimit: no check. *)
NoLimit(c) == TRUE

(* Mutant of WithinLimit: the limit compared with one unit to spare. *)
WithinLimitEarly(c) == FixCapacity(c) < MaxStorage - MiB

(* The capacity check of CreateVolume and ControllerExpandVolume.          *)
WithinLimit(c) == FixCapacity(c) < MaxStorage
=============================================================================
