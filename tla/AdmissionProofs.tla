--------------------------- MODULE AdmissionProofs ---------------------------
(***************************************************************************)
(* What CreateVolume grants and refuses, for every set of requests whose   *)
(* bytes fixCapacity rounds without leaving int64.                         *)
(***************************************************************************)
EXTENDS Admission, CapacityProofs

(* No request asks for bytes in the last MiB below 2^63 (NoOverflow).      *)
RoundedBytes == \A b \in Bytes : NoOverflow(b)

(* The volume was admitted: what the answered CreateVolume established and *)
(* no later call undoes.                                                   *)
VolumeOK ==
    /\ ~volume.exists => volume = NoVolume
    /\ volume.capacity % MiB = 0
    /\ volume.exists =>
          /\ volume.caps # {}
          /\ volume.block => AllSingle(volume.caps)

AdmissionInv ==
    /\ TypeOK
    /\ VolumeOK
    /\ GrantSuffices
    /\ RefusalJustified
    /\ AdmittedIsConfirmed

(* A capacity that is granted: what FixCapacityIsLeast and AdmittedCapacity *)
(* say of it, in the form the steps below use.                             *)
LEMMA Granted ==
    ASSUME NEW b \in Bytes, RoundedBytes, WithinLimit(b)
    PROVE  /\ FixCapacity(b) \in 0 .. MaxStorage - 1
           /\ FixCapacity(b) % MiB = 0
           /\ FixCapacity(b) >= AtLeastGiB(b)
<1>1. b \in Int /\ NoOverflow(b)
  BY AdmissionAssumption, CapacityAssumption DEF RoundedBytes, Int64
<1>2. FixCapacity(b) \in GiB .. MaxStorage - 1
  BY <1>1, AdmittedCapacity
<1>3. FixCapacity(b) % MiB = 0 /\ FixCapacity(b) >= AtLeastGiB(b)
  BY <1>1, FixCapacityIsLeast
<1> QED
  BY <1>2, <1>3, CapacityAssumption

(* The multiple of 1MiB below a granted capacity would not have held the   *)
(* bytes.                                                                  *)
LEMMA GrantedTight ==
    ASSUME NEW b \in Bytes, RoundedBytes
    PROVE  FixCapacity(b) - MiB < AtLeastGiB(b)
<1>1. b \in Int /\ NoOverflow(b) /\ MiB \in Nat \ {0}
  BY AdmissionAssumption, CapacityAssumption DEF RoundedBytes, Int64
<1>2. /\ FixCapacity(b) \in Int /\ FixCapacity(b) % MiB = 0
      /\ \A q \in Int : q * MiB >= AtLeastGiB(b) => q * MiB >= FixCapacity(b)
  BY <1>1, FixCapacityIsLeast
<1>3. AtLeastGiB(b) \in Int
  BY <1>1, CapacityAssumption DEF AtLeastGiB
<1> DEFINE f == FixCapacity(b)
<1> DEFINE q == f \div MiB
<1>4. q \in Int /\ f = MiB * q + (f % MiB)
  BY <1>1, <1>2, DivMod
<1> HIDE DEF q
<1>5. (q - 1) * MiB = f - MiB /\ q - 1 \in Int
  <2>1. (q - 1) * MiB = MiB * q - MiB
    BY <1>1, <1>4, SMT
  <2> QED
    BY <2>1, <1>1, <1>2, <1>4
<1>6. f - MiB >= AtLeastGiB(b) => f - MiB >= f
  BY <1>2, <1>5
<1> QED
  BY <1>1, <1>2, <1>3, <1>6

(* What WithinLimit refuses leaves no multiple of 1MiB between the bytes   *)
(* asked and the limit.                                                    *)
LEMMA RefusedIsLarge ==
    ASSUME NEW b \in Bytes, RoundedBytes, ~WithinLimit(b)
    PROVE  b > MaxStorage - MiB
<1>1. b \in Int /\ NoOverflow(b) /\ MiB \in Nat \ {0} /\ MaxStorage \in Nat /\ GiB \in Nat
  BY AdmissionAssumption, CapacityAssumption DEF RoundedBytes, Int64
<1>2. /\ FixCapacity(b) \in Int
      /\ \A q \in Int : q * MiB >= AtLeastGiB(b) => q * MiB >= FixCapacity(b)
  BY <1>1, FixCapacityIsLeast
<1> DEFINE q == MaxStorage \div MiB
           g == GiB \div MiB
<1>3. q \in Int /\ MaxStorage = MiB * q + (MaxStorage % MiB)
  BY <1>1, DivMod
<1>4. g \in Int /\ GiB = MiB * g + (GiB % MiB)
  BY <1>1, DivMod
<1> HIDE DEF q, g
<1>5. q * MiB = MaxStorage /\ g * MiB = GiB
  <2>1. q * MiB = MiB * q /\ g * MiB = MiB * g
    BY <1>1, <1>3, <1>4, SMT
  <2> QED
    BY <2>1, <1>1, <1>3, <1>4, CapacityAssumption
<1>6. GiB + MiB <= MaxStorage
  <2>1. g * MiB < q * MiB
    BY <1>5, CapacityAssumption
  <2>2. g * MiB + MiB <= q * MiB
    BY <2>1, <1>1, <1>3, <1>4, MultiplesApart
  <2> QED
    BY <2>2, <1>5
<1>7. (q - 1) * MiB = MaxStorage - MiB /\ q - 1 \in Int
  <2>1. (q - 1) * MiB = q * MiB - MiB
    BY <1>1, <1>3, SMT
  <2> QED
    BY <2>1, <1>3, <1>5
<1>8. SUFFICES ASSUME b <= MaxStorage - MiB PROVE FALSE
  BY <1>1
<1>9. MaxStorage - MiB >= AtLeastGiB(b)
  BY <1>1, <1>6, <1>8 DEF AtLeastGiB
<1>10. MaxStorage - MiB >= FixCapacity(b)
  BY <1>2, <1>7, <1>9
<1> QED
  BY <1>10, <1>1, <1>2 DEF WithinLimit

-----------------------------------------------------------------------------
(* The last conjuncts of AdmissionInv read the call, the verdict and the   *)
(* volume together, so each action is shown to establish all of them.      *)
LEMMA CreateStep ==
    ASSUME RoundedBytes, AdmissionInv, NEW q \in Requests, Create(q)
    PROVE  AdmissionInv'
<1>1. q.caps \in CapabilitySets /\ q.type \in Types /\ q.bytes \in Bytes /\ q.bytes \in Int
  <2>1. q.caps \in CapabilitySets /\ q.type \in Types /\ q.bytes \in Bytes
    BY DEF Requests
  <2>2. \A b \in Bytes : b \in Int
    BY AdmissionAssumption, CapacityAssumption DEF Int64
  <2> QED
    BY <2>1, <2>2
<1>2. Verdict(q) \in {"OK", "InvalidArgument", "OutOfRange"}
  BY DEF Verdict
<1>3. CASE Verdict(q) = "OK"
  <2>1. q.caps # {} /\ WithinLimit(q.bytes) /\ (IsBlock(q) => AllSingle(q.caps))
    BY <1>3 DEF Verdict
  <2>2. /\ FixCapacity(q.bytes) \in 0 .. MaxStorage - 1
        /\ FixCapacity(q.bytes) % MiB = 0
        /\ FixCapacity(q.bytes) >= AtLeastGiB(q.bytes)
    BY <1>1, <2>1, Granted
  <2>3. /\ volume' = [exists |-> TRUE, block |-> IsBlock(q), type |-> q.type,
                      caps |-> q.caps, capacity |-> FixCapacity(q.bytes)]
        /\ call' = [op |-> "create", caps |-> q.caps, bytes |-> q.bytes]
        /\ verdict' = "OK"
    BY <1>3 DEF Create
  <2>4. TypeOK'
    <3>1. IsBlock(q) \in BOOLEAN
      BY DEF IsBlock, HasAccess
    <3> QED
      BY <1>1, <2>2, <2>3, <3>1 DEF TypeOK
  <2>5. VolumeOK'
    BY <2>1, <2>2, <2>3 DEF VolumeOK, AllSingle
  <2>6. GrantSuffices' /\ RefusalJustified' /\ AdmittedIsConfirmed'
    BY <1>1, <2>2, <2>3, CapacityAssumption
       DEF GrantSuffices, RefusalJustified, AdmittedIsConfirmed, AtLeastGiB
  <2> QED
    BY <2>4, <2>5, <2>6 DEF AdmissionInv
<1>4. CASE Verdict(q) # "OK"
  <2>1. /\ volume' = NoVolume
        /\ call' = [op |-> "create", caps |-> q.caps, bytes |-> q.bytes]
        /\ verdict' = Verdict(q)
    BY <1>4 DEF Create
  <2>2. TypeOK'
    BY <1>1, <1>2, <2>1, CapacityAssumption DEF TypeOK, NoVolume, Types
  <2>3. VolumeOK'
    <3>1. 0 % MiB = 0
      BY CapacityAssumption, ModSmall
    <3> QED
      BY <2>1, <3>1 DEF VolumeOK, NoVolume
  <2>4. Verdict(q) = "OutOfRange" => ~WithinLimit(q.bytes)
    BY DEF Verdict
  <2>5. RefusalJustified'
    BY <1>1, <2>1, <2>4, RefusedIsLarge DEF RefusalJustified
  <2>6. GrantSuffices' /\ AdmittedIsConfirmed'
    BY <1>4, <2>1 DEF GrantSuffices, AdmittedIsConfirmed
  <2> QED
    BY <2>2, <2>3, <2>5, <2>6 DEF AdmissionInv
<1> QED
  BY <1>3, <1>4

(* ValidateVolumeCapabilities changes the answer, not the volume.          *)
LEMMA ValidateStep ==
    ASSUME AdmissionInv, NEW caps \in CapabilitySets, Validate(caps)
    PROVE  AdmissionInv'
<1>1. /\ volume.exists /\ volume' = volume
      /\ call' = [op |-> "validate", caps |-> caps, bytes |-> 0]
      /\ verdict' = IF Confirms(volume.block, caps) THEN "OK" ELSE "InvalidArgument"
  BY DEF Validate
<1>2. TypeOK' /\ VolumeOK'
  BY <1>1 DEF AdmissionInv, TypeOK, VolumeOK, NoVolume
<1>3. GrantSuffices' /\ RefusalJustified'
  BY <1>1 DEF GrantSuffices, RefusalJustified
<1>4. AdmittedIsConfirmed'
  <2>1. volume.caps # {} /\ (volume.block => AllSingle(volume.caps))
    BY <1>1 DEF AdmissionInv, VolumeOK
  <2> QED
    BY <1>1, <2>1 DEF AdmittedIsConfirmed, Confirms, AllSingle
<1> QED
  BY <1>2, <1>3, <1>4 DEF AdmissionInv

(* An expansion is granted like a creation.                                *)
LEMMA ExpandStep ==
    ASSUME RoundedBytes, AdmissionInv, NEW bytes \in Bytes, Expand(bytes)
    PROVE  AdmissionInv'
<1>1. /\ volume.exists /\ bytes \in Int
      /\ call' = [op |-> "expand", caps |-> volume.caps, bytes |-> bytes]
      /\ verdict' = IF WithinLimit(bytes) THEN "OK" ELSE "OutOfRange"
      /\ volume' = IF WithinLimit(bytes) /\ FixCapacity(bytes) > volume.capacity
                   THEN [volume EXCEPT !.capacity = FixCapacity(bytes)]
                   ELSE volume
  BY AdmissionAssumption DEF Expand, Int64
<1>2. /\ volume.capacity \in 0 .. MaxStorage - 1 /\ volume.capacity % MiB = 0
      /\ volume.caps \in CapabilitySets \cup {{}}
      /\ volume \in [exists: BOOLEAN, block: BOOLEAN, type: Types,
                     caps: CapabilitySets \cup {{}}, capacity: 0 .. MaxStorage - 1]
  BY DEF AdmissionInv, TypeOK, VolumeOK
<1>3. WithinLimit(bytes) => /\ FixCapacity(bytes) \in 0 .. MaxStorage - 1
                            /\ FixCapacity(bytes) % MiB = 0
                            /\ FixCapacity(bytes) >= AtLeastGiB(bytes)
  BY Granted
<1>4. /\ volume'.exists /\ volume'.block = volume.block /\ volume'.caps = volume.caps
      /\ volume'.capacity \in 0 .. MaxStorage - 1 /\ volume'.capacity % MiB = 0
      /\ WithinLimit(bytes) => volume'.capacity >= FixCapacity(bytes)
  BY <1>1, <1>2, <1>3, CapacityAssumption
<1>5. TypeOK'
  BY <1>1, <1>2, <1>3 DEF TypeOK
<1>6. VolumeOK'
  BY <1>1, <1>4 DEF AdmissionInv, VolumeOK, NoVolume
<1>7. GrantSuffices'
  <2>1. AtLeastGiB(bytes) \in Int
    BY <1>1, CapacityAssumption DEF AtLeastGiB
  <2>2. verdict' = "OK" => WithinLimit(bytes)
    BY <1>1
  <2>3. verdict' = "OK" => volume'.capacity >= AtLeastGiB(bytes)
    BY <2>1, <2>2, <1>3, <1>4, CapacityAssumption
  <2>4. volume'.capacity < MaxStorage
    BY <1>4, CapacityAssumption
  <2>5. call'.bytes = bytes
    BY <1>1
  <2> QED
    BY <2>3, <2>4, <2>5, <1>4 DEF GrantSuffices
<1>8. RefusalJustified'
  BY <1>1, RefusedIsLarge DEF RefusalJustified
<1>9. AdmittedIsConfirmed'
  BY <1>1 DEF AdmittedIsConfirmed
<1> QED
  BY <1>5, <1>6, <1>7, <1>8, <1>9 DEF AdmissionInv

(* The initial state and every step establish AdmissionInv.                *)
LEMMA AdmissionInductive ==
    ASSUME RoundedBytes
    PROVE  /\ Init => AdmissionInv
           /\ AdmissionInv /\ [Next]_vars => AdmissionInv'
<1>1. ASSUME Init PROVE AdmissionInv
  <2>1. 0 % MiB = 0
    BY CapacityAssumption, ModSmall
  <2> QED
    BY <1>1, <2>1, CapacityAssumption
       DEF Init, AdmissionInv, TypeOK, VolumeOK, GrantSuffices, RefusalJustified,
           AdmittedIsConfirmed, NoVolume, Types
<1>2. ASSUME AdmissionInv, [Next]_vars PROVE AdmissionInv'
  <2>1. CASE Next
    BY <1>2, <2>1, CreateStep, ValidateStep, ExpandStep DEF Next
  <2>2. CASE UNCHANGED vars
    BY <1>2, <2>2
       DEF vars, AdmissionInv, TypeOK, VolumeOK, GrantSuffices, RefusalJustified,
           AdmittedIsConfirmed
  <2> QED
    BY <1>2, <2>1, <2>2
<1> QED
  BY <1>1, <1>2

(* The invariant holds in every state.                                     *)
LEMMA AdmissionInvAlways ==
    ASSUME RoundedBytes
    PROVE  Spec => []AdmissionInv
<1>1. Init => AdmissionInv
  BY AdmissionInductive
<1>2. AdmissionInv /\ [Next]_vars => AdmissionInv'
  BY AdmissionInductive
<1> QED
  BY <1>1, <1>2, PTL DEF Spec

(* A capacity answered OK is enough, below the limit and a multiple of     *)
(* 1MiB, for all units and requests rounded within int64.                  *)
THEOREM GrantSufficesAlways ==
    ASSUME RoundedBytes
    PROVE  Spec => []GrantSuffices
<1>1. Spec => []AdmissionInv
  BY AdmissionInvAlways
<1>2. AdmissionInv => GrantSuffices
  BY DEF AdmissionInv
<1> QED
  BY <1>1, <1>2, PTL

(* OutOfRange is only answered to a request that no capacity below the     *)
(* limit would hold.                                                       *)
THEOREM RefusalJustifiedAlways ==
    ASSUME RoundedBytes
    PROVE  Spec => []RefusalJustified
<1>1. Spec => []AdmissionInv
  BY AdmissionInvAlways
<1>2. AdmissionInv => RefusalJustified
  BY DEF AdmissionInv
<1> QED
  BY <1>1, <1>2, PTL

(* The capabilities a volume was created with are confirmed for it, for    *)
(* any sets of capabilities.                                               *)
THEOREM AdmittedIsConfirmedAlways ==
    ASSUME RoundedBytes
    PROVE  Spec => []AdmittedIsConfirmed
<1>1. Spec => []AdmissionInv
  BY AdmissionInvAlways
<1>2. AdmissionInv => AdmittedIsConfirmed
  BY DEF AdmissionInv
<1> QED
  BY <1>1, <1>2, PTL

(* The volume and the last call keep their types, its capacity in          *)
(* 0 .. MaxStorage - 1.                                                    *)
THEOREM AdmissionTypeCorrect ==
    ASSUME RoundedBytes
    PROVE  Spec => []TypeOK
<1>1. Spec => []AdmissionInv
  BY AdmissionInvAlways
<1>2. AdmissionInv => TypeOK
  BY DEF AdmissionInv
<1> QED
  BY <1>1, <1>2, PTL

(* Whenever a call sets the capacity, one MiB less would not have held the *)
(* bytes it asked for.                                                     *)
THEOREM GrantIsLeastAlways ==
    ASSUME RoundedBytes
    PROVE  Spec => GrantIsLeast
<1> DEFINE Tight == volume'.capacity # volume.capacity =>
                        volume'.capacity - MiB < AtLeastGiB(call'.bytes)
<1>1. ASSUME AdmissionInv, [Next]_vars PROVE Tight
  <2>1. ASSUME NEW q \in Requests, Create(q) PROVE Tight
    <3>1. volume.capacity = 0
      BY <1>1, <2>1 DEF Create, AdmissionInv, VolumeOK, NoVolume
    <3>2. q.bytes \in Bytes
      BY DEF Requests
    <3> QED
      BY <2>1, <3>1, <3>2, GrantedTight DEF Create, NoVolume
  <2>2. ASSUME NEW caps \in CapabilitySets, Validate(caps) PROVE Tight
    BY <2>2 DEF Validate
  <2>3. ASSUME NEW bytes \in Bytes, Expand(bytes) PROVE Tight
    <3>1. volume \in [exists: BOOLEAN, block: BOOLEAN, type: Types,
                      caps: CapabilitySets \cup {{}}, capacity: 0 .. MaxStorage - 1]
      BY <1>1 DEF AdmissionInv, TypeOK
    <3> QED
      BY <2>3, <3>1, GrantedTight DEF Expand
  <2>4. CASE UNCHANGED vars
    BY <2>4 DEF vars
  <2> QED
    BY <1>1, <2>1, <2>2, <2>3, <2>4 DEF Next
<1>2. Spec => []AdmissionInv
  BY AdmissionInvAlways
<1>3. AdmissionInv /\ [Next]_vars => [Tight]_vars
  BY <1>1
<1> QED
  BY <1>2, <1>3, PTL DEF Spec, GrantIsLeast
=============================================================================
