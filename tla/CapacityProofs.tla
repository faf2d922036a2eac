--------------------------- MODULE CapacityProofs ---------------------------
(***************************************************************************)
(* What fixCapacity (utils.go) computes for every request it rounds        *)
(* without leaving int64.                                                  *)
(***************************************************************************)
EXTENDS Capacity, TLAPS

(* Go's / and % on a non-negative dividend.                                *)
LEMMA DivMod ==
    ASSUME NEW a \in Int, NEW b \in Nat \ {0}
    PROVE  /\ a \div b \in Int /\ a % b \in 0 .. b - 1
           /\ a = b * (a \div b) + (a % b)
BY SMT

(* A number below the modulus is its own remainder.                        *)
LEMMA ModSmall ==
    ASSUME NEW a \in Int, NEW b \in Nat \ {0}, 0 <= a, a < b
    PROVE  a % b = a
BY SMT

(* A multiple leaves no remainder.                                         *)
LEMMA ModMultiple ==
    ASSUME NEW q \in Int, NEW b \in Nat \ {0}
    PROVE  (q * b) % b = 0
BY SMT

(* Distinct multiples of b are at least b apart.                           *)
LEMMA MultiplesApart ==
    ASSUME NEW p \in Int, NEW q \in Int, NEW b \in Nat \ {0}, p * b < q * b
    PROVE  p * b + b <= q * b
<1>1. p < q
  BY SMT
<1>2. p + 1 <= q
  BY <1>1
<1>3. (p + 1) * b <= q * b
  BY <1>2, SMT
<1>4. (p + 1) * b = p * b + b
  BY SMT
<1> QED
  BY <1>3, <1>4

(* Wrapping leaves a number in range alone.                                *)
LEMMA WrapInRange ==
    ASSUME NEW x \in Int, -Half <= x, x < Half
    PROVE  Wrap(x) = x
<1>1. 2 * Half \in Nat \ {0} /\ x + Half \in Int /\ 0 <= x + Half /\ x + Half < 2 * Half
  BY CapacityAssumption
<1>2. (x + Half) % (2 * Half) = x + Half
  BY <1>1, ModSmall
<1> QED
  BY <1>2, CapacityAssumption DEF Wrap

(* fixCapacity gives the least multiple of 1MiB that holds both the bytes  *)
(* asked and 1GiB, for every request not within 1MiB of 2^63.              *)
THEOREM FixCapacityIsLeast ==
    ASSUME NEW c \in Int, NoOverflow(c)
    PROVE  /\ FixCapacity(c) \in Int
           /\ FixCapacity(c) % MiB = 0
           /\ FixCapacity(c) >= AtLeastGiB(c)
           /\ \A q \in Int : q * MiB >= AtLeastGiB(c) => q * MiB >= FixCapacity(c)
<1> DEFINE d == AtLeastGiB(c)
<1> DEFINE m == d \div MiB
<1>1. MiB \in Nat \ {0} /\ Half \in Nat /\ MiB <= Half /\ GiB \in Nat
  BY CapacityAssumption
<1>2. d \in Int /\ 0 <= d /\ d <= Half - MiB
  BY <1>1 DEF AtLeastGiB, NoOverflow
<1>3. m \in Int /\ d % MiB \in 0 .. MiB - 1 /\ d = MiB * m + (d % MiB)
  BY <1>1, <1>2, DivMod
<1> HIDE DEF d, m
<1>4. CASE d % MiB = 0
  <2>1. FixCapacity(c) = d
    BY <1>4 DEF FixCapacity, d
  <2> QED
    BY <2>1, <1>2, <1>4 DEF d
<1>5. CASE d % MiB # 0
  <2>1. FixCapacity(c) = Wrap((m + 1) * MiB)
    BY <1>5 DEF FixCapacity, RoundUp, d, m
  <2>2. m * MiB \in Int /\ MiB * m = m * MiB /\ (m + 1) * MiB = m * MiB + MiB
    BY <1>1, <1>3, SMT
  <2>3. m * MiB < d /\ d < m * MiB + MiB
    BY <1>1, <1>2, <1>3, <1>5, <2>2
  <2>4. m * MiB + MiB < Half
    BY <2>2, <2>3, <1>1, <1>2
  <2>5. Wrap((m + 1) * MiB) = m * MiB + MiB
    <3>1. (m + 1) * MiB \in Int /\ -Half <= (m + 1) * MiB /\ (m + 1) * MiB < Half
      BY <2>2, <2>3, <2>4, <1>1, <1>2
    <3> QED
      BY <3>1, <2>2, WrapInRange
  <2>6. (m + 1) * MiB % MiB = 0
    BY <1>1, <1>3, ModMultiple
  <2>7. ASSUME NEW q \in Int, q * MiB >= d PROVE q * MiB >= m * MiB + MiB
    <3>1. m * MiB < q * MiB
      BY <2>2, <2>3, <2>7, <1>1, <1>2
    <3> QED
      BY <3>1, <1>1, <1>3, MultiplesApart
  <2>8. FixCapacity(c) = m * MiB + MiB
    BY <2>1, <2>5
  <2>9. FixCapacity(c) \in Int /\ FixCapacity(c) >= d
    BY <2>8, <2>2, <2>3, <1>1, <1>2
  <2>10. FixCapacity(c) % MiB = 0
    BY <2>8, <2>2, <2>6
  <2>11. \A q \in Int : q * MiB >= d => q * MiB >= FixCapacity(c)
    BY <2>7, <2>8
  <2> QED
    BY <2>9, <2>10, <2>11 DEF d
<1> QED
  BY <1>4, <1>5

(* What the limit lets through is a capacity in 1GiB .. 1TiB - 1.          *)
THEOREM AdmittedCapacity ==
    ASSUME NEW c \in Int, NoOverflow(c), WithinLimit(c)
    PROVE  FixCapacity(c) \in GiB .. MaxStorage - 1
<1>1. FixCapacity(c) \in Int /\ FixCapacity(c) >= AtLeastGiB(c)
  BY FixCapacityIsLeast
<1>2. AtLeastGiB(c) >= GiB /\ AtLeastGiB(c) \in Int
  BY CapacityAssumption DEF AtLeastGiB
<1> QED
  BY <1>1, <1>2, CapacityAssumption DEF WithinLimit
=============================================================================
