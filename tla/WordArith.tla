----------------------------- MODULE WordArith -----------------------------
(***************************************************************************)
(* Facts about the remainder of integers by a positive divisor, used to    *)
(* reason about wrapping positions and slot indices.                       *)
(***************************************************************************)
EXTENDS Integers, TLAPS

(* Division with remainder.                                                *)
LEMMA DivMod ==
    ASSUME NEW d \in Nat \ {0}, NEW x \in Int
    PROVE  /\ x \div d \in Int
           /\ x % d \in 0..(d - 1)
           /\ x = d * (x \div d) + (x % d)
  BY SMT

(* Remainders are unique.                                                  *)
LEMMA ModUnique ==
    ASSUME NEW d \in Nat \ {0}, NEW x \in Int, NEW q \in Int, NEW r \in 0..(d - 1),
           x = d * q + r
    PROVE  x % d = r
  BY DivMod, SMT

(* Adding a multiple of the divisor does not change the remainder.         *)
LEMMA ModMultiple ==
    ASSUME NEW d \in Nat \ {0}, NEW x \in Int, NEW k \in Int
    PROVE  (x + d * k) % d = x % d
<1> DEFINE q == x \div d
           r == x % d
<1>1. q \in Int /\ r \in 0..(d - 1) /\ x = d * q + r
  BY DivMod
<1>2. q + k \in Int /\ x + d * k \in Int
  BY <1>1
<1> HIDE DEF q, r
<1>3. d * (q + k) = d * q + d * k
  BY <1>1, SMT
<1>4. x + d * k = d * (q + k) + r
  BY <1>1, <1>3, SMT
<1>5. (x + d * k) % d = r
  BY <1>1, <1>2, <1>4, ModUnique
<1> QED
  BY <1>5 DEF r

(* A number below the divisor is its own remainder.                        *)
LEMMA ModSmall ==
    ASSUME NEW d \in Nat \ {0}, NEW x \in 0..(d - 1)
    PROVE  x % d = x
  BY SMT

(* Remainders may be taken before or after an addition.                    *)
LEMMA ModPlus ==
    ASSUME NEW d \in Nat \ {0}, NEW x \in Int, NEW k \in Int
    PROVE  ((x % d) + k) % d = (x + k) % d
<1> DEFINE q == x \div d
           r == x % d
<1>1. q \in Int /\ r \in 0..(d - 1) /\ x = d * q + r
  BY DivMod
<1>2. r + k \in Int
  BY <1>1
<1> HIDE DEF q, r
<1>3. x + k = (r + k) + d * q
  BY <1>1, SMT
<1>4. ((r + k) + d * q) % d = (r + k) % d
  BY <1>1, <1>2, ModMultiple
<1> QED
  BY <1>3, <1>4 DEF r

(* Two different numbers less than the divisor apart differ in their       *)
(* remainders.                                                             *)
LEMMA ModDiffer ==
    ASSUME NEW d \in Nat \ {0}, NEW x \in Int, NEW y \in Int,
           x < y, y - x < d
    PROVE  x % d # y % d
<1> DEFINE q == x \div d
           r == x % d
<1>1. q \in Int /\ r \in 0..(d - 1) /\ x = d * q + r
  BY DivMod
<1> HIDE DEF q, r
<1>2. CASE r + (y - x) < d
  <2>1. y = d * q + (r + (y - x))
    BY <1>1, SMT
  <2>2. r + (y - x) \in 0..(d - 1)
    BY <1>1, <1>2, SMT
  <2>3. y % d = r + (y - x)
    BY <1>1, <2>1, <2>2, ModUnique
  <2> QED
    BY <1>1, <2>3 DEF r
<1>3. CASE r + (y - x) >= d
  <2>1. d * (q + 1) = d * q + d
    BY <1>1, SMT
  <2>2. y = d * (q + 1) + (r + (y - x) - d)
    BY <1>1, <2>1, SMT
  <2>3. r + (y - x) - d \in 0..(d - 1) /\ q + 1 \in Int
    BY <1>1, <1>3, SMT
  <2>4. y % d = r + (y - x) - d
    BY <2>2, <2>3, ModUnique
  <2> QED
    BY <1>1, <2>4 DEF r
<1> QED
  BY <1>1, <1>2, <1>3, SMT

(* When d divides m, reducing modulo m first does not change the remainder *)
(* modulo d.                                                               *)
LEMMA ModNested ==
    ASSUME NEW d \in Nat \ {0}, NEW m \in Nat \ {0}, m % d = 0, NEW x \in Int
    PROVE  (x % m) % d = x % d
<1> DEFINE q == x \div m
           r == x % m
           k == m \div d
<1>1. q \in Int /\ r \in 0..(m - 1) /\ x = m * q + r
  BY DivMod
<1>2. k \in Int /\ m = d * k
  <2>1. k \in Int /\ m = d * k + (m % d)
    BY DivMod
  <2>2. d * k \in Int
    BY <2>1
  <2> QED
    BY <2>1, <2>2
<1>3. r \in Int
  BY <1>1
<1> HIDE DEF q, r, k
<1>4. m * q = d * (k * q)
  <2>1. (d * k) * q = d * (k * q)
    BY <1>1, <1>2, SMT
  <2> QED
    BY <1>2, <2>1
<1>5. k * q \in Int
  BY <1>1, <1>2
<1>6. x = r + d * (k * q)
  BY <1>1, <1>4, <1>3, <1>5, SMT
<1>7. (r + d * (k * q)) % d = r % d
  BY <1>3, <1>5, ModMultiple
<1> QED
  BY <1>6, <1>7 DEF r
=============================================================================
