-------------------------- MODULE WadRayMathProofs --------------------------
(***************************************************************************)
(* Facts about the fixed-point arithmetic: the results are natural         *)
(* numbers, interest factors never fall below one ray and grow with time,  *)
(* a factor of at least one ray never shrinks what it multiplies, one of   *)
(* at most one ray never adds to it, and scaling down by the index that    *)
(* scaled up gives back the same number of units.                          *)
(***************************************************************************)
EXTENDS WadRayMath, TLAPS

\* The quotient of two natural numbers.
LEMMA DivNat ==
    ASSUME NEW a \in Nat, NEW b \in Nat, b > 0
    PROVE  /\ a \div b \in Nat
           /\ b * (a \div b) <= a
           /\ a < b * (a \div b) + b
  OBVIOUS

\* A lower bound of the dividend is one of the quotient.
LEMMA DivLower ==
    ASSUME NEW a \in Nat, NEW b \in Nat, b > 0, NEW k \in Nat, k * b <= a
    PROVE  k <= a \div b
<1> DEFINE q == a \div b
<1>1. q \in Nat /\ a < b * q + b
  BY DivNat
<1> HIDE DEF q
<1>2. ASSUME q < k PROVE FALSE
  <2>1. q + 1 <= k
    BY <1>1, <1>2
  <2>2. (q + 1) * b <= k * b
    BY <1>1, <2>1
  <2>3. (q + 1) * b = b * q + b
    BY <1>1
  <2> QED
    BY <1>1, <2>2, <2>3
<1>3. k <= q
  BY <1>1, <1>2
<1> QED
  BY <1>3 DEF q

\* An upper bound of the dividend is one of the quotient.
LEMMA DivUpper ==
    ASSUME NEW a \in Nat, NEW b \in Nat, b > 0, NEW k \in Nat, a < (k + 1) * b
    PROVE  a \div b <= k
<1> DEFINE q == a \div b
<1>1. q \in Nat /\ b * q <= a
  BY DivNat
<1> HIDE DEF q
<1>2. ASSUME k < q PROVE FALSE
  <2>1. k + 1 <= q
    BY <1>1, <1>2
  <2>2. (k + 1) * b <= q * b
    BY <1>1, <2>1
  <2>3. q * b = b * q
    BY <1>1
  <2> QED
    BY <1>1, <2>2, <2>3
<1>3. q <= k
  BY <1>1, <1>2
<1> QED
  BY <1>3 DEF q

-----------------------------------------------------------------------------
(* Results are natural numbers                                             *)

\* A ray is at least a wad.
LEMMA WadRayRatio == WAD_RAY_RATIO \in Nat /\ WAD_RAY_RATIO > 0
<1>1. 1 <= RAY \div WAD
  BY DivLower, RayAssumption, WadAssumption
<1>2. RAY \div WAD \in Nat
  BY DivNat, RayAssumption, WadAssumption
<1> QED
  BY <1>1, <1>2 DEF WAD_RAY_RATIO

\* Half a ray, added before a division by RAY to round half up.
LEMMA HalfRay == RAY \div 2 \in Nat /\ RAY \div 2 < RAY
  BY RayAssumption

\* Products of natural numbers.
LEMMA ProductNat ==
    ASSUME NEW a \in Nat, NEW b \in Nat
    PROVE  a * b \in Nat
  OBVIOUS

\* rayMul() of natural numbers.
LEMMA RayMulNat ==
    ASSUME NEW a \in Nat, NEW b \in Nat
    PROVE  rayMul(a, b) \in Nat
<1>1. a * b + RAY \div 2 \in Nat
  BY ProductNat, HalfRay
<1> QED
  BY <1>1, DivNat, RayAssumption DEF rayMul

\* rayDiv() of natural numbers, by a divisor other than zero.
LEMMA RayDivNat ==
    ASSUME NEW a \in Nat, NEW b \in Nat, b > 0
    PROVE  rayDiv(a, b) \in Nat
<1>1. a * RAY \in Nat
  BY ProductNat, RayAssumption
<1>2. b \div 2 \in Nat
  OBVIOUS
<1>3. a * RAY + b \div 2 \in Nat
  BY <1>1, <1>2
<1> QED
  BY <1>3, DivNat DEF rayDiv

\* percentMul() of natural numbers.
LEMMA PercentMulNat ==
    ASSUME NEW a \in Nat, NEW b \in Nat
    PROVE  percentMul(a, b) \in Nat
<1>1. a * b \in Nat
  BY ProductNat
<1> QED
  BY <1>1 DEF percentMul, PERCENTAGE_FACTOR

\* percentDiv() of natural numbers, by a percentage other than zero.
LEMMA PercentDivNat ==
    ASSUME NEW a \in Nat, NEW b \in Nat, b > 0
    PROVE  percentDiv(a, b) \in Nat
<1>1. a * PERCENTAGE_FACTOR + b \div 2 \in Nat
  BY DEF PERCENTAGE_FACTOR
<1> QED
  BY <1>1, DivNat DEF percentDiv

\* wadToRay() of an amount other than zero is not zero.
LEMMA WadToRayNat ==
    ASSUME NEW a \in Nat
    PROVE  /\ wadToRay(a) \in Nat
           /\ a > 0 => wadToRay(a) > 0
<1>1. a * WAD_RAY_RATIO \in Nat
  BY ProductNat, WadRayRatio
<1>2. ASSUME a > 0 PROVE a * WAD_RAY_RATIO > 0
  BY <1>2, WadRayRatio
<1> QED
  BY <1>1, <1>2 DEF wadToRay

-----------------------------------------------------------------------------
(* Interest factors                                                        *)

\* Linear interest is at least the principal.
LEMMA LinearInterest ==
    ASSUME NEW rate \in Nat, NEW from \in Nat, NEW to \in Nat, from <= to
    PROVE  /\ calculateLinearInterest(rate, from, to) \in Nat
           /\ RAY <= calculateLinearInterest(rate, from, to)
<1>1. to - from \in Nat
  OBVIOUS
<1>2. rate * (to - from) \in Nat
  BY <1>1, ProductNat
<1>3. (rate * (to - from)) \div SECONDS_PER_YEAR \in Nat
  BY <1>2, DivNat, YearAssumption
<1> QED
  BY <1>3, RayAssumption DEF calculateLinearInterest

\* So is compounded interest.
LEMMA CompoundedInterest ==
    ASSUME NEW rate \in Nat, NEW from \in Nat, NEW to \in Nat, from <= to
    PROVE  /\ calculateCompoundedInterest(rate, from, to) \in Nat
           /\ RAY <= calculateCompoundedInterest(rate, from, to)
<1> DEFINE exp     == to - from
           perSec  == rate \div SECONDS_PER_YEAR
           two     == rayMul(perSec, perSec)
           three   == rayMul(two, perSec)
           minus2  == IF exp > 2 THEN exp - 2 ELSE 0
           second  == (exp * (exp - 1) * two) \div 2
           third   == (exp * (exp - 1) * minus2 * three) \div 6
<1>1. CASE exp = 0
  BY <1>1, RayAssumption DEF calculateCompoundedInterest
<1>2. CASE exp # 0
  <2>1. exp \in Nat /\ exp - 1 \in Nat /\ minus2 \in Nat
    BY <1>2
  <2>2. perSec \in Nat
    BY DivNat, YearAssumption
  <2>3. two \in Nat /\ three \in Nat
    BY <2>2, RayMulNat
  <2> HIDE DEF exp, perSec, two, three, minus2
  <2>4. exp * (exp - 1) \in Nat
    BY <2>1, ProductNat
  <2>5. exp * (exp - 1) * two \in Nat
    BY <2>3, <2>4, ProductNat
  <2>6. exp * (exp - 1) * minus2 \in Nat
    BY <2>1, <2>4, ProductNat
  <2>7. exp * (exp - 1) * minus2 * three \in Nat
    BY <2>3, <2>6, ProductNat
  <2>8. second \in Nat /\ third \in Nat
    BY <2>5, <2>7, DivNat
  <2>9. perSec * exp \in Nat
    BY <2>1, <2>2, ProductNat
  <2> HIDE DEF second, third
  <2>10. /\ RAY + perSec * exp + second + third \in Nat
         /\ RAY <= RAY + perSec * exp + second + third
    BY <2>8, <2>9, RayAssumption
  <2>11. calculateCompoundedInterest(rate, from, to) = RAY + perSec * exp + second + third
    BY <1>2 DEF calculateCompoundedInterest, exp, perSec, two, three, minus2, second, third
  <2> QED
    BY <2>10, <2>11
<1> QED
  BY <1>1, <1>2

-----------------------------------------------------------------------------
(* Rounding                                                                *)

\* A factor of at least one ray does not shrink what it multiplies.
LEMMA RayMulGrows ==
    ASSUME NEW a \in Nat, NEW f \in Nat, RAY <= f
    PROVE  a <= rayMul(a, f) /\ a <= rayMul(f, a)
<1>1. a * RAY <= a * f
  BY RayAssumption
<1>2. a * f \in Nat /\ f * a = a * f
  BY ProductNat
<1>3. a * RAY \in Nat
  BY ProductNat, RayAssumption
<1>4. a * RAY <= a * f + RAY \div 2 /\ a * f + RAY \div 2 \in Nat
  BY <1>1, <1>2, <1>3, HalfRay
<1>5. a <= (a * f + RAY \div 2) \div RAY
  BY <1>4, DivLower, RayAssumption
<1> QED
  BY <1>2, <1>5 DEF rayMul

\* Scaling down what was scaled up by at least as much loses nothing: the
\* rounding of rayDiv makes up for the one of rayMul.
LEMMA RayDivOfRayMul ==
    ASSUME NEW a \in Nat, NEW up \in Nat, NEW down \in Nat,
           RAY <= down, down <= up
    PROVE  a <= rayDiv(rayMul(a, up), down)
<1> DEFINE x == rayMul(a, up)
<1>1. x \in Nat
  BY RayMulNat
<1>2. a * up \in Nat /\ a * down \in Nat /\ a * down <= a * up
  BY ProductNat
<1>3. a * up + RAY \div 2 < RAY * x + RAY
  <2>1. a * up + RAY \div 2 \in Nat
    BY <1>2, HalfRay
  <2> QED
    BY <2>1, DivNat, RayAssumption DEF rayMul
<1> HIDE DEF x
<1>4. RAY * x = x * RAY /\ x * RAY \in Nat
  BY <1>1, RayAssumption, ProductNat
<1>5. RAY \div 2 <= down \div 2 /\ down \div 2 \in Nat
  BY RayAssumption
<1>6. a * down <= x * RAY + down \div 2
  BY <1>2, <1>3, <1>4, <1>5, RayAssumption
<1>7. x * RAY + down \div 2 \in Nat
  BY <1>4, <1>5
<1>8. a <= (x * RAY + down \div 2) \div down
  BY <1>6, <1>7, DivLower, RayAssumption
<1> QED
  BY <1>8 DEF rayDiv, x

\* rayMul() is monotone in both factors.
LEMMA RayMulMonotone ==
    ASSUME NEW a \in Nat, NEW b \in Nat, NEW c \in Nat, NEW d \in Nat, a <= c, b <= d
    PROVE  rayMul(a, b) <= rayMul(c, d)
<1> DEFINE q == rayMul(a, b)
<1>1. a * b \in Nat /\ c * b \in Nat /\ c * d \in Nat /\ a * b <= c * b /\ c * b <= c * d
  BY ProductNat
<1>2. q \in Nat /\ RAY * q <= a * b + RAY \div 2
  <2>1. a * b + RAY \div 2 \in Nat
    BY <1>1, HalfRay
  <2> QED
    BY <2>1, DivNat, RayAssumption DEF rayMul
<1>3. q = rayMul(a, b)
  OBVIOUS
<1> HIDE DEF q
<1>4. q * RAY <= c * d + RAY \div 2 /\ c * d + RAY \div 2 \in Nat
  <2>1. RAY * q = q * RAY /\ q * RAY \in Nat
    BY <1>2, RayAssumption, ProductNat
  <2> QED
    BY <1>1, <1>2, <2>1, HalfRay
<1>5. q <= (c * d + RAY \div 2) \div RAY
  BY <1>2, <1>4, DivLower, RayAssumption
<1> QED
  BY <1>3, <1>5 DEF rayMul

\* The linear interest grows with the time it runs.
LEMMA LinearMonotone ==
    ASSUME NEW rate \in Nat, NEW from \in Nat, NEW to \in Nat, NEW later \in Nat,
           from <= to, to <= later
    PROVE  calculateLinearInterest(rate, from, to)
             <= calculateLinearInterest(rate, from, later)
<1> DEFINE x == rate * (to - from)
           y == rate * (later - from)
           q == x \div SECONDS_PER_YEAR
<1>1. x \in Nat /\ y \in Nat /\ x <= y
  <2>1. to - from \in Nat /\ later - from \in Nat /\ to - from <= later - from
    OBVIOUS
  <2> DEFINE e == to - from
             f == later - from
  <2> HIDE DEF e, f
  <2>2. e \in Nat /\ f \in Nat /\ e <= f
    BY <2>1 DEF e, f
  <2>3. rate * e \in Nat /\ rate * f \in Nat /\ rate * e <= rate * f
    BY <2>2, ProductNat
  <2> QED
    BY <2>3 DEF e, f
<1> HIDE DEF x, y
<1>2. q \in Nat /\ SECONDS_PER_YEAR * q <= x
  BY <1>1, DivNat, YearAssumption
<1> HIDE DEF q
<1>3. q * SECONDS_PER_YEAR <= y
  <2>1. SECONDS_PER_YEAR * q = q * SECONDS_PER_YEAR /\ q * SECONDS_PER_YEAR \in Nat
    BY <1>2, YearAssumption, ProductNat
  <2> QED
    BY <1>1, <1>2, <2>1
<1>4. q <= y \div SECONDS_PER_YEAR
  BY <1>1, <1>2, <1>3, DivLower, YearAssumption
<1>5. y \div SECONDS_PER_YEAR \in Nat
  BY <1>1, DivNat, YearAssumption
<1> QED
  BY <1>2, <1>4, <1>5, RayAssumption DEF calculateLinearInterest, q, x, y

\* Multiplying by one ray changes nothing.
LEMMA RayMulOne ==
    ASSUME NEW i \in Nat
    PROVE  rayMul(RAY, i) = i
<1> DEFINE k == RAY * i + RAY \div 2
<1>1. RAY * i \in Nat /\ i * RAY = RAY * i /\ (i + 1) * RAY = RAY * i + RAY
  BY RayAssumption, ProductNat
<1>2. k \in Nat /\ i * RAY <= k /\ k < (i + 1) * RAY
  BY <1>1, HalfRay, RayAssumption
<1> HIDE DEF k
<1>3. i <= k \div RAY /\ k \div RAY <= i /\ k \div RAY \in Nat
  BY <1>2, DivNat, DivLower, DivUpper, RayAssumption
<1> QED
  BY <1>3 DEF rayMul, k

\* Nothing stored is nothing shown, whatever the index.
LEMMA RayMulZero ==
    ASSUME NEW b \in Nat
    PROVE  rayMul(0, b) = 0
<1>1. RAY \div 2 \in Nat /\ RAY \div 2 < RAY
  BY RayAssumption
<1>2. 0 * b = 0
  OBVIOUS
<1>3. (0 + RAY \div 2) \div RAY = 0
  BY <1>1, RayAssumption
<1> QED
  BY <1>2, <1>3 DEF rayMul

\* Products grow with their factors.
LEMMA ProductMonotone ==
    ASSUME NEW a \in Nat, NEW b \in Nat, NEW c \in Nat, NEW d \in Nat, a <= c, b <= d
    PROVE  a * b \in Nat /\ c * d \in Nat /\ a * b <= c * d
<1>1. a * b \in Nat /\ c * b \in Nat /\ c * d \in Nat
  BY ProductNat
<1>2. a * b <= c * b /\ c * b <= c * d
  OBVIOUS
<1> QED
  BY <1>1, <1>2

\* Quotients grow with the dividend.
LEMMA DivMonotone ==
    ASSUME NEW a \in Nat, NEW c \in Nat, a <= c, NEW b \in Nat, b > 0
    PROVE  a \div b \in Nat /\ c \div b \in Nat /\ a \div b <= c \div b
<1> DEFINE q == a \div b
<1>1. q \in Nat /\ b * q <= a /\ c \div b \in Nat
  BY DivNat
<1>2. q = a \div b
  OBVIOUS
<1> HIDE DEF q
<1>3. q * b <= c
  BY <1>1
<1>4. q <= c \div b
  BY <1>1, <1>3, DivLower
<1> QED
  BY <1>1, <1>2, <1>4

\* So does the compounded interest, and it is all there is to the debt shown.
LEMMA CompoundedMonotone ==
    ASSUME NEW rate \in Nat, NEW from \in Nat, NEW to \in Nat, NEW later \in Nat,
           from <= to, to <= later
    PROVE  calculateCompoundedInterest(rate, from, to)
             <= calculateCompoundedInterest(rate, from, later)
<1> DEFINE p       == rate \div SECONDS_PER_YEAR
           two     == rayMul(p, p)
           three   == rayMul(two, p)
           e       == to - from
           g       == later - from
           minus(x) == IF x > 2 THEN x - 2 ELSE 0
           first(x)  == p * x
           second(x) == (x * (x - 1) * two) \div 2
           third(x)  == (x * (x - 1) * minus(x) * three) \div 6
<1>1. CASE e = 0
  <2>1. from <= later
    OBVIOUS
  <2>2. calculateCompoundedInterest(rate, from, to) = RAY
    BY <1>1 DEF calculateCompoundedInterest
  <2>3. RAY <= calculateCompoundedInterest(rate, from, later)
    BY <2>1, CompoundedInterest
  <2> QED
    BY <2>2, <2>3
<1>2. CASE e # 0
  <2>1. e \in Nat /\ g \in Nat /\ e <= g /\ e > 0 /\ g # 0
    BY <1>2
  <2>2. /\ calculateCompoundedInterest(rate, from, to)
             = RAY + first(e) + second(e) + third(e)
        /\ calculateCompoundedInterest(rate, from, later)
             = RAY + first(g) + second(g) + third(g)
    BY <1>2, <2>1 DEF calculateCompoundedInterest
  <2>3. p \in Nat
    BY DivNat, YearAssumption
  <2>4. two \in Nat /\ three \in Nat
    BY <2>3, RayMulNat
  <2> HIDE DEF p, two, three, e, g
  <2>5. first(e) \in Nat /\ first(g) \in Nat /\ first(e) <= first(g)
    BY <2>1, <2>3, ProductMonotone
  <2>6. /\ e - 1 \in Nat /\ g - 1 \in Nat /\ e - 1 <= g - 1
        /\ minus(e) \in Nat /\ minus(g) \in Nat /\ minus(e) <= minus(g)
    BY <2>1
  <2> HIDE DEF first, minus
  <2>7. /\ e * (e - 1) \in Nat /\ g * (g - 1) \in Nat
        /\ e * (e - 1) <= g * (g - 1)
    BY <2>1, <2>6, ProductMonotone
  <2>8. second(e) \in Nat /\ second(g) \in Nat /\ second(e) <= second(g)
    <3>1. /\ e * (e - 1) * two \in Nat /\ g * (g - 1) * two \in Nat
          /\ e * (e - 1) * two <= g * (g - 1) * two
      BY <2>4, <2>7, ProductMonotone
    <3> QED
      BY <3>1, DivMonotone
  <2>9. third(e) \in Nat /\ third(g) \in Nat /\ third(e) <= third(g)
    <3>1. /\ e * (e - 1) * minus(e) \in Nat /\ g * (g - 1) * minus(g) \in Nat
          /\ e * (e - 1) * minus(e) <= g * (g - 1) * minus(g)
      BY <2>6, <2>7, ProductMonotone
    <3>2. /\ e * (e - 1) * minus(e) * three \in Nat
          /\ g * (g - 1) * minus(g) * three \in Nat
          /\ e * (e - 1) * minus(e) * three <= g * (g - 1) * minus(g) * three
      BY <2>4, <3>1, ProductMonotone
    <3> QED
      BY <3>2, DivMonotone
  <2> HIDE DEF second, third
  <2> QED
    BY <2>2, <2>5, <2>8, <2>9, RayAssumption
<1> QED
  BY <1>1, <1>2

\* Scaling down by the index that a balance was scaled up with gives back the
\* scaled balance, to the unit: what the rounding of rayMul adds or drops is less
\* than half a unit of an index of at least one ray.
LEMMA RayDivUndoes ==
    ASSUME NEW a \in Nat, NEW i \in Nat, RAY <= i
    PROVE  rayDiv(rayMul(a, i), i) = a
<1> DEFINE x == rayMul(a, i)
<1>1. x \in Nat /\ i > 0
  BY RayMulNat, RayAssumption
<1>2. a <= rayDiv(x, i)
  BY RayDivOfRayMul
<1>3. CASE i = RAY
  <2>1. a * RAY = RAY * a /\ rayMul(RAY, a) = a
    BY RayMulOne, RayAssumption
  <2>2. x = a
    BY <1>3, <2>1 DEF rayMul
  <2>3. a * RAY \in Nat /\ (a + 1) * RAY = a * RAY + RAY
    BY RayAssumption, ProductNat
  <2>4. a * RAY + RAY \div 2 \in Nat /\ a * RAY + RAY \div 2 < (a + 1) * RAY
    BY <2>3, HalfRay, RayAssumption
  <2>5. rayDiv(a, RAY) <= a
    BY <2>4, DivUpper, RayAssumption DEF rayDiv
  <2>6. rayDiv(a, RAY) \in Nat
    BY RayDivNat, RayAssumption
  <2>7. rayDiv(x, i) = rayDiv(a, RAY)
    BY <1>3, <2>2
  <2> HIDE DEF x
  <2>8. rayDiv(x, i) = a
    BY <1>2, <2>5, <2>6, <2>7
  <2> QED
    BY <2>8 DEF x
<1>4. CASE RAY < i
  <2>1. a * i \in Nat
    BY ProductNat
  <2>2. RAY * x <= a * i + RAY \div 2
    <3>1. a * i + RAY \div 2 \in Nat
      BY <2>1, HalfRay
    <3> QED
      BY <3>1, DivNat, RayAssumption DEF rayMul
  <2> HIDE DEF x
  <2>3. x * RAY = RAY * x /\ x * RAY \in Nat
    BY <1>1, RayAssumption, ProductNat
  <2>4. i \div 2 \in Nat /\ 2 * (i \div 2) <= i
    OBVIOUS
  <2>5. RAY \div 2 + i \div 2 < i
    BY <1>4, <2>4, HalfRay, RayAssumption
  <2>6. x * RAY + i \div 2 < a * i + i /\ x * RAY + i \div 2 \in Nat
    BY <2>1, <2>2, <2>3, <2>4, <2>5, HalfRay
  <2>7. (a + 1) * i = a * i + i
    OBVIOUS
  <2>8. rayDiv(x, i) <= a
    BY <1>1, <2>6, <2>7, DivUpper DEF rayDiv
  <2>9. rayDiv(x, i) \in Nat
    BY <1>1, RayDivNat
  <2>10. rayDiv(x, i) = a
    BY <1>2, <2>8, <2>9
  <2> QED
    BY <2>10 DEF x
<1> QED
  BY <1>3, <1>4, RayAssumption

\* A part of a whole is at most one ray of it.
LEMMA RayDivAtMostOne ==
    ASSUME NEW a \in Nat, NEW b \in Nat, b > 0, a <= b
    PROVE  rayDiv(a, b) \in 0..RAY
<1> DEFINE n == a * RAY + b \div 2
<1>1. a * RAY \in Nat /\ b * RAY \in Nat /\ a * RAY <= b * RAY
  BY RayAssumption, ProductMonotone
<1>2. b \div 2 \in Nat /\ b \div 2 < b
  OBVIOUS
<1>3. (RAY + 1) * b = b * RAY + b
  BY RayAssumption
<1>4. n \in Nat /\ n < (RAY + 1) * b
  BY <1>1, <1>2, <1>3
<1>5. n \div b <= RAY
  BY <1>4, DivUpper, RayAssumption
<1>6. rayDiv(a, b) <= RAY
  BY <1>5 DEF rayDiv
<1>7. rayDiv(a, b) \in Nat
  BY RayDivNat
<1> QED
  BY <1>6, <1>7, RayAssumption

\* A factor of at most one ray never adds to what it multiplies.
LEMMA RayMulShrinks ==
    ASSUME NEW a \in Nat, NEW f \in Nat, f <= RAY
    PROVE  rayMul(a, f) <= a /\ rayMul(f, a) <= a
<1> DEFINE n == a * f + RAY \div 2
<1>1. a * f \in Nat /\ a * RAY \in Nat /\ a * f <= a * RAY /\ f * a = a * f
  BY RayAssumption, ProductMonotone
<1>2. (a + 1) * RAY = a * RAY + RAY
  BY RayAssumption
<1>3. n \in Nat /\ n < (a + 1) * RAY
  BY <1>1, <1>2, HalfRay, RayAssumption
<1>4. n \div RAY <= a
  BY <1>3, DivUpper, RayAssumption
<1> QED
  BY <1>1, <1>4 DEF rayMul

\* A percentage of at most 100% is no more than the whole.
LEMMA PercentMulShrinks ==
    ASSUME NEW a \in Nat, NEW p \in Nat, p <= PERCENTAGE_FACTOR
    PROVE  percentMul(a, p) <= a
<1> DEFINE n == a * p + PERCENTAGE_FACTOR \div 2
<1>1. PERCENTAGE_FACTOR \in Nat /\ PERCENTAGE_FACTOR > 0
      /\ PERCENTAGE_FACTOR \div 2 \in Nat /\ PERCENTAGE_FACTOR \div 2 < PERCENTAGE_FACTOR
  BY DEF PERCENTAGE_FACTOR
<1> HIDE DEF PERCENTAGE_FACTOR
<1>2. a * p \in Nat /\ a * PERCENTAGE_FACTOR \in Nat /\ a * p <= a * PERCENTAGE_FACTOR
  BY <1>1, ProductMonotone
<1>3. (a + 1) * PERCENTAGE_FACTOR = a * PERCENTAGE_FACTOR + PERCENTAGE_FACTOR
  BY <1>1
<1>4. n \in Nat /\ n < (a + 1) * PERCENTAGE_FACTOR
  BY <1>1, <1>2, <1>3
<1>5. n \div PERCENTAGE_FACTOR <= a
  BY <1>1, <1>4, DivUpper
<1> QED
  BY <1>5 DEF percentMul

\* What rayMul rounds up is at most half a unit.
LEMMA RayMulUpper ==
    ASSUME NEW a \in Nat, NEW b \in Nat, NEW c \in Nat, b <= c
    PROVE  rayMul(a, b) * RAY <= a * c + RAY \div 2 /\ a * c \in Nat
<1>1. a * b \in Nat /\ a * c \in Nat /\ a * b <= a * c
  BY ProductMonotone
<1>2. a * b + RAY \div 2 \in Nat
  BY <1>1, HalfRay
<1>3. RAY * rayMul(a, b) <= a * b + RAY \div 2 /\ rayMul(a, b) \in Nat
  BY <1>2, DivNat, RayMulNat, RayAssumption DEF rayMul
<1>4. rayMul(a, b) * RAY = RAY * rayMul(a, b) /\ rayMul(a, b) * RAY \in Nat
  BY <1>3, RayAssumption, ProductNat
<1> QED
  BY <1>1, <1>3, <1>4, HalfRay

\* A ray is one on the right, too, and dividing by it changes nothing.
LEMMA RayIsOne ==
    ASSUME NEW x \in Nat
    PROVE  rayMul(x, RAY) = x /\ rayDiv(x, RAY) = x
<1>1. RAY \in Nat /\ RAY > 0
  BY RayAssumption
<1>2. rayMul(RAY, x) = x
  BY RayMulOne
<1>3. rayMul(x, RAY) = rayMul(RAY, x)
  <2>1. x * RAY = RAY * x
    BY <1>1
  <2> QED
    BY <2>1 DEF rayMul
<1>4. rayDiv(x, RAY) = rayMul(x, RAY)
  BY DEF rayDiv, rayMul
<1> QED
  BY <1>2, <1>3, <1>4

\* No share of nothing.
LEMMA PercentMulZero ==
    ASSUME NEW p \in Nat
    PROVE  percentMul(0, p) = 0
<1>1. 0 * p = 0
  OBVIOUS
<1> QED
  BY <1>1 DEF percentMul, PERCENTAGE_FACTOR

\* A rate of zero adds nothing.
LEMMA CompoundedOfZero ==
    ASSUME NEW from \in Nat, NEW to \in Nat, from <= to
    PROVE  calculateCompoundedInterest(0, from, to) = RAY
<1>1. 0 \div SECONDS_PER_YEAR = 0
  BY YearAssumption
<1>2. rayMul(0, 0) = 0
  BY RayMulZero
<1> DEFINE exp    == to - from
           minus2 == IF exp > 2 THEN exp - 2 ELSE 0
<1>3. exp \in Nat /\ minus2 \in Nat /\ exp - 1 \in Int
  OBVIOUS
<1>4. calculateCompoundedInterest(0, from, to) =
        IF exp = 0 THEN RAY
        ELSE RAY + 0 * exp + (exp * (exp - 1) * 0) \div 2
                 + (exp * (exp - 1) * minus2 * 0) \div 6
  BY <1>1, <1>2 DEF calculateCompoundedInterest
<1> HIDE DEF exp, minus2
<1>5. exp * (exp - 1) \in Int /\ exp * (exp - 1) * minus2 \in Int
  BY <1>3
<1>6. \A x \in Int : x * 0 = 0
  OBVIOUS
<1>7. 0 * exp = 0 /\ exp * (exp - 1) * 0 = 0 /\ exp * (exp - 1) * minus2 * 0 = 0
  BY <1>3, <1>5, <1>6
<1> QED
  BY <1>4, <1>7, RayAssumption

\* rayDiv() of more is not less.
LEMMA RayDivMonotone ==
    ASSUME NEW a \in Nat, NEW c \in Nat, a <= c, NEW b \in Nat, b > 0
    PROVE  rayDiv(a, b) \in Nat /\ rayDiv(a, b) <= rayDiv(c, b)
<1>1. /\ a * RAY \in Nat /\ c * RAY \in Nat /\ a * RAY <= c * RAY
  BY ProductMonotone, RayAssumption
<1>2. b \div 2 \in Nat
  OBVIOUS
<1> DEFINE x == a * RAY
           y == c * RAY
<1> HIDE DEF x, y
<1>3. x + b \div 2 \in Nat /\ y + b \div 2 \in Nat /\ x + b \div 2 <= y + b \div 2
  BY <1>1, <1>2 DEF x, y
<1>4. /\ (x + b \div 2) \div b \in Nat
      /\ (x + b \div 2) \div b <= (y + b \div 2) \div b
  BY <1>3, DivMonotone
<1> QED
  BY <1>4 DEF rayDiv, x, y

\* A unit is worth something at an index of at most two rays.
LEMMA RayDivCounts ==
    ASSUME NEW a \in Nat, a # 0, NEW b \in Nat, b > 0, b <= 2 * RAY
    PROVE  rayDiv(a, b) # 0
<1>1. a * RAY \in Nat /\ RAY <= a * RAY
  <2>1. 1 * RAY <= a * RAY /\ a * RAY \in Nat
    BY ProductMonotone, RayAssumption
  <2> QED
    BY <2>1, RayAssumption
<1> DEFINE x == a * RAY
<1> HIDE DEF x
<1>2. x \in Nat /\ RAY <= x
  BY <1>1 DEF x
<1>3. b \div 2 \in Nat /\ b <= 2 * (b \div 2) + 1
  OBVIOUS
<1>4. b <= RAY + b \div 2
  BY <1>3, RayAssumption
<1>5. x + b \div 2 \in Nat /\ 1 * b <= x + b \div 2
  BY <1>2, <1>3, <1>4, RayAssumption
<1>6. 1 <= (x + b \div 2) \div b
  BY <1>5, DivLower
<1>7. 1 <= rayDiv(a, b)
  BY <1>6 DEF rayDiv, x
<1> QED
  BY <1>7

\* Half of a debt, rounded up, is neither nothing nor more than it.
LEMMA HalfOf ==
    ASSUME NEW x \in Nat, x > 0
    PROVE  percentMul(x, 5000) \in 1..x
<1>1. percentMul(x, 5000) = (x * 5000 + 5000) \div 10000
  BY DEF percentMul, PERCENTAGE_FACTOR
<1>2. (x * 5000 + 5000) \div 10000 \in 1..x
  OBVIOUS
<1> QED
  BY <1>1, <1>2

\* Collateral worth w pays for a unit of debt worth p, at a bonus b, when it is
\* worth at least that unit with the bonus.
LEMMA BonusPaid ==
    ASSUME NEW p \in Nat, p > 0, NEW b \in Nat, PERCENTAGE_FACTOR <= b,
           NEW w \in Nat, percentMul(p, b) <= w
    PROVE  w \div p \in Nat /\ percentDiv(w \div p, b) \in Nat /\ percentDiv(w \div p, b) >= 1
<1> DEFINE q == b \div 10000
           x == w \div p
<1>1. /\ q \in Nat /\ 1 <= q /\ 10000 * q <= b /\ b < 10000 * q + 10000
  BY DEF PERCENTAGE_FACTOR
<1>2. p * q <= percentMul(p, b)
  <2>1. /\ p * (10000 * q) \in Nat /\ p * b \in Nat /\ p * (10000 * q) <= p * b
    <3> HIDE DEF q
    <3> QED
      BY <1>1, ProductMonotone
  <2>2. p * q \in Nat /\ p * (10000 * q) = (p * q) * 10000
    <3> HIDE DEF q
    <3> QED
      BY <1>1
  <2> DEFINE y == p * b
             z == p * q
  <2>3. y \in Nat /\ z \in Nat /\ z * 10000 <= y + 5000
    <3>1. y \in Nat /\ z \in Nat /\ z * 10000 <= y
      BY <2>1, <2>2
    <3> HIDE DEF y, z
    <3> QED
      BY <3>1
  <2> HIDE DEF y, z
  <2>4. z <= (y + 5000) \div 10000
    BY <2>3
  <2> QED
    BY <2>4 DEF y, z, percentMul, PERCENTAGE_FACTOR
<1> HIDE DEF q
<1>3. q <= x /\ x \in Nat
  <2>1. p * q \in Nat /\ percentMul(p, b) \in Nat /\ p * q = q * p
    BY <1>1, PercentMulNat
  <2>2. q * p <= w
    BY <1>2, <2>1
  <2> QED
    BY <1>1, <2>2, DivLower, DivNat
<1> HIDE DEF x
<1>4. b <= x * 10000 + b \div 2
  BY <1>1, <1>3
<1>5. 1 <= (x * 10000 + b \div 2) \div b
  <2>1. x * 10000 + b \div 2 \in Nat /\ b > 0 /\ 1 * b <= x * 10000 + b \div 2
    BY <1>3, <1>4 DEF PERCENTAGE_FACTOR
  <2> HIDE DEF PERCENTAGE_FACTOR
  <2> QED
    BY <2>1, DivLower
<1>6. percentDiv(x, b) \in Nat /\ b > 0
  BY <1>3, PercentDivNat DEF PERCENTAGE_FACTOR
<1> QED
  BY <1>3, <1>5, <1>6 DEF percentDiv, PERCENTAGE_FACTOR, x

=============================================================================
