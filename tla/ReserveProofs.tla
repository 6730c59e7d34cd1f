---------------------------- MODULE ReserveProofs ----------------------------
(***************************************************************************)
(* What the operations of the tokens and of ReserveLogic preserve, for     *)
(* every scale of the arithmetic and every state of a reserve. A reserve   *)
(* in good order is a market whose indexes are at least one ray, whose     *)
(* timestamps are ordered and whose supplies are the sums of the balances: *)
(* typing needs the first two, because the code divides by the indexes and *)
(* subtracts the timestamps.                                               *)
(***************************************************************************)
EXTENDS ReserveLogic, WadRayMathProofs, SumProofs

ordered(m, t) ==
    /\ \A u \in Users : m.sTs[u] <= m.sSupplyTs
    /\ m.sSupplyTs <= m.lastUpdateTimestamp
    /\ m.lastUpdateTimestamp <= t

aboveRay(m) == RAY <= m.liquidityIndex /\ RAY <= m.variableBorrowIndex

\* The scaled supplies are the sums of the users' scaled balances.
addsUp(m) ==
    /\ m.lSupply = sumOver(m.l, Users)
    /\ m.vSupply = sumOver(m.v, Users)

Good(m, t) == m \in Market /\ aboveRay(m) /\ ordered(m, t) /\ addsUp(m)

\* Good and updated in the current block: what tokens are minted and burnt on.
Accrued(m, t) == Good(m, t) /\ m.lastUpdateTimestamp = t

\* At t, n has no index lower than m, and shows depositors no less; nor does it
\* book less of the variable debts.
grows(m, n, t) ==
    /\ m.liquidityIndex <= n.liquidityIndex
    /\ m.variableBorrowIndex <= n.variableBorrowIndex
    /\ getNormalizedIncome(m, t) <= getNormalizedIncome(n, t)
    /\ newVariableBorrowIndex(m, t) <= newVariableBorrowIndex(n, t)

\* n has the indexes and the timestamps of m.
sameClock(m, n) ==
    /\ n.liquidityIndex = m.liquidityIndex
    /\ n.variableBorrowIndex = m.variableBorrowIndex
    /\ n.lastUpdateTimestamp = m.lastUpdateTimestamp
    /\ n.sSupplyTs = m.sSupplyTs
    /\ n.sTs = m.sTs

\* n earns what m earns and owes what m owes, since the same time.
sameRate(m, n) ==
    /\ n.currentLiquidityRate = m.currentLiquidityRate
    /\ n.currentVariableBorrowRate = m.currentVariableBorrowRate
    /\ n.vSupply = m.vSupply
    /\ n.lastUpdateTimestamp = m.lastUpdateTimestamp

\* What an operation leaves of a market's clock and rate: either it updated the
\* market, or it touched neither.
keepsRate(m, n, t) == n.lastUpdateTimestamp = t \/ sameRate(m, n)

sameDebts(m, n) == n.v = m.v /\ n.s = m.s

\* n differs from m only in the debt of u.
othersDebts(m, n, u) ==
    \A w \in Users \ {u} : n.v[w] = m.v[w] /\ n.s[w] = m.s[w]

\* n has the lTokens and the variable debts of m.
sameBooks(m, n) ==
    n.l = m.l /\ n.lSupply = m.lSupply /\ n.v = m.v /\ n.vSupply = m.vSupply

-----------------------------------------------------------------------------
(* The interest rate strategy                                              *)

\* The utilisation of a reserve is at most 100%.
LEMMA Utilization ==
    ASSUME NEW avail \in Nat, NEW debt \in Nat
    PROVE  utilizationRate(avail, debt) \in 0..RAY
<1>1. CASE debt = 0
  BY <1>1, RayAssumption DEF utilizationRate
<1>2. CASE debt # 0
  <2>1. avail + debt \in Nat /\ avail + debt > 0 /\ debt <= avail + debt
    BY <1>2
  <2> QED
    BY <1>2, <2>1, RayDivAtMostOne DEF utilizationRate
<1> QED
  BY <1>1, <1>2

\* The average of the borrow rates, weighted by debt, divides by zero debt never.
LEMMA OverallBorrowRate ==
    ASSUME NEW sd \in Nat, NEW vd \in Nat, NEW vr \in Nat, NEW avg \in Nat
    PROVE  _getOverallBorrowRate(sd, vd, vr, avg) \in Nat
<1>1. /\ wadToRay(vd) \in Nat /\ wadToRay(sd) \in Nat /\ wadToRay(sd + vd) \in Nat
      /\ sd + vd # 0 => wadToRay(sd + vd) > 0
  BY WadToRayNat
<1>2. rayMul(wadToRay(vd), vr) \in Nat /\ rayMul(wadToRay(sd), avg) \in Nat
  BY <1>1, RayMulNat
<1>3. rayMul(wadToRay(vd), vr) + rayMul(wadToRay(sd), avg) \in Nat
  BY <1>2
<1>4. CASE sd + vd = 0
  BY <1>4 DEF _getOverallBorrowRate
<1>5. CASE sd + vd # 0
  <2>1. rayDiv(rayMul(wadToRay(vd), vr) + rayMul(wadToRay(sd), avg), wadToRay(sd + vd))
          \in Nat
    BY <1>1, <1>3, <1>5, RayDivNat
  <2> QED
    BY <1>5, <2>1 DEF _getOverallBorrowRate
<1> QED
  BY <1>4, <1>5

\* Reserve factors of at most 100% give natural rates.
LEMMA InterestRates ==
    ASSUME NEW st \in Strategy, NEW mr \in Nat, NEW avail \in Nat, NEW sd \in Nat,
           NEW vd \in Nat, NEW avg \in Nat, NEW rf \in Nat, rf <= PERCENTAGE_FACTOR
    PROVE  calculateInterestRates(st, mr, avail, sd, vd, avg, rf)
             \in [liquidity : Nat, stable : Nat, variable : Nat]
<1> DEFINE util     == utilizationRate(avail, sd + vd)
           excess   == rayDiv(util - st.optimal, RAY - st.optimal)
           variable == IF util > st.optimal
                       THEN st.base + st.v1 + rayMul(st.v2, excess)
                       ELSE st.base + rayDiv(rayMul(util, st.v1), st.optimal)
           stable   == IF util > st.optimal
                       THEN mr + st.s1 + rayMul(st.s2, excess)
                       ELSE mr + rayMul(st.s1, rayDiv(util, st.optimal))
           overall  == _getOverallBorrowRate(sd, vd, variable, avg)
           liquidity == percentMul(rayMul(overall, util), PERCENTAGE_FACTOR - rf)
<1>1. util \in 0..RAY
  <2>1. sd + vd \in Nat
    OBVIOUS
  <2> QED
    BY <2>1, Utilization
<1>2. /\ st.optimal \in 1..RAY
      /\ st.base \in Nat /\ st.v1 \in Nat /\ st.v2 \in Nat
      /\ st.s1 \in Nat /\ st.s2 \in Nat
  BY DEF Strategy
<1> HIDE DEF util
<1>3. variable \in Nat /\ stable \in Nat
  <2>1. CASE util > st.optimal
    <3>1. util - st.optimal \in Nat /\ RAY - st.optimal \in Nat /\ RAY - st.optimal > 0
      BY <1>1, <1>2, <2>1, RayAssumption
    <3>2. excess \in Nat
      BY <3>1, RayDivNat
    <3>3. rayMul(st.v2, excess) \in Nat /\ rayMul(st.s2, excess) \in Nat
      BY <1>2, <3>2, RayMulNat
    <3> QED
      BY <1>2, <2>1, <3>3
  <2>2. CASE ~(util > st.optimal)
    <3>1. util \in Nat /\ st.optimal \in Nat /\ st.optimal > 0
      BY <1>1, <1>2, RayAssumption
    <3>2. rayMul(util, st.v1) \in Nat /\ rayDiv(util, st.optimal) \in Nat
      BY <1>2, <3>1, RayMulNat, RayDivNat
    <3>3. /\ rayDiv(rayMul(util, st.v1), st.optimal) \in Nat
          /\ rayMul(st.s1, rayDiv(util, st.optimal)) \in Nat
      BY <1>2, <3>1, <3>2, RayMulNat, RayDivNat
    <3> QED
      BY <1>2, <2>2, <3>3
  <2> QED
    BY <2>1, <2>2
<1> HIDE DEF variable, stable
<1>4. overall \in Nat
  BY <1>3, OverallBorrowRate
<1> HIDE DEF overall
<1>5. liquidity \in Nat
  <2>1. util \in Nat /\ PERCENTAGE_FACTOR - rf \in Nat
    BY <1>1, RayAssumption DEF PERCENTAGE_FACTOR
  <2> QED
    BY <1>4, <2>1, RayMulNat, PercentMulNat
<1>6. calculateInterestRates(st, mr, avail, sd, vd, avg, rf)
        = [liquidity |-> liquidity, stable |-> stable, variable |-> variable]
  BY DEF calculateInterestRates, liquidity, overall, variable, stable, util
<1> HIDE DEF liquidity
<1> QED
  BY <1>3, <1>5, <1>6

\* The average borrow rate exceeds the larger of the rates it averages by the
\* rounding at most, which small debts bring up to a ray.
LEMMA OverallBounded ==
    ASSUME NEW sd \in Nat, NEW vd \in Nat, NEW vr \in Nat, NEW avg \in Nat,
           NEW b \in Nat, vr <= b, avg <= b
    PROVE  _getOverallBorrowRate(sd, vd, vr, avg) <= b + RAY
<1> DEFINE x == wadToRay(vd)
           y == wadToRay(sd)
           w == wadToRay(sd + vd)
           p == rayMul(x, vr)
           q == rayMul(y, avg)
<1>1. x \in Nat /\ y \in Nat /\ w \in Nat /\ (sd + vd # 0 => w > 0)
  BY WadToRayNat
<1>2. w = y + x
  BY WadRayRatio DEF wadToRay
<1>3. CASE sd + vd = 0
  BY <1>3, RayAssumption DEF _getOverallBorrowRate
<1>4. CASE sd + vd # 0
  <2>1. w > 0
    BY <1>1, <1>4
  <2>2. _getOverallBorrowRate(sd, vd, vr, avg) = rayDiv(p + q, w)
    BY <1>4 DEF _getOverallBorrowRate
  <2> HIDE DEF x, y, w
  <2>3. p \in Nat /\ q \in Nat
    BY <1>1, RayMulNat
  <2>4. /\ p * RAY <= x * b + RAY \div 2 /\ x * b \in Nat
        /\ q * RAY <= y * b + RAY \div 2 /\ y * b \in Nat
    BY <1>1, RayMulUpper
  <2> HIDE DEF p, q
  <2>5. (p + q) * RAY = p * RAY + q * RAY /\ p * RAY \in Nat /\ q * RAY \in Nat
    BY <2>3, RayAssumption
  <2>6. w * b = y * b + x * b
    BY <1>1, <1>2
  <2>7. (p + q) * RAY <= w * b + RAY /\ w * b \in Nat
    BY <2>4, <2>5, <2>6, RayAssumption
  <2>8. RAY <= RAY * w /\ RAY * w \in Nat
    BY <1>1, <2>1, RayAssumption
  <2>9. (b + RAY + 1) * w = w * b + RAY * w + w
    BY <1>1, RayAssumption
  <2>10. w \div 2 \in Nat /\ w \div 2 < w
    BY <1>1, <2>1
  <2>11. (p + q) * RAY + w \div 2 \in Nat
    BY <2>5, <2>10
  <2>12. (p + q) * RAY + w \div 2 < (b + RAY + 1) * w
    BY <1>1, <2>5, <2>7, <2>8, <2>9, <2>10, RayAssumption
  <2>13. ((p + q) * RAY + w \div 2) \div w <= b + RAY
    BY <1>1, <2>1, <2>11, <2>12, DivUpper, RayAssumption
  <2> QED
    BY <2>2, <2>13 DEF rayDiv
<1> QED
  BY <1>3, <1>4

\* A share of the slope: with less than the optimal utilisation, the variable
\* rate adds the first slope at most, and the rounding of a small optimum.
LEMMA FirstSlope ==
    ASSUME NEW util \in Nat, NEW opt \in 1..RAY, util <= opt, NEW v1 \in Nat
    PROVE  rayDiv(rayMul(util, v1), opt) <= v1 + RAY
<1> DEFINE x == rayMul(util, v1)
<1>1. opt \in Nat /\ opt > 0 /\ util * v1 \in Nat /\ opt * v1 \in Nat
      /\ util * v1 <= opt * v1
  BY ProductMonotone, RayAssumption
<1>2. x \in Nat
  BY RayMulNat
<1>3. x * RAY <= opt * v1 + RAY \div 2
  <2>1. v1 * util = util * v1 /\ rayMul(v1, util) = x /\ v1 * opt = opt * v1
    BY <1>1 DEF rayMul
  <2>2. rayMul(v1, util) * RAY <= v1 * opt + RAY \div 2
    BY <1>1, RayMulUpper
  <2> QED
    BY <2>1, <2>2
<1> HIDE DEF x
<1>4. x * RAY \in Nat /\ opt \div 2 \in Nat /\ opt \div 2 < opt
  BY <1>1, <1>2, ProductNat, RayAssumption
<1>5. RAY <= RAY * opt /\ RAY * opt \in Nat
  BY <1>1, RayAssumption
<1>6. (v1 + RAY + 1) * opt = opt * v1 + RAY * opt + opt
  BY <1>1, RayAssumption
<1>7. x * RAY + opt \div 2 \in Nat
  BY <1>4
<1>8. x * RAY + opt \div 2 < (v1 + RAY + 1) * opt
  BY <1>1, <1>3, <1>4, <1>5, <1>6, HalfRay, RayAssumption
<1>9. (x * RAY + opt \div 2) \div opt <= v1 + RAY
  BY <1>1, <1>7, <1>8, DivUpper, RayAssumption
<1> QED
  BY <1>9 DEF rayDiv, x

\* Rates stay within two rays of the largest that the strategy, the market and
\* the existing stable debts name, whatever the utilisation.
LEMMA RatesBounded ==
    ASSUME NEW st \in Strategy, NEW mr \in Nat, NEW avail \in Nat, NEW sd \in Nat,
           NEW vd \in Nat, NEW avg \in Nat, NEW rf \in Nat, rf <= PERCENTAGE_FACTOR,
           NEW b \in Nat, getMaxVariableBorrowRate(st) + 2 * RAY <= b,
           mr + st.s1 + st.s2 <= b, avg + 2 * RAY <= b,
           NEW r, r = calculateInterestRates(st, mr, avail, sd, vd, avg, rf)
    PROVE  r.liquidity <= b /\ r.stable <= b /\ r.variable <= b
<1> DEFINE util     == utilizationRate(avail, sd + vd)
           excess   == rayDiv(util - st.optimal, RAY - st.optimal)
           variable == IF util > st.optimal
                       THEN st.base + st.v1 + rayMul(st.v2, excess)
                       ELSE st.base + rayDiv(rayMul(util, st.v1), st.optimal)
           stable   == IF util > st.optimal
                       THEN mr + st.s1 + rayMul(st.s2, excess)
                       ELSE mr + rayMul(st.s1, rayDiv(util, st.optimal))
           overall  == _getOverallBorrowRate(sd, vd, variable, avg)
           liquidity == percentMul(rayMul(overall, util), PERCENTAGE_FACTOR - rf)
           most     == b - RAY
<1>1. util \in 0..RAY
  <2>1. sd + vd \in Nat
    OBVIOUS
  <2> QED
    BY <2>1, Utilization
<1>2. /\ st.optimal \in 1..RAY
      /\ st.base \in Nat /\ st.v1 \in Nat /\ st.v2 \in Nat
      /\ st.s1 \in Nat /\ st.s2 \in Nat
  BY DEF Strategy
<1>3. st.base + st.v1 + st.v2 + 2 * RAY <= b
  BY DEF getMaxVariableBorrowRate
<1>4. r.liquidity = liquidity /\ r.stable = stable /\ r.variable = variable
  BY DEF calculateInterestRates
<1> HIDE DEF util
<1>5. variable \in Nat /\ variable <= most /\ stable <= b
  <2>1. CASE util > st.optimal
    <3>1. /\ util - st.optimal \in Nat /\ RAY - st.optimal \in Nat
          /\ RAY - st.optimal > 0 /\ util - st.optimal <= RAY - st.optimal
      BY <1>1, <1>2, <2>1, RayAssumption
    <3>2. excess \in Nat /\ excess <= RAY
      BY <3>1, RayDivAtMostOne, RayAssumption
    <3>3. variable = st.base + st.v1 + rayMul(st.v2, excess)
          /\ stable = mr + st.s1 + rayMul(st.s2, excess)
      BY <2>1
    <3> HIDE DEF excess, variable, stable
    <3>4. /\ rayMul(st.v2, excess) \in Nat /\ rayMul(st.v2, excess) <= st.v2
          /\ rayMul(st.s2, excess) \in Nat /\ rayMul(st.s2, excess) <= st.s2
      BY <1>2, <3>2, RayMulNat, RayMulShrinks
    <3> QED
      BY <1>2, <1>3, <3>3, <3>4, RayAssumption
  <2>2. CASE ~(util > st.optimal)
    <3> DEFINE part == rayDiv(util, st.optimal)
               slope == rayDiv(rayMul(util, st.v1), st.optimal)
    <3>1. util \in Nat /\ st.optimal \in Nat /\ st.optimal > 0 /\ util <= st.optimal
      BY <1>1, <1>2, <2>2, RayAssumption
    <3>2. part \in Nat /\ part <= RAY
      BY <3>1, RayDivAtMostOne, RayAssumption
    <3>3. slope \in Nat /\ slope <= st.v1 + RAY
      BY <1>2, <3>1, FirstSlope, RayMulNat, RayDivNat
    <3>4. variable = st.base + slope /\ stable = mr + rayMul(st.s1, part)
      BY <2>2
    <3> HIDE DEF part, slope, variable, stable
    <3>5. rayMul(st.s1, part) \in Nat /\ rayMul(st.s1, part) <= st.s1
      BY <1>2, <3>2, RayMulNat, RayMulShrinks
    <3> QED
      BY <1>2, <1>3, <3>3, <3>4, <3>5, RayAssumption
  <2> QED
    BY <2>1, <2>2
<1> HIDE DEF variable, stable
<1>6. most \in Nat /\ avg <= most
  BY RayAssumption
<1>7. overall \in Nat /\ overall <= b
  <2>1. overall \in Nat
    BY <1>5, OverallBorrowRate
  <2>2. overall <= most + RAY
    BY <1>5, <1>6, OverallBounded
  <2> QED
    BY <2>1, <2>2, RayAssumption
<1> HIDE DEF overall, most
<1>8. rayMul(overall, util) \in Nat /\ rayMul(overall, util) <= b
  <2>1. util \in Nat /\ util <= RAY
    BY <1>1, RayAssumption
  <2>2. rayMul(overall, util) \in Nat /\ rayMul(overall, util) <= overall
    BY <1>7, <2>1, RayMulNat, RayMulShrinks
  <2> QED
    BY <1>7, <2>2
<1>9. PERCENTAGE_FACTOR - rf \in Nat /\ PERCENTAGE_FACTOR - rf <= PERCENTAGE_FACTOR
  BY DEF PERCENTAGE_FACTOR
<1>10. liquidity \in Nat /\ liquidity <= rayMul(overall, util)
  BY <1>8, <1>9, PercentMulNat, PercentMulShrinks
<1> HIDE DEF liquidity
<1>11. b >= most /\ most \in Nat
  BY <1>6, RayAssumption DEF most
<1> QED
  BY <1>4, <1>5, <1>8, <1>10, <1>11

-----------------------------------------------------------------------------
(* Views                                                                   *)

\* The indexes that balances are shown with are natural, and at least the
\* stored ones.
LEMMA NormalizedIncome ==
    ASSUME NEW t \in Nat, NEW m, Good(m, t)
    PROVE  /\ getNormalizedIncome(m, t) \in Nat
           /\ m.liquidityIndex <= getNormalizedIncome(m, t)
<1>1. /\ m.liquidityIndex \in Nat /\ m.currentLiquidityRate \in Nat
      /\ m.lastUpdateTimestamp \in Nat /\ m.lastUpdateTimestamp <= t
  BY DEF Good, ordered, Market
<1> DEFINE f == calculateLinearInterest(m.currentLiquidityRate, m.lastUpdateTimestamp, t)
<1>2. f \in Nat /\ RAY <= f
  BY <1>1, LinearInterest
<1> HIDE DEF f
<1>3. rayMul(f, m.liquidityIndex) \in Nat /\ m.liquidityIndex <= rayMul(f, m.liquidityIndex)
  BY <1>1, <1>2, RayMulNat, RayMulGrows
<1> QED
  BY <1>1, <1>3 DEF getNormalizedIncome, f

\* The same of the variable debt.
LEMMA NormalizedDebt ==
    ASSUME NEW t \in Nat, NEW m, Good(m, t)
    PROVE  /\ getNormalizedDebt(m, t) \in Nat
           /\ m.variableBorrowIndex <= getNormalizedDebt(m, t)
<1>1. /\ m.variableBorrowIndex \in Nat /\ m.currentVariableBorrowRate \in Nat
      /\ m.lastUpdateTimestamp \in Nat /\ m.lastUpdateTimestamp <= t
  BY DEF Good, ordered, Market
<1> DEFINE f == calculateCompoundedInterest(m.currentVariableBorrowRate,
                                            m.lastUpdateTimestamp, t)
<1>2. f \in Nat /\ RAY <= f
  BY <1>1, CompoundedInterest
<1> HIDE DEF f
<1>3. /\ rayMul(f, m.variableBorrowIndex) \in Nat
      /\ m.variableBorrowIndex <= rayMul(f, m.variableBorrowIndex)
  BY <1>1, <1>2, RayMulNat, RayMulGrows
<1> QED
  BY <1>1, <1>3 DEF getNormalizedDebt, f

\* What was accrued in this block has nothing more to book.
LEMMA BookedNow ==
    ASSUME NEW t \in Nat, NEW m, m.lastUpdateTimestamp = t,
           m.variableBorrowIndex \in Nat
    PROVE  newVariableBorrowIndex(m, t) = m.variableBorrowIndex
<1>1. calculateCompoundedInterest(m.currentVariableBorrowRate,
                                  m.lastUpdateTimestamp, t) = RAY
  BY DEF calculateCompoundedInterest
<1> QED
  BY <1>1, RayMulOne DEF newVariableBorrowIndex

\* Balances shown are natural, and a debt is never shown as zero before the
\* stored one is.
LEMMA Balances ==
    ASSUME NEW t \in Nat, NEW m, Good(m, t), NEW u \in Users
    PROVE  /\ lBalanceOf(m, u, t) \in Nat
           /\ vBalanceOf(m, u, t) \in Nat /\ m.v[u] <= vBalanceOf(m, u, t)
           /\ sBalanceOf(m, u, t) \in Nat /\ m.s[u] <= sBalanceOf(m, u, t)
           /\ sTotalSupply(m, t) \in Nat
           /\ lTotalSupply(m, t) \in Nat
<1>1. /\ m.l[u] \in Nat /\ m.v[u] \in Nat /\ m.s[u] \in Nat
      /\ m.sRate[u] \in Nat /\ m.sTs[u] \in Nat
      /\ m.sSupply \in Nat /\ m.sAvg \in Nat /\ m.sSupplyTs \in Nat
      /\ m.lSupply \in Nat /\ m.liquidityIndex \in Nat /\ m.variableBorrowIndex \in Nat
      /\ m.lastUpdateTimestamp \in Nat
  BY DEF Good, Market
<1>2. m.sTs[u] <= t /\ m.sSupplyTs <= t
  BY <1>1 DEF Good, ordered
<1>3. lBalanceOf(m, u, t) \in Nat /\ lTotalSupply(m, t) \in Nat
  BY <1>1, NormalizedIncome, RayMulNat DEF lBalanceOf, lTotalSupply
<1>4. vBalanceOf(m, u, t) \in Nat /\ m.v[u] <= vBalanceOf(m, u, t)
  <2>1. getNormalizedDebt(m, t) \in Nat /\ RAY <= getNormalizedDebt(m, t)
    BY <1>1, NormalizedDebt, RayAssumption DEF Good, aboveRay
  <2> QED
    BY <1>1, <2>1, RayMulNat, RayMulGrows DEF vBalanceOf
<1>5. sBalanceOf(m, u, t) \in Nat /\ m.s[u] <= sBalanceOf(m, u, t)
  <2> DEFINE f == calculateCompoundedInterest(m.sRate[u], m.sTs[u], t)
  <2>1. f \in Nat /\ RAY <= f
    BY <1>1, <1>2, CompoundedInterest
  <2> HIDE DEF f
  <2>2. rayMul(m.s[u], f) \in Nat /\ m.s[u] <= rayMul(m.s[u], f)
    BY <1>1, <2>1, RayMulNat, RayMulGrows
  <2> QED
    BY <1>1, <2>2 DEF sBalanceOf, f
<1>6. sTotalSupply(m, t) \in Nat
  <2> DEFINE f == calculateCompoundedInterest(m.sAvg, m.sSupplyTs, t)
  <2>1. f \in Nat
    BY <1>1, <1>2, CompoundedInterest
  <2> HIDE DEF f
  <2>2. rayMul(m.sSupply, f) \in Nat
    BY <1>1, <2>1, RayMulNat
  <2> QED
    BY <2>2 DEF sTotalSupply, f
<1> QED
  BY <1>3, <1>4, <1>5, <1>6

-----------------------------------------------------------------------------
(* The tokens                                                              *)

\* A typed update that keeps clocks and indexes, and leaves the supplies the sums
\* of the balances, keeps a market in good order.
LEMMA SameClockGood ==
    ASSUME NEW t \in Nat, NEW m, NEW n \in Market, addsUp(n), sameClock(m, n), Good(m, t)
    PROVE  Good(n, t)
  BY DEF Good, aboveRay, ordered, sameClock

\* Supplies and balances that stay go on adding up.
LEMMA SameBooksAddUp ==
    ASSUME NEW m, NEW n, addsUp(m), sameBooks(m, n)
    PROVE  addsUp(n)
  BY DEF addsUp, sameBooks

\* Balances that differ in the account of u only.
LEMMA OneBalance ==
    ASSUME NEW f \in [Users -> Nat], NEW u \in Users, NEW g \in [Users -> Nat],
           \A w \in Users \ {u} : g[w] = f[w]
    PROVE  sumOver(g, Users) = sumOver(f, Users) - f[u] + g[u]
  BY SumUpdate, UsersAssumption

\* A balance of x more makes a sum of x more.
LEMMA Credited ==
    ASSUME NEW f \in [Users -> Nat], NEW u \in Users, NEW x \in Nat,
           NEW g \in [Users -> Nat], g = [f EXCEPT ![u] = f[u] + x]
    PROVE  sumOver(g, Users) = sumOver(f, Users) + x
<1>1. f[u] \in Nat /\ g[u] = f[u] + x /\ \A w \in Users \ {u} : g[w] = f[w]
  OBVIOUS
<1>2. sumOver(f, Users) \in Nat
  BY SumNat, UsersAssumption
<1>3. sumOver(g, Users) = sumOver(f, Users) - f[u] + g[u]
  BY <1>1, OneBalance
<1> QED
  BY <1>1, <1>2, <1>3

\* A balance of x less makes a sum of x less.
LEMMA Debited ==
    ASSUME NEW f \in [Users -> Nat], NEW u \in Users, NEW x \in Nat, x <= f[u],
           NEW g \in [Users -> Nat], g = [f EXCEPT ![u] = f[u] - x]
    PROVE  sumOver(g, Users) = sumOver(f, Users) - x
<1>1. f[u] \in Nat /\ g[u] = f[u] - x /\ \A w \in Users \ {u} : g[w] = f[w]
  OBVIOUS
<1>2. sumOver(f, Users) \in Nat
  BY SumNat, UsersAssumption
<1>3. sumOver(g, Users) = sumOver(f, Users) - f[u] + g[u]
  BY <1>1, OneBalance
<1> QED
  BY <1>1, <1>2, <1>3

\* LToken.mint() touches the lToken only.
LEMMA LMint ==
    ASSUME NEW t \in Nat, NEW m, Good(m, t), NEW u \in Users, NEW amount \in Nat,
           NEW index \in Nat, index > 0, NEW n, n = lMint(m, u, amount, index)
    PROVE  /\ n \in Market /\ addsUp(n) /\ sameClock(m, n) /\ sameDebts(m, n)
           /\ n.avail = m.avail
           /\ n.l[u] = m.l[u] + rayDiv(amount, index)
           /\ n.lSupply = m.lSupply + rayDiv(amount, index)
           /\ \A w \in Users \ {u} : n.l[w] = m.l[w]
<1> DEFINE x == rayDiv(amount, index)
           newL == [m.l EXCEPT ![u] = @ + x]
           newSupply == m.lSupply + x
<1>1. m \in Market /\ m.l \in [Users -> Nat] /\ m.l[u] \in Nat /\ m.lSupply \in Nat
  BY DEF Good, Market
<1>2. x \in Nat
  BY RayDivNat
<1>3. /\ newL \in [Users -> Nat] /\ newSupply \in Nat
      /\ newL[u] = m.l[u] + x /\ \A w \in Users \ {u} : newL[w] = m.l[w]
  BY <1>1, <1>2
<1>4. n = [m EXCEPT !.l = newL, !.lSupply = newSupply]
  BY DEF lMint
<1>5. newSupply = sumOver(newL, Users)
  <2>1. m.lSupply = sumOver(m.l, Users)
    BY DEF Good, addsUp
  <2>2. newL = [m.l EXCEPT ![u] = m.l[u] + x]
    OBVIOUS
  <2> HIDE DEF x, newL
  <2>3. sumOver(newL, Users) = sumOver(m.l, Users) + x
    BY <1>1, <1>2, <1>3, <2>2, Credited
  <2> QED
    BY <2>1, <2>3
<1>6. m.vSupply = sumOver(m.v, Users)
  BY DEF Good, addsUp
<1>9. x = rayDiv(amount, index) /\ newSupply = m.lSupply + x
  OBVIOUS
<1> HIDE DEF x, newL, newSupply
<1>7. /\ n.l = newL /\ n.lSupply = newSupply
      /\ n.v = m.v /\ n.vSupply = m.vSupply
  BY <1>1, <1>4 DEF Market
<1>8. addsUp(n)
  BY <1>5, <1>6, <1>7 DEF addsUp
<1> QED
  BY <1>1, <1>3, <1>4, <1>7, <1>8, <1>9 DEF Market, sameClock, sameDebts

\* LToken.burn() takes from the lToken and its liquidity only.
LEMMA LBurn ==
    ASSUME NEW t \in Nat, NEW m, Good(m, t), NEW u \in Users, NEW amount \in Nat,
           NEW index \in Nat, index > 0, lBurnOK(m, u, amount, index),
           NEW n, n = lBurn(m, u, amount, index)
    PROVE  /\ n \in Market /\ addsUp(n) /\ sameClock(m, n) /\ sameDebts(m, n)
           /\ n.l[u] = m.l[u] - rayDiv(amount, index)
           /\ \A w \in Users \ {u} : n.l[w] = m.l[w]
<1> DEFINE x == rayDiv(amount, index)
           newL == [m.l EXCEPT ![u] = @ - x]
           newSupply == m.lSupply - x
           newAvail == m.avail - amount
<1>1. /\ m \in Market /\ m.l \in [Users -> Nat] /\ m.l[u] \in Nat
      /\ m.lSupply \in Nat /\ m.avail \in Nat
  BY DEF Good, Market
<1>2. x \in Nat /\ x <= m.l[u] /\ x <= m.lSupply /\ amount <= m.avail
  BY RayDivNat DEF lBurnOK
<1>3. /\ newL \in [Users -> Nat] /\ newSupply \in Nat /\ newAvail \in Nat
      /\ newL[u] = m.l[u] - x /\ \A w \in Users \ {u} : newL[w] = m.l[w]
  BY <1>1, <1>2
<1>4. n = [m EXCEPT !.l = newL, !.lSupply = newSupply, !.avail = newAvail]
  BY DEF lBurn
<1>5. newSupply = sumOver(newL, Users)
  <2>1. m.lSupply = sumOver(m.l, Users)
    BY DEF Good, addsUp
  <2>2. newL = [m.l EXCEPT ![u] = m.l[u] - x]
    OBVIOUS
  <2> HIDE DEF x, newL
  <2>3. sumOver(newL, Users) = sumOver(m.l, Users) - x
    BY <1>1, <1>2, <1>3, <2>2, Debited
  <2> QED
    BY <2>1, <2>3
<1>6. m.vSupply = sumOver(m.v, Users)
  BY DEF Good, addsUp
<1>9. x = rayDiv(amount, index)
  OBVIOUS
<1> HIDE DEF x, newL, newSupply, newAvail
<1>7. /\ n.l = newL /\ n.lSupply = newSupply
      /\ n.v = m.v /\ n.vSupply = m.vSupply
  BY <1>1, <1>4 DEF Market
<1>8. addsUp(n)
  BY <1>5, <1>6, <1>7 DEF addsUp
<1> QED
  BY <1>1, <1>3, <1>4, <1>7, <1>8, <1>9 DEF Market, sameClock, sameDebts

\* LToken._transfer() moves lTokens only, to oneself too.
LEMMA LTransfer ==
    ASSUME NEW t \in Nat, NEW m, Good(m, t), NEW u \in Users, NEW w \in Users,
           NEW amount \in Nat, NEW index \in Nat, index > 0,
           lTransferOK(m, u, amount, index),
           NEW n, n = lTransfer(m, u, w, amount, index)
    PROVE  /\ n \in Market /\ addsUp(n) /\ sameClock(m, n) /\ sameDebts(m, n)
           /\ n.avail = m.avail
           /\ sameRate(m, n)
           /\ u # w => /\ n.l[u] = m.l[u] - rayDiv(amount, index)
                       /\ n.l[w] = m.l[w] + rayDiv(amount, index)
<1> DEFINE x == rayDiv(amount, index)
           debited == [m.l EXCEPT ![u] = @ - x]
           newL == [debited EXCEPT ![w] = @ + x]
<1>1. m \in Market /\ m.l \in [Users -> Nat] /\ m.l[u] \in Nat
  BY DEF Good, Market
<1>2. x \in Nat /\ x <= m.l[u]
  BY RayDivNat DEF lTransferOK
<1>3. debited \in [Users -> Nat]
  BY <1>1, <1>2
<1>4. /\ newL \in [Users -> Nat]
      /\ u # w => newL[u] = m.l[u] - x /\ newL[w] = m.l[w] + x
  BY <1>1, <1>2, <1>3
<1>5. n = [m EXCEPT !.l = newL]
  BY DEF lTransfer
<1>6. m.lSupply = sumOver(newL, Users)
  <2>1. m.lSupply = sumOver(m.l, Users) /\ m.lSupply \in Nat
    BY DEF Good, addsUp, Market
  <2>2. debited = [m.l EXCEPT ![u] = m.l[u] - x]
    OBVIOUS
  <2>3. newL = [debited EXCEPT ![w] = debited[w] + x]
    OBVIOUS
  <2> HIDE DEF x, debited, newL
  <2>4. sumOver(debited, Users) = sumOver(m.l, Users) - x
    BY <1>1, <1>2, <1>3, <2>2, Debited
  <2>5. sumOver(newL, Users) = sumOver(debited, Users) + x
    <3>1. /\ newL[w] = debited[w] + x /\ debited[w] \in Nat
          /\ \A z \in Users \ {w} : newL[z] = debited[z]
      BY <1>2, <1>3, <2>3
    <3>2. sumOver(debited, Users) \in Nat
      BY <1>3, SumNat, UsersAssumption
    <3>3. sumOver(newL, Users) = sumOver(debited, Users) - debited[w] + newL[w]
      BY <1>3, <1>4, <3>1, OneBalance
    <3> QED
      BY <1>2, <3>1, <3>2, <3>3
  <2> QED
    BY <1>2, <2>1, <2>4, <2>5
<1>7. m.vSupply = sumOver(m.v, Users)
  BY DEF Good, addsUp
<1>10. x = rayDiv(amount, index)
  OBVIOUS
<1> HIDE DEF x, debited, newL
<1>8. n.l = newL /\ n.lSupply = m.lSupply /\ n.v = m.v /\ n.vSupply = m.vSupply
  BY <1>1, <1>5 DEF Market
<1>9. addsUp(n)
  BY <1>6, <1>7, <1>8 DEF addsUp
<1> QED
  BY <1>1, <1>4, <1>5, <1>8, <1>9, <1>10 DEF Market, sameClock, sameDebts, sameRate

\* VariableDebtToken.mint() changes the debt of its user only.
LEMMA VMint ==
    ASSUME NEW t \in Nat, NEW m, Good(m, t), NEW u \in Users, NEW amount \in Nat,
           NEW index \in Nat, index > 0, NEW n, n = vMint(m, u, amount, index)
    PROVE  /\ n \in Market /\ addsUp(n) /\ sameClock(m, n) /\ othersDebts(m, n, u)
           /\ n.avail = m.avail /\ n.s = m.s /\ n.l = m.l
<1> DEFINE x == rayDiv(amount, index)
           newV == [m.v EXCEPT ![u] = @ + x]
           newSupply == m.vSupply + x
<1>1. m \in Market /\ m.v \in [Users -> Nat] /\ m.v[u] \in Nat /\ m.vSupply \in Nat
  BY DEF Good, Market
<1>2. x \in Nat
  BY RayDivNat
<1>3. /\ newV \in [Users -> Nat] /\ newSupply \in Nat
      /\ \A w \in Users \ {u} : newV[w] = m.v[w]
  BY <1>1, <1>2
<1>4. n = [m EXCEPT !.v = newV, !.vSupply = newSupply]
  BY DEF vMint
<1>5. newSupply = sumOver(newV, Users)
  <2>1. m.vSupply = sumOver(m.v, Users)
    BY DEF Good, addsUp
  <2>2. newV = [m.v EXCEPT ![u] = m.v[u] + x]
    OBVIOUS
  <2> HIDE DEF x, newV
  <2>3. sumOver(newV, Users) = sumOver(m.v, Users) + x
    BY <1>1, <1>2, <1>3, <2>2, Credited
  <2> QED
    BY <2>1, <2>3
<1>6. m.lSupply = sumOver(m.l, Users)
  BY DEF Good, addsUp
<1> HIDE DEF x, newV, newSupply
<1>7. /\ n.v = newV /\ n.vSupply = newSupply
      /\ n.l = m.l /\ n.lSupply = m.lSupply
  BY <1>1, <1>4 DEF Market
<1>8. addsUp(n)
  BY <1>5, <1>6, <1>7 DEF addsUp
<1> QED
  BY <1>1, <1>3, <1>4, <1>8 DEF Market, sameClock, othersDebts

\* VariableDebtToken.burn() takes exactly the scaled amount from its user.
LEMMA VBurn ==
    ASSUME NEW t \in Nat, NEW m, Good(m, t), NEW u \in Users, NEW amount \in Nat,
           NEW index \in Nat, index > 0, vBurnOK(m, u, amount, index),
           NEW n, n = vBurn(m, u, amount, index)
    PROVE  /\ n \in Market /\ addsUp(n) /\ sameClock(m, n) /\ othersDebts(m, n, u)
           /\ n.avail = m.avail /\ n.s = m.s /\ n.l = m.l
           /\ n.v[u] = m.v[u] - rayDiv(amount, index)
<1> DEFINE x == rayDiv(amount, index)
           newV == [m.v EXCEPT ![u] = @ - x]
           newSupply == m.vSupply - x
<1>1. m \in Market /\ m.v \in [Users -> Nat] /\ m.v[u] \in Nat /\ m.vSupply \in Nat
  BY DEF Good, Market
<1>2. x \in Nat /\ x <= m.v[u] /\ x <= m.vSupply
  BY RayDivNat DEF vBurnOK
<1>3. /\ newV \in [Users -> Nat] /\ newSupply \in Nat
      /\ newV[u] = m.v[u] - x
      /\ \A w \in Users \ {u} : newV[w] = m.v[w]
  BY <1>1, <1>2
<1>4. n = [m EXCEPT !.v = newV, !.vSupply = newSupply]
  BY DEF vBurn
<1>5. x = rayDiv(amount, index)
  OBVIOUS
<1>6. newSupply = sumOver(newV, Users)
  <2>1. m.vSupply = sumOver(m.v, Users)
    BY DEF Good, addsUp
  <2>2. newV = [m.v EXCEPT ![u] = m.v[u] - x]
    OBVIOUS
  <2> HIDE DEF x, newV
  <2>3. sumOver(newV, Users) = sumOver(m.v, Users) - x
    BY <1>1, <1>2, <1>3, <2>2, Debited
  <2> QED
    BY <2>1, <2>3
<1>7. m.lSupply = sumOver(m.l, Users)
  BY DEF Good, addsUp
<1> HIDE DEF x, newV, newSupply
<1>8. /\ n.v = newV /\ n.vSupply = newSupply
      /\ n.l = m.l /\ n.lSupply = m.lSupply
  BY <1>1, <1>4 DEF Market
<1>9. addsUp(n)
  BY <1>6, <1>7, <1>8 DEF addsUp
<1> QED
  BY <1>1, <1>3, <1>4, <1>5, <1>9 DEF Market, sameClock, othersDebts

\* The weighted average rates that stable debts are minted and burnt with.
LEMMA Average ==
    ASSUME NEW r1 \in Nat, NEW a1 \in Nat, NEW r2 \in Nat, NEW a2 \in Nat,
           NEW total \in Nat, total > 0
    PROVE  /\ rayMul(r1, wadToRay(a1)) \in Nat
           /\ rayDiv(rayMul(r1, wadToRay(a1)) + rayMul(r2, wadToRay(a2)),
                     wadToRay(total)) \in Nat
<1>1. /\ wadToRay(a1) \in Nat /\ wadToRay(a2) \in Nat
      /\ wadToRay(total) \in Nat /\ wadToRay(total) > 0
  BY WadToRayNat
<1>2. rayMul(r1, wadToRay(a1)) \in Nat /\ rayMul(r2, wadToRay(a2)) \in Nat
  BY <1>1, RayMulNat
<1>3. rayMul(r1, wadToRay(a1)) + rayMul(r2, wadToRay(a2)) \in Nat
  BY <1>2
<1> QED
  BY <1>1, <1>2, <1>3, RayDivNat

\* The market with the stable debts and their supply replaced.
stableFields(m, supply, avg, ts, fRate, fTs, fS) ==
    [m EXCEPT !.sSupply = supply, !.sAvg = avg, !.sSupplyTs = ts,
              !.sRate = fRate, !.sTs = fTs, !.s = fS]

fieldsOf(n, m, ts, fTs, fS) ==
    /\ n \in Market /\ n.sTs = fTs /\ n.s = fS /\ sameBooks(m, n) /\ n.sSupplyTs = ts
    /\ n.lastUpdateTimestamp = m.lastUpdateTimestamp /\ n.avail = m.avail
    /\ n.liquidityIndex = m.liquidityIndex
    /\ n.variableBorrowIndex = m.variableBorrowIndex

\* At t, n has a stable debt of x of u, and is as m otherwise.
stableUpdated(n, m, u, t, x) ==
    /\ Accrued(n, t) /\ grows(m, n, t) /\ othersDebts(m, n, u)
    /\ n.avail = m.avail /\ n.v = m.v /\ n.s[u] = x /\ n.l = m.l
    /\ n.liquidityIndex = m.liquidityIndex
    /\ n.variableBorrowIndex = m.variableBorrowIndex

\* Replacing all the fields of the stable debt token leaves the others alone.
LEMMA StableFields ==
    ASSUME NEW m \in Market, NEW supply \in Nat, NEW avg \in Nat, NEW ts \in Nat,
           NEW fRate \in [Users -> Nat], NEW fTs \in [Users -> Nat],
           NEW fS \in [Users -> Nat]
    PROVE  fieldsOf(stableFields(m, supply, avg, ts, fRate, fTs, fS), m, ts, fTs, fS)
  BY DEF Market, stableFields, fieldsOf, sameBooks

\* One account's stable debt is rewritten, at a time no later than t.
LEMMA StableTimes ==
    ASSUME NEW t \in Nat, NEW m, Accrued(m, t), NEW u \in Users,
           NEW newS \in Nat, NEW newRate \in Nat, NEW newTs \in Nat, newTs <= t
    PROVE  /\ [m.sRate EXCEPT ![u] = newRate] \in [Users -> Nat]
           /\ [m.sTs EXCEPT ![u] = newTs] \in [Users -> Nat]
           /\ [m.s EXCEPT ![u] = newS] \in [Users -> Nat]
           /\ \A w \in Users : [m.sTs EXCEPT ![u] = newTs][w] <= t
           /\ [m.s EXCEPT ![u] = newS][u] = newS
           /\ \A w \in Users \ {u} : [m.s EXCEPT ![u] = newS][w] = m.s[w]
<1>1. /\ m.sRate \in [Users -> Nat] /\ m.sTs \in [Users -> Nat] /\ m.s \in [Users -> Nat]
  BY DEF Accrued, Good, Market
<1>2. \A w \in Users : m.sTs[w] \in Nat /\ m.sTs[w] <= t
  <2>1. m.sSupplyTs \in Nat /\ m.sSupplyTs <= t
    BY DEF Accrued, Good, ordered, Market
  <2>2. \A w \in Users : m.sTs[w] <= m.sSupplyTs
    BY DEF Accrued, Good, ordered
  <2> QED
    BY <1>1, <2>1, <2>2
<1> QED
  BY <1>1, <1>2

\* A stable debt that moves on an accrued market takes the block's time, so
\* the timestamps stay ordered.
LEMMA StableUpdate ==
    ASSUME NEW t \in Nat, NEW m, Accrued(m, t), NEW u \in Users,
           NEW newSupply \in Nat, NEW newAvg \in Nat,
           NEW fRate \in [Users -> Nat],
           NEW fTs \in [Users -> Nat], \A w \in Users : fTs[w] <= t,
           NEW fS \in [Users -> Nat], \A w \in Users \ {u} : fS[w] = m.s[w]
    PROVE  stableUpdated(stableFields(m, newSupply, newAvg, t, fRate, fTs, fS), m, u, t, fS[u])
<1> DEFINE n == stableFields(m, newSupply, newAvg, t, fRate, fTs, fS)
<1>1. m \in Market /\ m.liquidityIndex \in Nat /\ m.variableBorrowIndex \in Nat
  BY DEF Accrued, Good, Market
<1>2. m.lastUpdateTimestamp = t
  BY DEF Accrued
<1>3. fieldsOf(n, m, t, fTs, fS)
  BY <1>1, StableFields
<1> HIDE DEF n
<1>4. Accrued(n, t)
  <2>1. addsUp(n)
    BY <1>3, SameBooksAddUp DEF Accrued, Good, fieldsOf
  <2> QED
    BY <1>2, <1>3, <2>1 DEF Accrued, Good, ordered, aboveRay, fieldsOf
<1>5. /\ newVariableBorrowIndex(m, t) = m.variableBorrowIndex
      /\ newVariableBorrowIndex(n, t) = m.variableBorrowIndex
  BY <1>1, <1>2, <1>3, <1>4, BookedNow DEF Accrued, fieldsOf
<1>6. stableUpdated(n, m, u, t, fS[u])
  BY <1>1, <1>2, <1>3, <1>4, <1>5
  DEF Accrued, grows, getNormalizedIncome, othersDebts, fieldsOf, sameBooks, stableUpdated
<1> QED
  BY <1>6 DEF n

\* StableDebtToken.mint() keeps an accrued market in order and changes the debt
\* of its user only.
LEMMA SMint ==
    ASSUME NEW t \in Nat, NEW m, Accrued(m, t), NEW u \in Users, NEW amount \in Nat,
           NEW rate \in Nat, sMintOK(m, u, amount, rate, t),
           NEW n, n = sMint(m, u, amount, rate, t)
    PROVE  /\ Accrued(n, t) /\ grows(m, n, t) /\ othersDebts(m, n, u)
           /\ n.avail = m.avail /\ n.v = m.v /\ n.l = m.l
           /\ n.s[u] = sBalanceOf(m, u, t) + amount
           /\ n.liquidityIndex = m.liquidityIndex
           /\ n.variableBorrowIndex = m.variableBorrowIndex
<1> DEFINE balance   == sBalanceOf(m, u, t)
           previous  == sTotalSupply(m, t)
           newSupply == previous + amount
           newRate   == sMintRate(m, u, amount, rate, t)
           newAvg    == rayDiv(rayMul(m.sAvg, wadToRay(previous))
                                 + rayMul(rate, wadToRay(amount)),
                               wadToRay(newSupply))
           newS      == balance + amount
           fRate     == [m.sRate EXCEPT ![u] = newRate]
           fTs       == [m.sTs EXCEPT ![u] = t]
           fS        == [m.s EXCEPT ![u] = newS]
<1>1. Good(m, t) /\ m.sAvg \in Nat /\ m.sRate[u] \in Nat
  BY DEF Accrued, Good, Market
<1>2. balance \in Nat /\ previous \in Nat /\ newSupply > 0 /\ newS > 0
  BY <1>1, Balances DEF sMintOK
<1>3. newSupply \in Nat /\ newS \in Nat
  BY <1>2
<1> HIDE DEF balance, previous, newSupply, newS
<1>4. newAvg \in Nat
  BY <1>1, <1>2, <1>3, Average
<1>5. newRate \in Nat
  <2>1. /\ wadToRay(balance) \in Nat /\ wadToRay(amount) \in Nat
        /\ wadToRay(newS) \in Nat /\ wadToRay(newS) > 0
    BY <1>2, <1>3, WadToRayNat
  <2>2. rayMul(m.sRate[u], wadToRay(balance)) \in Nat /\ rayMul(wadToRay(amount), rate) \in Nat
    BY <1>1, <2>1, RayMulNat
  <2>3. rayMul(m.sRate[u], wadToRay(balance)) + rayMul(wadToRay(amount), rate) \in Nat
    BY <2>2
  <2>4. newRate = rayDiv(rayMul(m.sRate[u], wadToRay(balance))
                           + rayMul(wadToRay(amount), rate), wadToRay(newS))
    BY DEF sMintRate, balance, newS
  <2> QED
    BY <2>1, <2>3, <2>4, RayDivNat
<1>6. n = stableFields(m, newSupply, newAvg, t, fRate, fTs, fS)
  <2>1. m \in Market
    BY <1>1 DEF Good
  <2> QED
    BY <2>1 DEF sMint, stableFields, newSupply, newAvg, newRate, newS, previous, balance,
                Market
<1> HIDE DEF newAvg, newRate
<1>7. /\ fRate \in [Users -> Nat] /\ fTs \in [Users -> Nat] /\ fS \in [Users -> Nat]
      /\ \A w \in Users : fTs[w] <= t
      /\ fS[u] = newS /\ \A w \in Users \ {u} : fS[w] = m.s[w]
  BY <1>3, <1>5, StableTimes
<1> HIDE DEF fRate, fTs, fS
<1>8. stableUpdated(stableFields(m, newSupply, newAvg, t, fRate, fTs, fS), m, u, t, fS[u])
  <2>1. fRate \in [Users -> Nat]
    BY <1>7
  <2>2. fTs \in [Users -> Nat]
    BY <1>7
  <2>3. fS \in [Users -> Nat]
    BY <1>7
  <2>4. \A w \in Users : fTs[w] <= t
    BY <1>7
  <2>5. \A w \in Users \ {u} : fS[w] = m.s[w]
    BY <1>7
  <2>6. newSupply \in Nat
    BY <1>3
  <2> QED
    BY <1>4, <2>1, <2>2, <2>3, <2>4, <2>5, <2>6, StableUpdate, Zenon
<1>9. stableUpdated(n, m, u, t, newS)
  BY <1>6, <1>7, <1>8, Zenon
<1> QED
  BY <1>9 DEF stableUpdated, newS, balance

\* Burning a stable debt of which the user owes at least amount.
LEMMA SBurn ==
    ASSUME NEW t \in Nat, NEW m, Accrued(m, t), NEW u \in Users, NEW amount \in Nat,
           sBurnOK(m, u, amount, t), NEW n, n = sBurn(m, u, amount, t)
    PROVE  /\ Accrued(n, t) /\ grows(m, n, t) /\ othersDebts(m, n, u)
           /\ n.avail = m.avail /\ n.v = m.v /\ n.l = m.l
           /\ n.s[u] = sBalanceOf(m, u, t) - amount
           /\ n.liquidityIndex = m.liquidityIndex
           /\ n.variableBorrowIndex = m.variableBorrowIndex
<1> DEFINE balance   == sBalanceOf(m, u, t)
           previous  == sTotalSupply(m, t)
           next      == previous - amount
           first     == rayMul(m.sAvg, wadToRay(previous))
           second    == rayMul(m.sRate[u], wadToRay(amount))
           emptied   == previous <= amount \/ second >= first
           repaid    == amount = balance
           newSupply == IF emptied THEN 0 ELSE next
           newAvg    == IF emptied THEN 0 ELSE rayDiv(first - second, wadToRay(next))
           newRate   == IF repaid THEN 0 ELSE m.sRate[u]
           newTs     == IF repaid THEN 0 ELSE t
           newS      == balance - amount
           fRate     == [m.sRate EXCEPT ![u] = newRate]
           fTs       == [m.sTs EXCEPT ![u] = newTs]
           fS        == [m.s EXCEPT ![u] = newS]
<1>1. Good(m, t) /\ m \in Market /\ m.sAvg \in Nat /\ m.sRate[u] \in Nat
  BY DEF Accrued, Good, Market
<1>2. balance \in Nat /\ previous \in Nat /\ amount <= balance
  BY <1>1, Balances DEF sBurnOK
<1>3. first \in Nat /\ second \in Nat
  <2>1. wadToRay(previous) \in Nat /\ wadToRay(amount) \in Nat
    BY <1>2, WadToRayNat
  <2> QED
    BY <1>1, <2>1, RayMulNat
<1>4. newSupply \in Nat /\ newAvg \in Nat
  <2>1. CASE emptied
    BY <2>1
  <2>2. CASE ~emptied
    <3>1. next \in Nat /\ next > 0 /\ first - second \in Nat
      BY <1>2, <1>3, <2>2
    <3>2. wadToRay(next) \in Nat /\ wadToRay(next) > 0
      BY <3>1, WadToRayNat
    <3>3. rayDiv(first - second, wadToRay(next)) \in Nat
      BY <3>1, <3>2, RayDivNat
    <3> QED
      BY <2>2, <3>1, <3>3
  <2> QED
    BY <2>1, <2>2
<1>5. newRate \in Nat /\ newTs \in Nat /\ newTs <= t /\ newS \in Nat
  BY <1>1, <1>2
<1>6. n = stableFields(m, newSupply, newAvg, t, fRate, fTs, fS)
  BY <1>1 DEF sBurn, stableFields, Market
<1>7. newS = sBalanceOf(m, u, t) - amount
  OBVIOUS
<1> HIDE DEF newSupply, newAvg, newRate, newTs, newS
<1>8. /\ fRate \in [Users -> Nat] /\ fTs \in [Users -> Nat] /\ fS \in [Users -> Nat]
      /\ \A w \in Users : fTs[w] <= t
      /\ fS[u] = newS /\ \A w \in Users \ {u} : fS[w] = m.s[w]
  BY <1>5, StableTimes
<1> HIDE DEF fRate, fTs, fS
<1>9. stableUpdated(stableFields(m, newSupply, newAvg, t, fRate, fTs, fS), m, u, t, fS[u])
  <2>1. newSupply \in Nat
    BY <1>4
  <2>2. newAvg \in Nat
    BY <1>4
  <2>3. fRate \in [Users -> Nat]
    BY <1>8
  <2>4. fTs \in [Users -> Nat]
    BY <1>8
  <2>5. fS \in [Users -> Nat]
    BY <1>8
  <2>6. \A w \in Users : fTs[w] <= t
    BY <1>8
  <2>7. \A w \in Users \ {u} : fS[w] = m.s[w]
    BY <1>8
  <2> QED
    BY <2>1, <2>2, <2>3, <2>4, <2>5, <2>6, <2>7, StableUpdate, Zenon
<1>10. stableUpdated(n, m, u, t, newS)
  BY <1>6, <1>8, <1>9, Zenon
<1> QED
  BY <1>7, <1>10 DEF stableUpdated

-----------------------------------------------------------------------------
(* Accrual and rates                                                       *)

\* Neither stored index shrinks when it is brought up to date, and both stay
\* below the index that balances are shown with.
LEMMA NewIndexes ==
    ASSUME NEW t \in Nat, NEW m, Good(m, t)
    PROVE  /\ newLiquidityIndex(m, t) \in Nat
           /\ m.liquidityIndex <= newLiquidityIndex(m, t)
           /\ newVariableBorrowIndex(m, t) \in Nat
           /\ m.variableBorrowIndex <= newVariableBorrowIndex(m, t)
           /\ newVariableBorrowIndex(m, t) <= getNormalizedDebt(m, t)
           /\ newLiquidityIndex(m, t) = getNormalizedIncome(m, t)
<1>1. /\ m.liquidityIndex \in Nat /\ m.currentLiquidityRate \in Nat
      /\ m.variableBorrowIndex \in Nat /\ m.currentVariableBorrowRate \in Nat
      /\ m.lastUpdateTimestamp \in Nat /\ m.lastUpdateTimestamp <= t
  BY DEF Good, ordered, Market
<1> DEFINE f == calculateLinearInterest(m.currentLiquidityRate, m.lastUpdateTimestamp, t)
           g == calculateCompoundedInterest(m.currentVariableBorrowRate,
                                            m.lastUpdateTimestamp, t)
<1>2. f \in Nat /\ RAY <= f /\ g \in Nat /\ RAY <= g
  BY <1>1, LinearInterest, CompoundedInterest
<1>3. m.lastUpdateTimestamp = t => g = RAY
  BY <1>1 DEF calculateCompoundedInterest
<1>9. m.lastUpdateTimestamp = t \/ m.currentLiquidityRate = 0 => f = RAY
  <2>1. ASSUME m.lastUpdateTimestamp = t \/ m.currentLiquidityRate = 0
        PROVE  m.currentLiquidityRate * (t - m.lastUpdateTimestamp) = 0
    BY <1>1, <2>1
  <2>2. 0 \div SECONDS_PER_YEAR = 0
    BY YearAssumption
  <2> QED
    BY <2>1, <2>2, RayAssumption DEF calculateLinearInterest
<1> HIDE DEF f, g
<1>4. /\ rayMul(f, m.liquidityIndex) \in Nat
      /\ m.liquidityIndex <= rayMul(f, m.liquidityIndex)
      /\ rayMul(g, m.variableBorrowIndex) \in Nat
      /\ m.variableBorrowIndex <= rayMul(g, m.variableBorrowIndex)
  BY <1>1, <1>2, RayMulNat, RayMulGrows
<1>5. /\ rayMul(RAY, m.variableBorrowIndex) = m.variableBorrowIndex
      /\ rayMul(RAY, m.liquidityIndex) = m.liquidityIndex
  BY <1>1, RayMulOne
<1>6. /\ newLiquidityIndex(m, t) \in Nat
      /\ m.liquidityIndex <= newLiquidityIndex(m, t)
  BY <1>1, <1>4 DEF newLiquidityIndex, f
<1>7. /\ newVariableBorrowIndex(m, t) \in Nat
      /\ m.variableBorrowIndex <= newVariableBorrowIndex(m, t)
  BY <1>1, <1>4 DEF newVariableBorrowIndex, g
<1>8. newVariableBorrowIndex(m, t) <= getNormalizedDebt(m, t)
  BY <1>1, <1>3, <1>4, <1>5 DEF newVariableBorrowIndex, getNormalizedDebt, g
<1>10. newLiquidityIndex(m, t) = getNormalizedIncome(m, t)
  BY <1>1, <1>5, <1>9 DEF newLiquidityIndex, getNormalizedIncome, f
<1> QED
  BY <1>6, <1>7, <1>8, <1>10

\* Debt only grows with time: the subtraction by which the treasury's share is
\* computed cannot underflow, nor can any other part of the accrual.
LEMMA DebtGrows ==
    ASSUME NEW t \in Nat, NEW m, Good(m, t)
    PROVE  previousDebt(m) <= currentDebt(m, t)
<1> DEFINE f == calculateCompoundedInterest(m.sAvg, m.sSupplyTs, m.lastUpdateTimestamp)
           g == calculateCompoundedInterest(m.sAvg, m.sSupplyTs, t)
           j == newVariableBorrowIndex(m, t)
<1>1. /\ m.vSupply \in Nat /\ m.variableBorrowIndex \in Nat /\ m.sSupply \in Nat
      /\ m.sAvg \in Nat /\ m.sSupplyTs \in Nat /\ m.lastUpdateTimestamp \in Nat
      /\ m.sSupplyTs <= m.lastUpdateTimestamp /\ m.lastUpdateTimestamp <= t
  BY DEF Good, ordered, Market
<1>2. f \in Nat /\ g \in Nat /\ f <= g
  <2>1. m.sSupplyTs <= t
    BY <1>1
  <2>2. f \in Nat /\ g \in Nat
    BY <1>1, <2>1, CompoundedInterest
  <2> QED
    BY <1>1, <2>2, CompoundedMonotone
<1>3. j \in Nat /\ m.variableBorrowIndex <= j
  BY NewIndexes
<1> HIDE DEF f, g, j
<1>4. /\ rayMul(m.vSupply, m.variableBorrowIndex) \in Nat
      /\ rayMul(m.vSupply, j) \in Nat
      /\ rayMul(m.vSupply, m.variableBorrowIndex) <= rayMul(m.vSupply, j)
  <2>1. m.vSupply <= m.vSupply
    BY <1>1
  <2> QED
    BY <1>1, <1>3, <2>1, RayMulNat, RayMulMonotone
<1>5. rayMul(m.sSupply, f) \in Nat /\ rayMul(m.sSupply, g) \in Nat
      /\ rayMul(m.sSupply, f) <= rayMul(m.sSupply, g)
  <2>1. m.sSupply <= m.sSupply
    BY <1>1
  <2> QED
    BY <1>1, <1>2, <2>1, RayMulNat, RayMulMonotone
<1>6. rayMul(m.sSupply, f) <= sTotalSupply(m, t) /\ sTotalSupply(m, t) \in Nat
  <2>1. CASE m.sSupply = 0
    BY <1>2, <2>1, RayMulZero DEF sTotalSupply
  <2>2. CASE m.sSupply # 0
    BY <1>5, <2>2 DEF sTotalSupply, g
  <2> QED
    BY <2>1, <2>2
<1>7. /\ previousDebt(m) = rayMul(m.vSupply, m.variableBorrowIndex) + rayMul(m.sSupply, f)
      /\ currentDebt(m, t) = rayMul(m.vSupply, j) + sTotalSupply(m, t)
  BY DEF previousDebt, currentDebt, f, j
<1> QED
  BY <1>4, <1>5, <1>6, <1>7

\* The share of the treasury is never negative.
LEMMA AmountToMint ==
    ASSUME NEW t \in Nat, NEW m, Good(m, t), NEW rf \in Nat
    PROVE  amountToMint(m, rf, t) \in Nat
<1>1. /\ m.vSupply \in Nat /\ m.variableBorrowIndex \in Nat /\ m.sSupply \in Nat
      /\ m.sAvg \in Nat /\ m.sSupplyTs \in Nat /\ m.lastUpdateTimestamp \in Nat
      /\ m.sSupplyTs <= m.lastUpdateTimestamp
  BY DEF Good, ordered, Market
<1>2. calculateCompoundedInterest(m.sAvg, m.sSupplyTs, m.lastUpdateTimestamp) \in Nat
  BY <1>1, CompoundedInterest
<1>3. newVariableBorrowIndex(m, t) \in Nat /\ sTotalSupply(m, t) \in Nat
  BY NewIndexes, Balances, TreasuryAssumption
<1>4. previousDebt(m) \in Nat
  <2>1. /\ rayMul(m.vSupply, m.variableBorrowIndex) \in Nat
        /\ rayMul(m.sSupply, calculateCompoundedInterest(m.sAvg, m.sSupplyTs,
                                                         m.lastUpdateTimestamp)) \in Nat
    BY <1>1, <1>2, RayMulNat
  <2> QED
    BY <2>1 DEF previousDebt
<1>5. currentDebt(m, t) \in Nat
  <2>1. rayMul(m.vSupply, newVariableBorrowIndex(m, t)) \in Nat
    BY <1>1, <1>3, RayMulNat
  <2> QED
    BY <1>3, <2>1 DEF currentDebt
<1>6. currentDebt(m, t) - previousDebt(m) \in Nat
  BY <1>4, <1>5, DebtGrows
<1> QED
  BY <1>6, PercentMulNat DEF amountToMint

\* n has the debts of m, to the last detail.
sameStable(m, n) == n.s = m.s /\ n.sRate = m.sRate /\ n.sTs = m.sTs

\* _updateIndexes() brings a market up to the block without lowering an index.
LEMMA UpdateIndexes ==
    ASSUME NEW t \in Nat, NEW m, Good(m, t), NEW n, n = _updateIndexes(m, t)
    PROVE  /\ Accrued(n, t) /\ grows(m, n, t) /\ sameDebts(m, n) /\ sameStable(m, n)
           /\ n.avail = m.avail /\ n.l = m.l /\ n.lSupply = m.lSupply /\ n.sAvg = m.sAvg
           /\ n.liquidityIndex = newLiquidityIndex(m, t)
           /\ n.variableBorrowIndex = newVariableBorrowIndex(m, t)
<1> DEFINE li == newLiquidityIndex(m, t)
           vi == newVariableBorrowIndex(m, t)
<1>1. /\ li \in Nat /\ m.liquidityIndex <= li /\ vi \in Nat /\ m.variableBorrowIndex <= vi
      /\ li = getNormalizedIncome(m, t)
  BY NewIndexes
<1>2. /\ m \in Market /\ RAY <= m.liquidityIndex /\ RAY <= m.variableBorrowIndex
      /\ m.liquidityIndex \in Nat /\ m.variableBorrowIndex \in Nat
  BY DEF Good, aboveRay, Market
<1>3. n = [m EXCEPT !.liquidityIndex = li, !.variableBorrowIndex = vi,
                    !.lastUpdateTimestamp = t]
  BY DEF _updateIndexes
<1>4. vi = newVariableBorrowIndex(m, t) /\ li = newLiquidityIndex(m, t)
  OBVIOUS
<1> HIDE DEF li, vi
<1>5. /\ n \in Market /\ n.liquidityIndex = li /\ n.variableBorrowIndex = vi
      /\ n.lastUpdateTimestamp = t /\ n.sTs = m.sTs /\ n.sSupplyTs = m.sSupplyTs
      /\ n.v = m.v /\ n.s = m.s /\ n.sRate = m.sRate /\ n.avail = m.avail
      /\ n.sAvg = m.sAvg
      /\ sameBooks(m, n)
  BY <1>1, <1>2, <1>3 DEF Market, sameBooks
<1>6. aboveRay(n)
  BY <1>1, <1>2, <1>5, RayAssumption DEF aboveRay
<1>7. ordered(n, t)
  <2>1. /\ m.sSupplyTs \in Nat /\ m.lastUpdateTimestamp \in Nat
    BY DEF Good, Market
  <2> QED
    BY <1>5, <2>1 DEF Good, ordered
<1>8. addsUp(n)
  BY <1>5, SameBooksAddUp DEF Good
<1>9. newVariableBorrowIndex(n, t) = vi
  BY <1>1, <1>5, BookedNow
<1> QED
  BY <1>1, <1>4, <1>5, <1>6, <1>7, <1>8, <1>9
  DEF Accrued, Good, grows, getNormalizedIncome, sameDebts, sameStable, sameBooks

\* updateState() leaves the debts alone and never lowers an index.
LEMMA UpdateState ==
    ASSUME NEW t \in Nat, NEW m, Good(m, t), NEW rf \in Nat,
           NEW n, n = updateState(m, rf, t)
    PROVE  /\ Accrued(n, t) /\ grows(m, n, t) /\ sameDebts(m, n) /\ sameStable(m, n)
           /\ n.avail = m.avail /\ n.sAvg = m.sAvg
           /\ n.liquidityIndex = newLiquidityIndex(m, t)
           /\ \A w \in Users \ {Treasury} : n.l[w] = m.l[w]
           /\ m.l[Treasury] <= n.l[Treasury] /\ m.lSupply <= n.lSupply
           /\ n.variableBorrowIndex = newVariableBorrowIndex(m, t)
<1> DEFINE k == _updateIndexes(m, t)
<1>1. /\ Accrued(k, t) /\ grows(m, k, t) /\ sameDebts(m, k) /\ sameStable(m, k)
      /\ k.avail = m.avail /\ k.l = m.l /\ k.lSupply = m.lSupply /\ k.sAvg = m.sAvg
      /\ k.liquidityIndex = newLiquidityIndex(m, t)
      /\ k.variableBorrowIndex = newVariableBorrowIndex(m, t)
  BY UpdateIndexes
<1>2. n = IF rf = 0 THEN k
          ELSE lMint(k, Treasury, amountToMint(m, rf, t), newLiquidityIndex(m, t))
  BY DEF updateState, _mintToTreasury, mintToTreasury
<1> HIDE DEF k
<1>5. m.l[Treasury] \in Nat /\ m.lSupply \in Nat
  BY TreasuryAssumption DEF Good, Market
<1>3. CASE rf = 0
  BY <1>1, <1>2, <1>3, <1>5
<1>4. CASE rf # 0
  <2>1. amountToMint(m, rf, t) \in Nat
    BY <1>4, AmountToMint
  <2>2. newLiquidityIndex(m, t) \in Nat /\ newLiquidityIndex(m, t) > 0
    <3>1. m.liquidityIndex \in Nat /\ RAY <= m.liquidityIndex
      BY DEF Good, Market, aboveRay
    <3> QED
      BY <3>1, NewIndexes, RayAssumption
  <2>3. Good(k, t)
    BY <1>1 DEF Accrued
  <2>4. n = lMint(k, Treasury, amountToMint(m, rf, t), newLiquidityIndex(m, t))
    BY <1>2, <1>4
  <2>5. /\ n \in Market /\ addsUp(n) /\ sameClock(k, n) /\ sameDebts(k, n)
        /\ n.avail = k.avail
        /\ \A w \in Users \ {Treasury} : n.l[w] = k.l[w]
        /\ n.l[Treasury]
             = k.l[Treasury] + rayDiv(amountToMint(m, rf, t), newLiquidityIndex(m, t))
        /\ n.lSupply = k.lSupply + rayDiv(amountToMint(m, rf, t), newLiquidityIndex(m, t))
    BY <2>1, <2>2, <2>3, <2>4, LMint, TreasuryAssumption
  <2>6. Good(n, t)
    BY <2>3, <2>5, SameClockGood
  <2>7. n.sRate = k.sRate /\ n.sAvg = k.sAvg
    <3> DEFINE x == rayDiv(amountToMint(m, rf, t), newLiquidityIndex(m, t))
               newL == [k.l EXCEPT ![Treasury] = @ + x]
               newSupply == k.lSupply + x
    <3>1. n = [k EXCEPT !.l = newL, !.lSupply = newSupply]
      BY <2>4 DEF lMint
    <3>2. k \in Market
      BY <2>3 DEF Good
    <3> HIDE DEF newL, newSupply
    <3> QED
      BY <3>1, <3>2 DEF Market
  <2>8. m.l[Treasury] <= n.l[Treasury] /\ m.lSupply <= n.lSupply
    <3>1. rayDiv(amountToMint(m, rf, t), newLiquidityIndex(m, t)) \in Nat
      BY <2>1, <2>2, RayDivNat
    <3> QED
      BY <1>1, <1>5, <2>5, <3>1
  <2>9. newVariableBorrowIndex(n, t) = newVariableBorrowIndex(k, t)
    <3>1. k.variableBorrowIndex \in Nat /\ k.lastUpdateTimestamp = t
      BY <1>1 DEF Accrued, Good, Market
    <3> QED
      BY <2>5, <3>1, BookedNow DEF sameClock
  <2> QED
    BY <1>1, <2>5, <2>6, <2>7, <2>8, <2>9
    DEF Accrued, grows, getNormalizedIncome, sameDebts, sameStable, sameClock
<1> QED
  BY <1>3, <1>4

\* Without interest on the debts there is nothing for the treasury.
LEMMA NothingToMint ==
    ASSUME NEW t \in Nat, NEW m, Good(m, t), NEW rf \in Nat,
           currentDebt(m, t) - previousDebt(m) = 0,
           NEW n, n = updateState(m, rf, t)
    PROVE  n.lSupply = m.lSupply /\ amountToMint(m, rf, t) = 0
<1> DEFINE k == _updateIndexes(m, t)
           li == newLiquidityIndex(m, t)
<1>1. /\ m.liquidityIndex \in Nat /\ RAY <= m.liquidityIndex /\ m.lSupply \in Nat
  BY DEF Good, Market, aboveRay
<1>2. /\ Accrued(k, t) /\ k.lSupply = m.lSupply
      /\ li \in Nat /\ li > 0
  BY <1>1, UpdateIndexes, NewIndexes, RayAssumption
<1>3. n = IF rf = 0 THEN k ELSE lMint(k, Treasury, amountToMint(m, rf, t), li)
  BY DEF updateState, _mintToTreasury, mintToTreasury
<1>4. amountToMint(m, rf, t) = 0
  BY PercentMulZero DEF amountToMint
<1>5. rayDiv(0, li) = 0
  BY <1>2, RayAssumption DEF rayDiv
<1> HIDE DEF k, li
<1>6. CASE rf = 0
  BY <1>2, <1>3, <1>4, <1>6
<1>7. CASE rf # 0
  <2>1. n = lMint(k, Treasury, 0, li)
    BY <1>3, <1>4, <1>7
  <2>2. n.lSupply = k.lSupply + 0
    BY <1>2, <1>5, <2>1, LMint, TreasuryAssumption DEF Accrued
  <2> QED
    BY <1>1, <1>2, <1>4, <2>2
<1> QED
  BY <1>6, <1>7

\* A reserve accrued twice in a block mints nothing the second time.
LEMMA AccrualOnce ==
    ASSUME NEW t \in Nat, NEW m, Accrued(m, t), NEW rf \in Nat,
           NEW n, n = updateState(m, rf, t)
    PROVE  n.lSupply = m.lSupply
<1>1. /\ Good(m, t) /\ m.vSupply \in Nat /\ m.variableBorrowIndex \in Nat
      /\ m.lastUpdateTimestamp = t
      /\ m.sAvg \in Nat /\ m.sSupplyTs \in Nat /\ m.sSupplyTs <= t
  BY DEF Accrued, Good, Market, ordered
<1>2. currentDebt(m, t) - previousDebt(m) = 0
  <2> DEFINE f == calculateCompoundedInterest(m.sAvg, m.sSupplyTs, t)
             x == rayMul(m.vSupply, m.variableBorrowIndex)
  <2>1. f \in Nat
    BY <1>1, CompoundedInterest
  <2>2. x \in Nat /\ sTotalSupply(m, t) \in Nat
    BY <1>1, RayMulNat, Balances, TreasuryAssumption
  <2>3. newVariableBorrowIndex(m, t) = m.variableBorrowIndex
    BY <1>1, BookedNow
  <2>4. sTotalSupply(m, t) = rayMul(m.sSupply, f)
    BY <2>1, RayMulZero DEF sTotalSupply
  <2> QED
    BY <1>1, <2>2, <2>3, <2>4 DEF currentDebt, previousDebt
<1> QED
  BY <1>1, <1>2, NothingToMint

\* Only the width of the indexes can make the accrual revert.
LEMMA AccrualSucceeds ==
    ASSUME NEW t \in Nat, NEW m, Good(m, t), NEW rf \in Nat,
           newLiquidityIndex(m, t) <= MaxUint128,
           newVariableBorrowIndex(m, t) <= MaxUint128
    PROVE  updateStateOK(m, rf, t)
  BY DebtGrows DEF Good, ordered, updateStateOK

\* The premium of a flash loan never lowers the liquidity index.
LEMMA Cumulate ==
    ASSUME NEW t \in Nat, NEW m, Accrued(m, t), NEW amount \in Nat,
           cumulateToLiquidityIndexOK(m, amount, t),
           NEW n, n = cumulateToLiquidityIndex(m, amount, t)
    PROVE  /\ Accrued(n, t) /\ grows(m, n, t) /\ sameDebts(m, n)
           /\ n.avail = m.avail
<1> DEFINE total == lTotalSupply(m, t)
           f     == rayDiv(wadToRay(amount), wadToRay(total)) + RAY
           li    == rayMul(f, m.liquidityIndex)
<1>1. /\ Good(m, t) /\ m \in Market /\ m.liquidityIndex \in Nat
      /\ m.variableBorrowIndex \in Nat /\ aboveRay(m)
  BY DEF Accrued, Good, Market
<1>2. total \in Nat /\ total > 0
  BY <1>1, Balances, TreasuryAssumption DEF cumulateToLiquidityIndexOK
<1> HIDE DEF total
<1>3. wadToRay(amount) \in Nat /\ wadToRay(total) \in Nat /\ wadToRay(total) > 0
  BY <1>2, WadToRayNat
<1>4. rayDiv(wadToRay(amount), wadToRay(total)) \in Nat
  BY <1>3, RayDivNat
<1>5. f \in Nat /\ RAY <= f
  BY <1>4, RayAssumption
<1> HIDE DEF f
<1>6. li \in Nat /\ m.liquidityIndex <= li
  BY <1>1, <1>5, RayMulNat, RayMulGrows
<1>7. n = [m EXCEPT !.liquidityIndex = li]
  BY DEF cumulateToLiquidityIndex, cumulatedLiquidityIndex, li, f, total
<1> HIDE DEF li
<1>8. /\ n \in Market /\ n.liquidityIndex = li /\ n.avail = m.avail
      /\ n.variableBorrowIndex = m.variableBorrowIndex
      /\ n.lastUpdateTimestamp = m.lastUpdateTimestamp /\ n.sTs = m.sTs
      /\ n.sSupplyTs = m.sSupplyTs /\ n.v = m.v /\ n.s = m.s /\ sameBooks(m, n)
  BY <1>1, <1>6, <1>7 DEF Market, sameBooks
<1>9. aboveRay(n)
  BY <1>1, <1>6, <1>8, RayAssumption DEF aboveRay
<1>10. ordered(n, t) /\ n.lastUpdateTimestamp = t
  BY <1>1, <1>8 DEF Accrued, Good, ordered
<1>11. addsUp(n)
  BY <1>1, <1>8, SameBooksAddUp DEF Good
<1>12. newVariableBorrowIndex(n, t) = newVariableBorrowIndex(m, t)
       /\ newVariableBorrowIndex(m, t) \in Nat
  BY <1>1, <1>8, BookedNow DEF Accrued
<1> QED
  BY <1>1, <1>6, <1>8, <1>9, <1>10, <1>11, <1>12
  DEF Accrued, Good, grows, getNormalizedIncome, sameDebts

\* updateInterestRates() changes rates only.
LEMMA NewRates ==
    ASSUME NEW t \in Nat, NEW m, Good(m, t), NEW st \in Strategy, NEW mr \in Nat,
           NEW rf \in Nat, NEW added \in Nat, NEW taken \in Nat,
           updateInterestRatesOK(m, st, mr, rf, added, taken, t)
    PROVE  newRates(m, st, mr, rf, added, taken, t)
             \in [liquidity : Nat, stable : Nat, variable : Nat]
<1>1. m.avail \in Nat /\ m.vSupply \in Nat /\ m.variableBorrowIndex \in Nat /\ m.sAvg \in Nat
  BY DEF Good, Market
<1>2. m.avail + added - taken \in Nat /\ rf <= PERCENTAGE_FACTOR
  BY <1>1 DEF updateInterestRatesOK
<1>3. sTotalSupply(m, t) \in Nat
  BY Balances, TreasuryAssumption
<1>4. rayMul(m.vSupply, m.variableBorrowIndex) \in Nat
  BY <1>1, RayMulNat
<1> QED
  BY <1>1, <1>2, <1>3, <1>4, InterestRates DEF newRates

\* updateInterestRates() changes nothing but the three rates, and only runs
\* when the liquidity taken is there.
LEMMA UpdateInterestRates ==
    ASSUME NEW t \in Nat, NEW m, Good(m, t), NEW st \in Strategy, NEW mr \in Nat,
           NEW rf \in Nat, NEW added \in Nat, NEW taken \in Nat,
           updateInterestRatesOK(m, st, mr, rf, added, taken, t),
           NEW n, n = updateInterestRates(m, st, mr, rf, added, taken, t)
    PROVE  /\ n \in Market /\ addsUp(n) /\ sameClock(m, n) /\ sameDebts(m, n)
           /\ n.avail = m.avail /\ n.l = m.l /\ taken <= n.avail + added
<1> DEFINE r  == newRates(m, st, mr, rf, added, taken, t)
           r1 == r.liquidity
           r2 == r.stable
           r3 == r.variable
<1>1. r \in [liquidity : Nat, stable : Nat, variable : Nat]
  BY NewRates
<1> HIDE DEF r
<1>2. r1 \in Nat /\ r2 \in Nat /\ r3 \in Nat
  BY <1>1
<1>3. n = [m EXCEPT !.currentLiquidityRate = r1, !.currentStableBorrowRate = r2,
                    !.currentVariableBorrowRate = r3]
  BY DEF updateInterestRates, r
<1>4. m \in Market /\ taken <= m.avail + added
  BY DEF Good, updateInterestRatesOK
<1> HIDE DEF r1, r2, r3
<1>5. sameBooks(m, n)
  BY <1>2, <1>3, <1>4 DEF Market, sameBooks
<1>6. addsUp(n)
  BY <1>5, SameBooksAddUp DEF Good
<1> QED
  BY <1>2, <1>3, <1>4, <1>5, <1>6 DEF Market, sameClock, sameDebts, sameBooks

\* While the rates it starts from leave two rays of room in their 128 bits, only
\* liquidity that is not there makes updateInterestRates() revert.
LEMMA RatesSucceed ==
    ASSUME NEW t \in Nat, NEW m, Good(m, t), NEW st \in Strategy, NEW mr \in Nat,
           NEW rf \in Nat, rf <= PERCENTAGE_FACTOR, NEW added \in Nat,
           NEW taken \in Nat, taken <= m.avail + added,
           getMaxVariableBorrowRate(st) + 2 * RAY <= MaxUint128,
           mr + st.s1 + st.s2 <= MaxUint128, m.sAvg + 2 * RAY <= MaxUint128
    PROVE  updateInterestRatesOK(m, st, mr, rf, added, taken, t)
<1> DEFINE r == newRates(m, st, mr, rf, added, taken, t)
<1>1. m.avail \in Nat /\ m.vSupply \in Nat /\ m.variableBorrowIndex \in Nat /\ m.sAvg \in Nat
  BY DEF Good, Market
<1>2. m.avail + added - taken \in Nat /\ MaxUint128 \in Nat
  BY <1>1, UintAssumption
<1>3. sTotalSupply(m, t) \in Nat
  BY Balances, TreasuryAssumption
<1>4. rayMul(m.vSupply, m.variableBorrowIndex) \in Nat
  BY <1>1, RayMulNat
<1>5. r.liquidity <= MaxUint128 /\ r.stable <= MaxUint128 /\ r.variable <= MaxUint128
  BY <1>1, <1>2, <1>3, <1>4, RatesBounded DEF newRates
<1> QED
  BY <1>5 DEF updateInterestRatesOK

\* A market just initialised.
LEMMA InitGood == Good(init, 1)
<1> DEFINE zero == [u \in Users |-> 0]
<1>1. zero \in [Users -> Nat] /\ \A u \in Users : zero[u] = 0
  OBVIOUS
<1>2. init = [ liquidityIndex            |-> RAY,
               variableBorrowIndex       |-> RAY,
               currentLiquidityRate      |-> 0,
               currentVariableBorrowRate |-> 0,
               currentStableBorrowRate   |-> 0,
               lastUpdateTimestamp       |-> 0,
               l |-> zero, lSupply |-> 0, avail |-> 0,
               v |-> zero, vSupply |-> 0,
               s |-> zero, sRate |-> zero, sTs |-> zero,
               sSupply |-> 0, sAvg |-> 0, sSupplyTs |-> 0 ]
  BY DEF init
<1>3. sumOver(zero, Users) = 0
  BY SumZero, UsersAssumption
<1> HIDE DEF zero
<1> QED
  BY <1>1, <1>2, <1>3, RayAssumption DEF Good, Market, aboveRay, ordered, addsUp

-----------------------------------------------------------------------------
(* What a depositor and a borrower are shown                               *)

\* The income shown grows with time.
LEMMA IncomeOverTime ==
    ASSUME NEW t \in Nat, NEW m, Good(m, t), NEW later \in Nat, t <= later
    PROVE  getNormalizedIncome(m, t) <= getNormalizedIncome(m, later)
<1> DEFINE f == calculateLinearInterest(m.currentLiquidityRate, m.lastUpdateTimestamp, t)
           g == calculateLinearInterest(m.currentLiquidityRate, m.lastUpdateTimestamp, later)
           i == m.liquidityIndex
<1>1. /\ i \in Nat /\ m.currentLiquidityRate \in Nat
      /\ m.lastUpdateTimestamp \in Nat /\ m.lastUpdateTimestamp <= t
  BY DEF Good, ordered, Market
<1>2. f \in Nat /\ g \in Nat /\ RAY <= g /\ f <= g
  <2>1. m.lastUpdateTimestamp <= later
    BY <1>1
  <2> QED
    BY <1>1, <2>1, LinearInterest, LinearMonotone
<1>3. /\ getNormalizedIncome(m, t) = IF m.lastUpdateTimestamp = t THEN i ELSE rayMul(f, i)
      /\ getNormalizedIncome(m, later)
           = IF m.lastUpdateTimestamp = later THEN i ELSE rayMul(g, i)
  BY DEF getNormalizedIncome
<1> HIDE DEF f, g, i
<1>4. rayMul(f, i) <= rayMul(g, i) /\ i <= rayMul(g, i)
  BY <1>1, <1>2, RayMulMonotone, RayMulGrows
<1> QED
  BY <1>1, <1>3, <1>4 DEF i

\* So does the variable debt that the next accrual books.
LEMMA DebtOverTime ==
    ASSUME NEW t \in Nat, NEW m, Good(m, t), NEW later \in Nat, t <= later
    PROVE  newVariableBorrowIndex(m, t) <= newVariableBorrowIndex(m, later)
<1> DEFINE f == calculateCompoundedInterest(m.currentVariableBorrowRate,
                                            m.lastUpdateTimestamp, t)
           g == calculateCompoundedInterest(m.currentVariableBorrowRate,
                                            m.lastUpdateTimestamp, later)
           i == m.variableBorrowIndex
<1>1. /\ i \in Nat /\ m.currentVariableBorrowRate \in Nat
      /\ m.lastUpdateTimestamp \in Nat /\ m.lastUpdateTimestamp <= t
  BY DEF Good, ordered, Market
<1>2. f \in Nat /\ g \in Nat /\ f <= g /\ i <= i
  <2>1. m.lastUpdateTimestamp <= later
    BY <1>1
  <2>2. f \in Nat /\ g \in Nat
    BY <1>1, <2>1, CompoundedInterest
  <2> QED
    BY <1>1, <2>2, CompoundedMonotone
<1>3. \/ /\ newVariableBorrowIndex(m, t) = rayMul(f, i)
         /\ newVariableBorrowIndex(m, later) = rayMul(g, i)
      \/ /\ newVariableBorrowIndex(m, t) = i
         /\ newVariableBorrowIndex(m, later) = i
  BY DEF newVariableBorrowIndex
<1> HIDE DEF f, g, i
<1>4. rayMul(f, i) <= rayMul(g, i)
  BY <1>1, <1>2, RayMulMonotone DEF i
<1> QED
  BY <1>1, <1>2, <1>3, <1>4 DEF i

\* Nothing is lost where nothing happens.
LEMMA GrowsReflexive ==
    ASSUME NEW t \in Nat, NEW m, Good(m, t)
    PROVE  grows(m, m, t)
<1>1. /\ m.liquidityIndex \in Nat /\ m.variableBorrowIndex \in Nat
      /\ getNormalizedIncome(m, t) \in Nat /\ newVariableBorrowIndex(m, t) \in Nat
  BY NormalizedIncome, NewIndexes DEF Good, Market
<1> QED
  BY <1>1 DEF grows

\* Nor in several steps, when it is lost in none.
LEMMA GrowsTransitive ==
    ASSUME NEW t \in Nat, NEW m, NEW n, NEW k, Good(m, t), Good(n, t), Good(k, t),
           grows(m, n, t), grows(n, k, t)
    PROVE  grows(m, k, t)
<1>1. /\ m.liquidityIndex \in Nat /\ n.liquidityIndex \in Nat /\ k.liquidityIndex \in Nat
      /\ m.variableBorrowIndex \in Nat /\ n.variableBorrowIndex \in Nat
      /\ k.variableBorrowIndex \in Nat
      /\ getNormalizedIncome(m, t) \in Nat /\ getNormalizedIncome(n, t) \in Nat
      /\ getNormalizedIncome(k, t) \in Nat
      /\ newVariableBorrowIndex(m, t) \in Nat /\ newVariableBorrowIndex(n, t) \in Nat
      /\ newVariableBorrowIndex(k, t) \in Nat
  BY NormalizedIncome, NewIndexes DEF Good, Market
<1> QED
  BY <1>1 DEF grows

\* A rate set on an updated market does not change what it shows; an update
\* that leaves the rate alone does not either.
LEMMA SameClockGrows ==
    ASSUME NEW t \in Nat, NEW m, NEW n, NEW k, Good(n, t), sameClock(n, k),
           keepsRate(n, k, t), grows(m, n, t)
    PROVE  grows(m, k, t)
<1>1. getNormalizedIncome(n, t) = getNormalizedIncome(k, t)
  BY DEF sameClock, keepsRate, sameRate, getNormalizedIncome
<1>2. newVariableBorrowIndex(n, t) = newVariableBorrowIndex(k, t)
  <2>1. CASE sameRate(n, k)
    BY <2>1 DEF sameClock, sameRate, newVariableBorrowIndex
  <2>2. CASE k.lastUpdateTimestamp = t
    BY <2>2, BookedNow DEF sameClock, Good, Market
  <2> QED
    BY <2>1, <2>2 DEF keepsRate
<1> QED
  BY <1>1, <1>2 DEF grows, sameClock

-----------------------------------------------------------------------------
(* What only shrinks: the lTokens and the debts of a market that takes no  *)
(* new ones                                                                *)

\* At t, n has no more lTokens than m, and nobody owes more in it.
shrinks(m, n, t) ==
    /\ n.lSupply <= m.lSupply
    /\ \A w \in Users : /\ n.v[w] <= m.v[w]
                        /\ sBalanceOf(n, w, t) <= sBalanceOf(m, w, t)

\* n has the lTokens and the debts of m, who holds them aside.
keepsTokens(m, n) == n.lSupply = m.lSupply /\ n.v = m.v /\ sameStable(m, n)

\* What stays the same has not grown.
LEMMA KeptShrinks ==
    ASSUME NEW t \in Nat, NEW m, Good(m, t), NEW n, keepsTokens(m, n)
    PROVE  shrinks(m, n, t)
<1>1. /\ m.lSupply \in Nat
      /\ \A w \in Users : m.v[w] \in Nat /\ sBalanceOf(m, w, t) \in Nat
  BY Balances DEF Good, Market
<1>2. \A w \in Users : sBalanceOf(n, w, t) = sBalanceOf(m, w, t)
  BY DEF keepsTokens, sameStable, sBalanceOf
<1> QED
  BY <1>1, <1>2 DEF shrinks, keepsTokens

\* Shrinking twice is shrinking.
LEMMA ShrinksTransitive ==
    ASSUME NEW t \in Nat, NEW m, NEW n, NEW k, Good(m, t), Good(n, t), Good(k, t),
           shrinks(m, n, t), shrinks(n, k, t)
    PROVE  shrinks(m, k, t)
<1>1. /\ m.lSupply \in Nat /\ n.lSupply \in Nat /\ k.lSupply \in Nat
      /\ \A w \in Users : m.v[w] \in Nat /\ n.v[w] \in Nat /\ k.v[w] \in Nat
  BY DEF Good, Market
<1>2. \A w \in Users : /\ sBalanceOf(m, w, t) \in Nat /\ sBalanceOf(n, w, t) \in Nat
                       /\ sBalanceOf(k, w, t) \in Nat
  BY Balances
<1> QED
  BY <1>1, <1>2 DEF shrinks

\* New rates, liquidity that moves and a premium leave the tokens alone.
LEMMA TokensKept ==
    ASSUME NEW m \in Market, NEW n, NEW st, NEW mr, NEW rf, NEW added, NEW taken, NEW x,
           NEW t,
           \/ n = updateInterestRates(m, st, mr, rf, added, taken, t)
           \/ n = cumulateToLiquidityIndex(m, x, t)
           \/ n = [m EXCEPT !.avail = x]
    PROVE  keepsTokens(m, n)
  BY DEF Market, keepsTokens, sameStable, updateInterestRates, cumulateToLiquidityIndex

\* So does a transfer of lTokens, but for who holds them.
LEMMA TransferKeeps ==
    ASSUME NEW m \in Market, NEW u, NEW w, NEW x, NEW index, NEW n,
           n = lTransfer(m, u, w, x, index)
    PROVE  keepsTokens(m, n)
  BY DEF Market, keepsTokens, sameStable, lTransfer

\* Burning lTokens.
LEMMA LBurnShrinks ==
    ASSUME NEW t \in Nat, NEW m, Good(m, t), NEW u \in Users, NEW amount \in Nat,
           NEW index \in Nat, index > 0, lBurnOK(m, u, amount, index),
           NEW n, n = lBurn(m, u, amount, index)
    PROVE  shrinks(m, n, t)
<1>1. m \in Market /\ m.lSupply \in Nat /\ rayDiv(amount, index) \in Nat
  BY RayDivNat DEF Good, Market
<1>2. /\ n.lSupply = m.lSupply - rayDiv(amount, index) /\ n.v = m.v
      /\ sameStable(m, n)
  BY <1>1 DEF Market, sameStable, lBurn
<1>3. shrinks(m, m, t)
  BY KeptShrinks DEF keepsTokens, sameStable
<1>4. \A w \in Users : sBalanceOf(n, w, t) = sBalanceOf(m, w, t)
  BY <1>2 DEF sameStable, sBalanceOf
<1> QED
  BY <1>1, <1>2, <1>3, <1>4 DEF shrinks

\* Burning variable debt.
LEMMA VBurnShrinks ==
    ASSUME NEW t \in Nat, NEW m, Good(m, t), NEW u \in Users, NEW amount \in Nat,
           NEW index \in Nat, index > 0, vBurnOK(m, u, amount, index),
           NEW n, n = vBurn(m, u, amount, index)
    PROVE  shrinks(m, n, t)
<1>1. m \in Market /\ m.v[u] \in Nat /\ rayDiv(amount, index) \in Nat
  BY RayDivNat DEF Good, Market
<1>2. n.lSupply = m.lSupply /\ sameStable(m, n)
  BY <1>1 DEF Market, sameStable, vBurn
<1>3. othersDebts(m, n, u) /\ n.v[u] = m.v[u] - rayDiv(amount, index)
  BY VBurn
<1>4. shrinks(m, m, t)
  BY KeptShrinks DEF keepsTokens, sameStable
<1>5. \A w \in Users : sBalanceOf(n, w, t) = sBalanceOf(m, w, t)
  BY <1>2 DEF sameStable, sBalanceOf
<1>6. \A w \in Users : n.v[w] <= m.v[w]
  BY <1>1, <1>3, <1>4 DEF othersDebts, shrinks
<1> QED
  BY <1>2, <1>4, <1>5, <1>6 DEF shrinks

\* What a stable debt that is minted or burnt at t leaves as it was, and what the
\* account is shown next.
LEMMA StableShown ==
    ASSUME NEW t \in Nat, NEW m, NEW n, NEW u \in Users, n.s[u] \in Nat,
           n.s[u] = 0 \/ n.sTs[u] = t,
           \A w \in Users \ {u} : /\ n.s[w] = m.s[w] /\ n.sTs[w] = m.sTs[w]
                                  /\ n.sRate[w] = m.sRate[w]
    PROVE  /\ sBalanceOf(n, u, t) = n.s[u]
           /\ \A w \in Users \ {u} : sBalanceOf(n, w, t) = sBalanceOf(m, w, t)
<1>1. sBalanceOf(n, u, t) = n.s[u]
  <2>1. CASE n.s[u] = 0
    BY <2>1 DEF sBalanceOf
  <2>2. CASE n.s[u] # 0
    <3>1. calculateCompoundedInterest(n.sRate[u], t, t) = RAY
      BY DEF calculateCompoundedInterest
    <3>2. rayMul(n.s[u], RAY) = rayMul(RAY, n.s[u])
      BY RayAssumption DEF rayMul
    <3> QED
      BY <2>2, <3>1, <3>2, RayMulOne DEF sBalanceOf
  <2> QED
    BY <2>1, <2>2
<1>2. \A w \in Users \ {u} : sBalanceOf(n, w, t) = sBalanceOf(m, w, t)
  BY DEF sBalanceOf
<1> QED
  BY <1>1, <1>2

\* A stable debt minted at t is shown as the sum at t.
LEMMA SMintShown ==
    ASSUME NEW t \in Nat, NEW m, Accrued(m, t), NEW u \in Users, NEW amount \in Nat,
           NEW rate \in Nat, sMintOK(m, u, amount, rate, t),
           NEW n, n = sMint(m, u, amount, rate, t)
    PROVE  /\ n.lSupply = m.lSupply /\ n.v = m.v
           /\ sBalanceOf(n, u, t) = sBalanceOf(m, u, t) + amount
           /\ \A w \in Users \ {u} : sBalanceOf(n, w, t) = sBalanceOf(m, w, t)
<1>1. m \in Market
  BY DEF Accrued, Good
<1>2. n.s[u] \in Nat /\ n.s[u] = sBalanceOf(m, u, t) + amount
  <2>1. Accrued(n, t) /\ n.s[u] = sBalanceOf(m, u, t) + amount
    BY SMint
  <2> QED
    BY <2>1 DEF Accrued, Good, Market
<1>3. n.lSupply = m.lSupply /\ n.v = m.v
  BY <1>1 DEF sMint, Market
<1>4. /\ n.s[u] = 0 \/ n.sTs[u] = t
      /\ \A w \in Users \ {u} : /\ n.s[w] = m.s[w] /\ n.sTs[w] = m.sTs[w]
                                /\ n.sRate[w] = m.sRate[w]
  BY <1>1 DEF sMint, Market
<1>5. /\ sBalanceOf(n, u, t) = n.s[u]
      /\ \A w \in Users \ {u} : sBalanceOf(n, w, t) = sBalanceOf(m, w, t)
  BY <1>2, <1>4, StableShown
<1> QED
  BY <1>2, <1>3, <1>5

\* A stable debt burnt at t is shown as what is left at t.
LEMMA SBurnShown ==
    ASSUME NEW t \in Nat, NEW m, Accrued(m, t), NEW u \in Users, NEW amount \in Nat,
           sBurnOK(m, u, amount, t), NEW n, n = sBurn(m, u, amount, t)
    PROVE  /\ n.lSupply = m.lSupply /\ n.v = m.v
           /\ sBalanceOf(n, u, t) = sBalanceOf(m, u, t) - amount
           /\ \A w \in Users \ {u} : sBalanceOf(n, w, t) = sBalanceOf(m, w, t)
<1>1. m \in Market
  BY DEF Accrued, Good
<1>2. n.s[u] \in Nat /\ n.s[u] = sBalanceOf(m, u, t) - amount
  <2>1. Accrued(n, t) /\ n.s[u] = sBalanceOf(m, u, t) - amount
    BY SBurn
  <2> QED
    BY <2>1 DEF Accrued, Good, Market
<1>3. n.lSupply = m.lSupply /\ n.v = m.v
  BY <1>1 DEF sBurn, Market
<1>4. /\ n.s[u] = 0 \/ n.sTs[u] = t
      /\ \A w \in Users \ {u} : /\ n.s[w] = m.s[w] /\ n.sTs[w] = m.sTs[w]
                                /\ n.sRate[w] = m.sRate[w]
  BY <1>1, <1>2 DEF sBurn, Market
<1>5. /\ sBalanceOf(n, u, t) = n.s[u]
      /\ \A w \in Users \ {u} : sBalanceOf(n, w, t) = sBalanceOf(m, w, t)
  BY <1>2, <1>4, StableShown
<1> QED
  BY <1>2, <1>3, <1>5

\* Burning stable debt.
LEMMA SBurnShrinks ==
    ASSUME NEW t \in Nat, NEW m, Accrued(m, t), NEW u \in Users, NEW amount \in Nat,
           sBurnOK(m, u, amount, t), NEW n, n = sBurn(m, u, amount, t)
    PROVE  shrinks(m, n, t)
<1>1. Good(m, t) /\ shrinks(m, m, t) /\ sBalanceOf(m, u, t) \in Nat
  BY Balances, KeptShrinks DEF Accrued, keepsTokens, sameStable
<1>2. /\ n.lSupply = m.lSupply /\ n.v = m.v
      /\ sBalanceOf(n, u, t) = sBalanceOf(m, u, t) - amount
      /\ \A w \in Users \ {u} : sBalanceOf(n, w, t) = sBalanceOf(m, w, t)
  BY SBurnShown
<1> QED
  BY <1>1, <1>2 DEF shrinks

\* Rebalancing a stable rate burns the whole debt and mints as much.
LEMMA RebalanceShrinks ==
    ASSUME NEW t \in Nat, NEW m, Accrued(m, t), NEW u \in Users, NEW debt,
           debt = sBalanceOf(m, u, t), sBurnOK(m, u, debt, t),
           NEW k, k = sBurn(m, u, debt, t), NEW rate \in Nat,
           sMintOK(k, u, debt, rate, t), NEW n, n = sMint(k, u, debt, rate, t)
    PROVE  shrinks(m, n, t)
<1>1. Good(m, t) /\ shrinks(m, m, t) /\ debt \in Nat
  BY Balances, KeptShrinks DEF Accrued, keepsTokens, sameStable
<1>2. /\ Accrued(k, t) /\ k.lSupply = m.lSupply /\ k.v = m.v
      /\ sBalanceOf(k, u, t) = debt - debt
      /\ \A w \in Users \ {u} : sBalanceOf(k, w, t) = sBalanceOf(m, w, t)
  BY <1>1, SBurn, SBurnShown
<1>3. /\ n.lSupply = k.lSupply /\ n.v = k.v
      /\ sBalanceOf(n, u, t) = sBalanceOf(k, u, t) + debt
      /\ \A w \in Users \ {u} : sBalanceOf(n, w, t) = sBalanceOf(k, w, t)
  BY <1>1, <1>2, SMintShown
<1>4. sBalanceOf(n, u, t) = debt
  BY <1>1, <1>2, <1>3
<1> QED
  BY <1>1, <1>2, <1>3, <1>4 DEF shrinks

-----------------------------------------------------------------------------
(* What a reserve has beyond its depositors' claims                        *)

\* The stable debts of all users, as they are shown at t.
stableDebts(m, t) == [u \in Users |-> sBalanceOf(m, u, t)]

\* Liquidity and debts less the deposits, where a scaled unit is a unit.
surplus(m, t) ==
    m.avail + m.vSupply + sumOver(stableDebts(m, t), Users) - m.lSupply

\* A scaled unit is a unit.
atPar(m) == m.liquidityIndex = RAY /\ m.variableBorrowIndex = RAY

\* The stable debts add up to a number.
LEMMA StableDebtsNat ==
    ASSUME NEW t \in Nat, NEW m, Good(m, t)
    PROVE  /\ stableDebts(m, t) \in [Users -> Nat]
           /\ sumOver(stableDebts(m, t), Users) \in Nat
           /\ surplus(m, t) \in Int
<1>1. stableDebts(m, t) \in [Users -> Nat]
  BY Balances DEF stableDebts
<1> HIDE DEF stableDebts
<1>2. sumOver(stableDebts(m, t), Users) \in Nat
  BY <1>1, SumNat, UsersAssumption
<1>3. m.avail \in Nat /\ m.vSupply \in Nat /\ m.lSupply \in Nat
  BY DEF Good, Market
<1> QED
  BY <1>1, <1>2, <1>3 DEF surplus

\* Where no token changes, the surplus moves with the liquidity.
LEMMA SurplusKept ==
    ASSUME NEW t \in Nat, NEW m, Good(m, t), NEW n, Good(n, t), keepsTokens(m, n)
    PROVE  surplus(n, t) = surplus(m, t) + n.avail - m.avail
<1>1. n.lSupply = m.lSupply /\ n.vSupply = m.vSupply
  BY DEF keepsTokens, Good, addsUp
<1>2. \A u \in Users : sBalanceOf(n, u, t) = sBalanceOf(m, u, t)
  BY DEF keepsTokens, sameStable, sBalanceOf
<1>3. stableDebts(n, t) = stableDebts(m, t)
  BY <1>2 DEF stableDebts
<1>4. /\ m.avail \in Nat /\ m.vSupply \in Nat /\ m.lSupply \in Nat /\ n.avail \in Nat
      /\ sumOver(stableDebts(m, t), Users) \in Nat
  BY StableDebtsNat DEF Good, Market
<1> QED
  BY <1>1, <1>3, <1>4 DEF surplus

\* Minting lTokens at par is a claim of as much.
LEMMA LMintSurplus ==
    ASSUME NEW t \in Nat, NEW m, Good(m, t), NEW u \in Users, NEW amount \in Nat,
           NEW n, n = lMint(m, u, amount, RAY)
    PROVE  Good(n, t) /\ surplus(n, t) = surplus(m, t) - amount
<1>1. m \in Market /\ RAY \in Nat /\ RAY > 0
  BY RayAssumption DEF Good
<1>2. rayDiv(amount, RAY) = amount
  BY RayIsOne
<1>3. Good(n, t) /\ n.avail = m.avail /\ n.lSupply = m.lSupply + amount
  BY <1>1, <1>2, LMint, SameClockGood
<1>4. n.vSupply = m.vSupply /\ sameStable(m, n)
  BY <1>1, <1>2 DEF lMint, Market, sameStable
<1>5. \A w \in Users : sBalanceOf(n, w, t) = sBalanceOf(m, w, t)
  BY <1>4 DEF sameStable, sBalanceOf
<1>6. stableDebts(n, t) = stableDebts(m, t)
  BY <1>5 DEF stableDebts
<1>7. /\ m.avail \in Nat /\ m.vSupply \in Nat /\ m.lSupply \in Nat
      /\ sumOver(stableDebts(m, t), Users) \in Nat
  BY <1>1, StableDebtsNat DEF Market
<1> QED
  BY <1>3, <1>4, <1>6, <1>7 DEF surplus

\* Burning them at par pays the claim.
LEMMA LBurnSurplus ==
    ASSUME NEW t \in Nat, NEW m, Good(m, t), NEW u \in Users, NEW amount \in Nat,
           lBurnOK(m, u, amount, RAY), NEW n, n = lBurn(m, u, amount, RAY)
    PROVE  Good(n, t) /\ surplus(n, t) = surplus(m, t)
<1>1. m \in Market /\ RAY \in Nat /\ RAY > 0
  BY RayAssumption DEF Good
<1>2. rayDiv(amount, RAY) = amount
  BY RayIsOne
<1>3. Good(n, t)
  BY <1>1, LBurn, SameClockGood
<1>4. /\ n.vSupply = m.vSupply /\ sameStable(m, n)
      /\ n.lSupply = m.lSupply - amount /\ n.avail = m.avail - amount
  BY <1>1, <1>2 DEF lBurn, Market, sameStable
<1>5. \A w \in Users : sBalanceOf(n, w, t) = sBalanceOf(m, w, t)
  BY <1>4 DEF sameStable, sBalanceOf
<1>6. stableDebts(n, t) = stableDebts(m, t)
  BY <1>5 DEF stableDebts
<1>7. /\ m.avail \in Nat /\ m.vSupply \in Nat /\ m.lSupply \in Nat
      /\ sumOver(stableDebts(m, t), Users) \in Nat
  BY <1>1, StableDebtsNat DEF Market
<1> QED
  BY <1>3, <1>4, <1>6, <1>7 DEF surplus

\* Variable debt at par is worth what it was taken for.
LEMMA VMintSurplus ==
    ASSUME NEW t \in Nat, NEW m, Good(m, t), NEW u \in Users, NEW amount \in Nat,
           NEW n, n = vMint(m, u, amount, RAY)
    PROVE  Good(n, t) /\ surplus(n, t) = surplus(m, t) + amount
<1>1. m \in Market /\ RAY \in Nat /\ RAY > 0
  BY RayAssumption DEF Good
<1>2. rayDiv(amount, RAY) = amount
  BY RayIsOne
<1>3. Good(n, t) /\ n.avail = m.avail
  BY <1>1, VMint, SameClockGood
<1>4. /\ n.vSupply = m.vSupply + amount /\ sameStable(m, n)
      /\ n.lSupply = m.lSupply
  BY <1>1, <1>2 DEF vMint, Market, sameStable
<1>5. \A w \in Users : sBalanceOf(n, w, t) = sBalanceOf(m, w, t)
  BY <1>4 DEF sameStable, sBalanceOf
<1>6. stableDebts(n, t) = stableDebts(m, t)
  BY <1>5 DEF stableDebts
<1>7. /\ m.avail \in Nat /\ m.vSupply \in Nat /\ m.lSupply \in Nat
      /\ sumOver(stableDebts(m, t), Users) \in Nat
  BY <1>1, StableDebtsNat DEF Market
<1> QED
  BY <1>3, <1>4, <1>6, <1>7 DEF surplus

\* And what it is repaid with.
LEMMA VBurnSurplus ==
    ASSUME NEW t \in Nat, NEW m, Good(m, t), NEW u \in Users, NEW amount \in Nat,
           vBurnOK(m, u, amount, RAY), NEW n, n = vBurn(m, u, amount, RAY)
    PROVE  Good(n, t) /\ surplus(n, t) = surplus(m, t) - amount
<1>1. m \in Market /\ RAY \in Nat /\ RAY > 0
  BY RayAssumption DEF Good
<1>2. rayDiv(amount, RAY) = amount
  BY RayIsOne
<1>3. Good(n, t) /\ n.avail = m.avail
  BY <1>1, VBurn, SameClockGood
<1>4. /\ n.vSupply = m.vSupply - amount /\ sameStable(m, n)
      /\ n.lSupply = m.lSupply
  BY <1>1, <1>2 DEF vBurn, Market, sameStable
<1>5. \A w \in Users : sBalanceOf(n, w, t) = sBalanceOf(m, w, t)
  BY <1>4 DEF sameStable, sBalanceOf
<1>6. stableDebts(n, t) = stableDebts(m, t)
  BY <1>5 DEF stableDebts
<1>7. /\ m.avail \in Nat /\ m.vSupply \in Nat /\ m.lSupply \in Nat
      /\ sumOver(stableDebts(m, t), Users) \in Nat
  BY <1>1, StableDebtsNat DEF Market
<1> QED
  BY <1>3, <1>4, <1>6, <1>7 DEF surplus

\* A change of what one user is shown to owe is one of the surplus.
LEMMA StableSurplus ==
    ASSUME NEW t \in Nat, NEW m, Good(m, t), NEW n, Good(n, t), NEW u \in Users,
           n.avail = m.avail, n.lSupply = m.lSupply, n.v = m.v,
           \A w \in Users \ {u} : sBalanceOf(n, w, t) = sBalanceOf(m, w, t)
    PROVE  surplus(n, t) = surplus(m, t) + sBalanceOf(n, u, t) - sBalanceOf(m, u, t)
<1>1. n.vSupply = m.vSupply
  BY DEF Good, addsUp
<1> DEFINE f == stableDebts(m, t)
           g == stableDebts(n, t)
<1>2. /\ f \in [Users -> Nat] /\ g \in [Users -> Nat]
      /\ sumOver(f, Users) \in Nat /\ sumOver(g, Users) \in Nat
  BY StableDebtsNat
<1>3. /\ f[u] = sBalanceOf(m, u, t) /\ g[u] = sBalanceOf(n, u, t)
      /\ \A w \in Users \ {u} : g[w] = f[w]
  BY DEF stableDebts
<1>4. /\ surplus(m, t) = m.avail + m.vSupply + sumOver(f, Users) - m.lSupply
      /\ surplus(n, t) = n.avail + n.vSupply + sumOver(g, Users) - n.lSupply
  BY DEF surplus
<1>5. m.avail \in Nat /\ m.vSupply \in Nat /\ m.lSupply \in Nat
  BY DEF Good, Market
<1>6. f[u] \in Nat /\ g[u] \in Nat
  BY <1>2
<1> HIDE DEF f, g
<1>7. sumOver(g, Users) = sumOver(f, Users) - f[u] + g[u]
  BY <1>2, <1>3, OneBalance
<1> QED
  BY <1>1, <1>2, <1>3, <1>4, <1>5, <1>6, <1>7

\* Stable debt is minted on top of what the user is shown.
LEMMA SMintSurplus ==
    ASSUME NEW t \in Nat, NEW m, Accrued(m, t), NEW u \in Users, NEW amount \in Nat,
           NEW rate \in Nat, sMintOK(m, u, amount, rate, t),
           NEW n, n = sMint(m, u, amount, rate, t)
    PROVE  Accrued(n, t) /\ surplus(n, t) = surplus(m, t) + amount
<1>1. Accrued(n, t) /\ Good(n, t) /\ Good(m, t) /\ n.avail = m.avail
  BY SMint DEF Accrued
<1>2. /\ n.lSupply = m.lSupply /\ n.v = m.v
      /\ sBalanceOf(n, u, t) = sBalanceOf(m, u, t) + amount
      /\ \A w \in Users \ {u} : sBalanceOf(n, w, t) = sBalanceOf(m, w, t)
  BY SMintShown
<1>3. surplus(n, t) = surplus(m, t) + sBalanceOf(n, u, t) - sBalanceOf(m, u, t)
  BY <1>1, <1>2, StableSurplus
<1>4. surplus(m, t) \in Int /\ sBalanceOf(m, u, t) \in Nat
  BY <1>1, StableDebtsNat, Balances
<1> QED
  BY <1>1, <1>2, <1>3, <1>4

\* And burnt from it.
LEMMA SBurnSurplus ==
    ASSUME NEW t \in Nat, NEW m, Accrued(m, t), NEW u \in Users, NEW amount \in Nat,
           sBurnOK(m, u, amount, t), NEW n, n = sBurn(m, u, amount, t)
    PROVE  Accrued(n, t) /\ surplus(n, t) = surplus(m, t) - amount
<1>1. Accrued(n, t) /\ Good(n, t) /\ Good(m, t) /\ n.avail = m.avail
  BY SBurn DEF Accrued
<1>2. /\ n.lSupply = m.lSupply /\ n.v = m.v
      /\ sBalanceOf(n, u, t) = sBalanceOf(m, u, t) - amount
      /\ \A w \in Users \ {u} : sBalanceOf(n, w, t) = sBalanceOf(m, w, t)
  BY SBurnShown
<1>3. surplus(n, t) = surplus(m, t) + sBalanceOf(n, u, t) - sBalanceOf(m, u, t)
  BY <1>1, <1>2, StableSurplus
<1>4. surplus(m, t) \in Int /\ sBalanceOf(m, u, t) \in Nat
  BY <1>1, StableDebtsNat, Balances
<1> QED
  BY <1>1, <1>2, <1>3, <1>4

\* While the depositors earn nothing and stable debts none on average, nothing is
\* due to the treasury either.
LEMMA FlatDebt ==
    ASSUME NEW t \in Nat, NEW m, Good(m, t), m.currentLiquidityRate = 0, m.sAvg = 0
    PROVE  currentDebt(m, t) - previousDebt(m) = 0
<1>1. /\ m.vSupply \in Nat /\ m.variableBorrowIndex \in Nat /\ m.sSupply \in Nat
      /\ m.sSupplyTs \in Nat /\ m.lastUpdateTimestamp \in Nat
      /\ m.sSupplyTs <= m.lastUpdateTimestamp /\ m.lastUpdateTimestamp <= t
  BY DEF Good, Market, ordered
<1>2. newVariableBorrowIndex(m, t) = m.variableBorrowIndex
  BY DEF newVariableBorrowIndex
<1>3. /\ calculateCompoundedInterest(0, m.sSupplyTs, t) = RAY
      /\ calculateCompoundedInterest(0, m.sSupplyTs, m.lastUpdateTimestamp) = RAY
  BY <1>1, CompoundedOfZero
<1>4. sTotalSupply(m, t) = m.sSupply
  BY <1>1, <1>3, RayIsOne DEF sTotalSupply
<1>5. rayMul(m.sSupply, RAY) = m.sSupply
  BY <1>1, RayIsOne
<1>6. rayMul(m.vSupply, m.variableBorrowIndex) \in Nat
  BY <1>1, RayMulNat
<1> QED
  BY <1>1, <1>2, <1>3, <1>4, <1>5, <1>6 DEF currentDebt, previousDebt

\* At par, an accrual of a reserve that earns nothing, or that was already updated
\* in the block, leaves the surplus alone.
LEMMA FlatAccrual ==
    ASSUME NEW t \in Nat, NEW m, Good(m, t), atPar(m), NEW rf \in Nat,
           \/ m.currentLiquidityRate = 0 /\ m.sAvg = 0
           \/ m.lastUpdateTimestamp = t,
           NEW n, n = updateState(m, rf, t)
    PROVE  Accrued(n, t) /\ atPar(n) /\ surplus(n, t) = surplus(m, t)
<1>1. /\ Accrued(n, t) /\ Good(n, t) /\ sameDebts(m, n) /\ sameStable(m, n)
      /\ n.avail = m.avail
      /\ n.liquidityIndex = newLiquidityIndex(m, t)
      /\ n.variableBorrowIndex = newVariableBorrowIndex(m, t)
  BY UpdateState DEF Accrued
<1>2. /\ n.lSupply = m.lSupply
      /\ newLiquidityIndex(m, t) = m.liquidityIndex
      /\ newVariableBorrowIndex(m, t) = m.variableBorrowIndex
  <2>1. CASE m.currentLiquidityRate = 0 /\ m.sAvg = 0
    BY <2>1, FlatDebt, NothingToMint DEF newLiquidityIndex, newVariableBorrowIndex
  <2>2. CASE m.lastUpdateTimestamp = t
    <3>1. n.lSupply = m.lSupply
      BY <2>2, AccrualOnce DEF Accrued
    <3>2. newVariableBorrowIndex(m, t) = m.variableBorrowIndex
      BY <2>2, BookedNow DEF Good, Market
    <3>3. newLiquidityIndex(m, t) = m.liquidityIndex
      BY <2>2, NewIndexes DEF getNormalizedIncome
    <3> QED
      BY <3>1, <3>2, <3>3
  <2> QED
    BY <2>1, <2>2
<1>3. surplus(n, t) = surplus(m, t) + n.avail - m.avail
  BY <1>1, <1>2, SurplusKept DEF keepsTokens, sameDebts
<1>4. surplus(m, t) \in Int /\ m.avail \in Nat
  BY StableDebtsNat DEF Good, Market
<1> QED
  BY <1>1, <1>2, <1>3, <1>4 DEF atPar

=============================================================================
