----------------------------- MODULE ExitProofs -----------------------------
(***************************************************************************)
(* Nobody is locked in: withdraw() and repay() with type(uint256).max      *)
(* succeed, for every set of users and assets, every scale of the          *)
(* arithmetic and every state the pool and its admins can reach, as long   *)
(* as the numbers fit their width.                                         *)
(*                                                                         *)
(* The two properties are not invariants without that condition: an index  *)
(* or a rate that outgrows its 128 bits makes every operation on the       *)
(* reserve revert, and an admin can set rates and factors that no          *)
(* operation survives. The conditions name all that can go wrong, and the  *)
(* proofs show that nothing else can: no rounding, no subtraction of       *)
(* supplies, balances or debts and no price stands between a user and the  *)
(* exit. The condition that makes the debt shown the debt that is burnt,   *)
(* Earning, is also what keeps the interest shown from being forgiven.     *)
(*                                                                         *)
(* Nor can an account that is unhealthy escape: under the same conditions  *)
(* and a bonus above 100%, liquidationCall() against any of its collateral *)
(* worth a unit of the debt succeeds for whoever holds the funds.          *)
(*                                                                         *)
(* And there is something to leave with: as long as no interest accrues, a *)
(* reserve has all that is claimed of it. Its surplus and what the flash   *)
(* loans in flight owe, covered, never falls: each operation adds as much  *)
(* to what the reserve holds and is owed as to what it owes, and a flash   *)
(* loan takes out what it then owes. Terms under which no interest ever    *)
(* accrues are terms on the constants, FreeTerms: Calm is the invariant    *)
(* that keeps a pool listed on them there.                                 *)
(***************************************************************************)
EXTENDS ConfiguratorProofs

\* Both indexes still fit 128 bits when they are brought up to the block.
IndexesFit ==
    \A a \in Assets :
      /\ newLiquidityIndex(reserves[a], now) <= MaxUint128
      /\ newVariableBorrowIndex(reserves[a], now) <= MaxUint128

\* The rate leaves the rounding two rays of its 128 bits.
roomy(rate) == rate + 2 * RAY <= MaxUint128

\* The settings of every reserve, and the average of its stable debts, name only
\* rates that fit.
RatesFit ==
    \A a \in Assets :
      LET st == config[a].strategy
      IN  /\ config[a].reserveFactor <= PERCENTAGE_FACTOR
          /\ roomy(getMaxVariableBorrowRate(st))
          /\ marketRates[a] + st.s1 + st.s2 <= MaxUint128
          /\ roomy(reserves[a].sAvg)

\* So does the average rate that is left when a user repays the stable debt.
AveragesFit ==
    \A a \in Assets, u \in Users :
      LET debt == stableDebtOf(a, u)
      IN  debt > 0 => roomy(reserveRepaid(a, u, debt, "stable").sAvg)

\* Nobody holds more of an asset than 256 bits can say.
WalletsFit == \A a \in Assets, u \in Users : wallet[a][u] <= MaxUint

\* A reserve with variable debt earns a liquidity rate, or was updated in this
\* block. Without one, as with a reserve factor of 100%, the debt shown grows and
\* the index that burns it does not.
Earning ==
    \A a \in Assets :
      LET m == reserves[a]
      IN  \/ m.vSupply = 0
          \/ m.currentLiquidityRate > 0
          \/ m.lastUpdateTimestamp = now

-----------------------------------------------------------------------------
(* Accrual and rates                                                       *)

\* The accrual that every operation starts with goes through, and what it leaves
\* of the reserve. Nobody has less than before, the treasury more.
LEMMA AccrueSucceeds ==
    ASSUME Inv, IndexesFit, NEW a \in Assets, NEW n, n = accrue(reserves[a], a)
    PROVE  /\ accrueOK(reserves[a], a)
           /\ Accrued(n, now) /\ sameDebts(reserves[a], n) /\ sameStable(reserves[a], n)
           /\ n.avail = reserves[a].avail /\ n.sAvg = reserves[a].sAvg
           /\ n.liquidityIndex = getNormalizedIncome(reserves[a], now)
           /\ n.variableBorrowIndex = newVariableBorrowIndex(reserves[a], now)
           /\ \A u \in Users : reserves[a].l[u] <= n.l[u]
<1> DEFINE m == reserves[a]
<1>1. Good(m, now) /\ now \in Nat /\ config[a].reserveFactor \in Nat
  BY ReserveFacts
<1>2. /\ newLiquidityIndex(m, now) <= MaxUint128
      /\ newVariableBorrowIndex(m, now) <= MaxUint128
  BY DEF IndexesFit
<1>3. \A u \in Users : m.l[u] \in Nat
  BY <1>1 DEF Good, Market
<1> HIDE DEF m
<1>4. accrueOK(m, a)
  BY <1>1, <1>2, AccrualSucceeds DEF accrueOK
<1>5. n = accrue(m, a)
  BY DEF m
<1>6. /\ Accrued(n, now) /\ sameDebts(m, n) /\ sameStable(m, n)
      /\ n.avail = m.avail /\ n.sAvg = m.sAvg
      /\ n.liquidityIndex = getNormalizedIncome(m, now)
      /\ n.variableBorrowIndex = newVariableBorrowIndex(m, now)
      /\ \A w \in Users \ {Treasury} : n.l[w] = m.l[w]
      /\ m.l[Treasury] <= n.l[Treasury]
  BY <1>1, <1>4, <1>5, AccrueGood
<1>7. \A u \in Users : m.l[u] <= n.l[u]
  <2>1. ASSUME NEW u \in Users
        PROVE  m.l[u] <= n.l[u]
    <3>1. CASE u = Treasury
      BY <1>6, <3>1
    <3>2. CASE u # Treasury
      BY <1>3, <1>6, <3>2
    <3> QED
      BY <3>1, <3>2
  <2> QED
    BY <2>1
<1> QED
  BY <1>4, <1>6, <1>7 DEF m

\* The rates are recalculated on any state of a reserve whose average fits.
LEMMA RatesGoThrough ==
    ASSUME Inv, RatesFit, NEW a \in Assets, NEW m, Good(m, now), roomy(m.sAvg),
           NEW added \in Nat, NEW taken \in Nat, taken <= m.avail + added
    PROVE  ratesOK(m, a, added, taken)
<1>1. /\ now \in Nat /\ config[a].reserveFactor \in Nat
      /\ config[a].strategy \in Strategy /\ marketRates[a] \in Nat
  BY ReserveFacts
<1> DEFINE st == config[a].strategy
<1>2. /\ config[a].reserveFactor <= PERCENTAGE_FACTOR
      /\ getMaxVariableBorrowRate(st) + 2 * RAY <= MaxUint128
      /\ marketRates[a] + st.s1 + st.s2 <= MaxUint128
      /\ m.sAvg + 2 * RAY <= MaxUint128
  BY DEF RatesFit, roomy
<1> QED
  BY <1>1, <1>2, RatesSucceed DEF ratesOK

-----------------------------------------------------------------------------
(* Withdrawing                                                             *)

\* On a market at least as large as the balance was scaled up from, burning the
\* balance shown goes through: it burns exactly the scaled balance.
LEMMA WholeBalanceBurns ==
    ASSUME NEW t \in Nat, NEW n, Good(n, t), NEW u \in Users,
           NEW x \in Nat, x # 0, x <= n.l[u], NEW i \in Nat, RAY <= i,
           rayMul(x, i) <= n.avail
    PROVE  lBurnOK(n, u, rayMul(x, i), i)
<1>1. rayDiv(rayMul(x, i), i) = x
  BY RayDivUndoes
<1>2. \A w \in Users : n.l[w] \in Nat
  BY DEF Good, Market
<1>3. n.l[u] <= n.lSupply /\ n.lSupply \in Nat
  BY <1>2, SumBound, UsersAssumption DEF Good, addsUp, Market
<1>4. x <= n.lSupply
  BY <1>2, <1>3
<1> QED
  BY <1>1, <1>4 DEF lBurnOK

\* withdraw() with type(uint256).max by a user without debt.
LEMMA WithdrawGoesThrough ==
    ASSUME Inv, IndexesFit, RatesFit, NEW u \in Users, NEW a \in Assets,
           whenNotPaused, config[a].active, usersConfig[u].borrowing = {},
           0 < lBalanceOf(reserves[a], u, now),
           lBalanceOf(reserves[a], u, now) <= reserves[a].avail
    PROVE  withdrawOK(u, a, MaxUint)
<1> DEFINE m == reserves[a]
           balance == lBalanceOf(m, u, now)
           n == accrue(m, a)
           r == withRates(n, a, 0, balance)
           i == getNormalizedIncome(m, now)
<1>1. Good(m, now) /\ now \in Nat
  BY ReserveFacts
<1>2. balance \in Nat /\ m.avail \in Nat /\ m.l[u] \in Nat
  BY <1>1, Balances DEF Good, Market
<1>3. balance = rayMul(m.l[u], i)
  BY DEF lBalanceOf
<1>4. i \in Nat /\ RAY <= i
  <2>1. m.liquidityIndex \in Nat /\ RAY <= m.liquidityIndex
    BY <1>1 DEF Good, aboveRay, Market
  <2> HIDE DEF m
  <2> QED
    BY <1>1, <2>1, NormalizedIncome, RayAssumption
<1>5. /\ accrueOK(m, a) /\ Accrued(n, now)
      /\ n.avail = m.avail /\ n.sAvg = m.sAvg /\ n.liquidityIndex = i
      /\ m.l[u] <= n.l[u]
  BY AccrueSucceeds
<1>6. Good(n, now) /\ roomy(n.sAvg)
  BY <1>5 DEF Accrued, RatesFit
<1>7. balance <= n.avail + 0 /\ 0 < balance
  BY <1>2, <1>5
<1> HIDE DEF n, balance, i
<1>8. ratesOK(n, a, 0, balance)
  BY <1>2, <1>6, <1>7, RatesGoThrough
<1>9. /\ Good(r, now) /\ sameClock(n, r) /\ r.avail = n.avail /\ r.l = n.l
  BY <1>2, <1>6, <1>8, RatesGood
<1>10. m.l[u] # 0
  BY <1>3, <1>4, <1>7, RayMulZero
<1> HIDE DEF r, m
<1>11. lBurnOK(r, u, balance, i)
  <2>1. m.l[u] <= r.l[u] /\ rayMul(m.l[u], i) <= r.avail
    BY <1>2, <1>3, <1>5, <1>7, <1>9
  <2>2. lBurnOK(r, u, rayMul(m.l[u], i), i)
    BY <1>1, <1>2, <1>4, <1>9, <1>10, <2>1, WholeBalanceBurns
  <2> QED
    BY <1>3, <2>2
<1>12. r.liquidityIndex = i
  BY <1>5, <1>9 DEF sameClock
<1>13. lBurnOK(r, u, balance, r.liquidityIndex)
  BY <1>11, <1>12
<1>14. validateWithdraw(a, u, balance, balance)
  BY <1>2, <1>7 DEF validateWithdraw, balanceDecreaseAllowed
<1>15. /\ amountToWithdraw(u, a, MaxUint) = balance
       /\ reserveToWithdraw(a, balance) = r
       /\ lBalanceOf(reserves[a], u, now) = balance
       /\ accrueOK(reserves[a], a) /\ ratesOK(accrue(reserves[a], a), a, 0, balance)
  BY <1>5, <1>8 DEF amountToWithdraw, reserveToWithdraw, m, n, r, balance
<1> QED
  BY <1>13, <1>14, <1>15 DEF withdrawOK

(* A depositor without debt can always leave with everything the reserve   *)
(* holds of it: the accrual, the new rates and the burn go through, the    *)
(* scaled balance that is burnt is exactly the depositor's, the supply     *)
(* covers it because it is the sum of the balances, and no price is read.  *)
(* Only numbers that outgrow their width can stop it.                      *)
THEOREM FreeToLeave == Spec => [](IndexesFit /\ RatesFit => DebtFreeCanExit)
<1>1. Inv => (IndexesFit /\ RatesFit => DebtFreeCanExit)
  BY WithdrawGoesThrough DEF DebtFreeCanExit
<1> QED
  BY Invariance, <1>1, PTL

(* The same whatever the admins do in between, short of pausing the pool   *)
(* or deactivating the reserve.                                            *)
THEOREM ConfiguredFreeToLeave ==
    ConfiguredSpec => [](IndexesFit /\ RatesFit => DebtFreeCanExit)
<1>1. ConfiguredInv => (IndexesFit /\ RatesFit => DebtFreeCanExit)
  BY WithdrawGoesThrough DEF DebtFreeCanExit, ConfiguredInv
<1> QED
  BY ConfiguredInvariance, <1>1, PTL

-----------------------------------------------------------------------------
(* Repaying                                                                *)

\* While a reserve earns, the index that the debt is shown with is the one that
\* the accrual stores and the debt is burnt with.
LEMMA DebtIsBooked ==
    ASSUME NEW t \in Nat, NEW m, Good(m, t), m.vSupply # 0,
           m.currentLiquidityRate > 0 \/ m.lastUpdateTimestamp = t
    PROVE  newVariableBorrowIndex(m, t) = getNormalizedDebt(m, t)
<1> DEFINE g == calculateCompoundedInterest(m.currentVariableBorrowRate,
                                            m.lastUpdateTimestamp, t)
<1>1. m.variableBorrowIndex \in Nat /\ m.lastUpdateTimestamp \in Nat
  BY DEF Good, Market
<1>2. rayMul(RAY, m.variableBorrowIndex) = m.variableBorrowIndex
  BY <1>1, RayMulOne
<1>3. CASE m.lastUpdateTimestamp = t
  <2>1. g = RAY
    BY <1>1, <1>3 DEF calculateCompoundedInterest
  <2> HIDE DEF g
  <2> QED
    BY <1>2, <1>3, <2>1 DEF newVariableBorrowIndex, getNormalizedDebt, g
<1>4. CASE m.lastUpdateTimestamp # t
  BY <1>4 DEF newVariableBorrowIndex, getNormalizedDebt
<1> QED
  BY <1>3, <1>4

\* Burning at most the variable debt shown burns at most the scaled debt, which
\* the supply covers, and leaves the liquidity and the stable debts alone.
LEMMA PartVariableBurns ==
    ASSUME NEW t \in Nat, NEW n, Good(n, t), NEW u \in Users, NEW i \in Nat, RAY <= i,
           NEW x \in Nat, x <= rayMul(n.v[u], i), rayDiv(x, i) # 0,
           NEW k, k = vBurn(n, u, x, i)
    PROVE  /\ vBurnOK(n, u, x, i)
           /\ k.avail = n.avail /\ k.sAvg = n.sAvg
<1>1. \A w \in Users : n.v[w] \in Nat
  BY DEF Good, Market
<1>2. rayDiv(rayMul(n.v[u], i), i) = n.v[u] /\ rayMul(n.v[u], i) \in Nat
  BY <1>1, RayDivUndoes, RayMulNat
<1>3. n.v[u] <= n.vSupply /\ n.vSupply \in Nat
  BY <1>1, SumBound, UsersAssumption DEF Good, addsUp, Market
<1>4. i > 0
  BY RayAssumption
<1>5. rayDiv(x, i) \in Nat /\ rayDiv(x, i) <= rayDiv(rayMul(n.v[u], i), i)
  <2> DEFINE y == rayMul(n.v[u], i)
  <2>1. y \in Nat /\ x <= y
    BY <1>2
  <2> HIDE DEF y
  <2>2. rayDiv(x, i) \in Nat /\ rayDiv(x, i) <= rayDiv(y, i)
    BY <1>4, <2>1, RayDivMonotone
  <2> QED
    BY <2>2 DEF y
<1>6. vBurnOK(n, u, x, i)
  <2> DEFINE y == rayDiv(x, i)
             z == n.v[u]
             w == n.vSupply
  <2>1. y \in Nat /\ z \in Nat /\ w \in Nat /\ y <= z /\ z <= w
    BY <1>1, <1>2, <1>3, <1>5
  <2> HIDE DEF y, z, w
  <2>2. y <= w
    BY <2>1
  <2> QED
    BY <2>1, <2>2 DEF vBurnOK, y, z, w
<1> DEFINE newV == [n.v EXCEPT ![u] = @ - rayDiv(x, i)]
           newSupply == n.vSupply - rayDiv(x, i)
<1>7. k = [n EXCEPT !.v = newV, !.vSupply = newSupply] /\ n \in Market
  BY DEF vBurn, Good
<1> HIDE DEF newV, newSupply
<1>8. k.avail = n.avail /\ k.sAvg = n.sAvg
  BY <1>7 DEF Market
<1> QED
  BY <1>6, <1>8

\* The variable debt shown is the scaled debt at the index it is burnt at.
LEMMA DebtAtIndex ==
    ASSUME Inv, Earning, NEW a \in Assets, NEW u \in Users, variableDebtOf(a, u) > 0
    PROVE  /\ reserves[a].v[u] \in Nat /\ reserves[a].v[u] # 0
           /\ newVariableBorrowIndex(reserves[a], now) \in Nat
           /\ RAY <= newVariableBorrowIndex(reserves[a], now)
           /\ variableDebtOf(a, u)
                = rayMul(reserves[a].v[u], newVariableBorrowIndex(reserves[a], now))
<1> DEFINE m == reserves[a]
           debt == variableDebtOf(a, u)
           i == newVariableBorrowIndex(m, now)
<1>1. Good(m, now) /\ now \in Nat
  BY ReserveFacts
<1>2. debt = rayMul(m.v[u], getNormalizedDebt(m, now))
  BY DEF variableDebtOf, vBalanceOf
<1>3. \A w \in Users : m.v[w] \in Nat
  BY <1>1 DEF Good, Market
<1>4. m.v[u] # 0
  <2>1. rayMul(0, getNormalizedDebt(m, now)) = 0 /\ debt > 0
    BY <1>1, NormalizedDebt, RayMulZero
  <2> HIDE DEF debt, m
  <2> QED
    BY <1>2, <2>1
<1>5. m.vSupply # 0
  <2>1. m.v[u] <= m.vSupply
    BY <1>1, <1>3, SumBound, UsersAssumption DEF Good, addsUp
  <2> HIDE DEF m
  <2> QED
    BY <1>3, <1>4, <2>1
<1>6. i = getNormalizedDebt(m, now)
  BY <1>1, <1>5, DebtIsBooked DEF Earning
<1>7. i \in Nat /\ RAY <= i
  <2>1. m.variableBorrowIndex \in Nat /\ RAY <= m.variableBorrowIndex
    BY <1>1 DEF Good, aboveRay, Market
  <2>2. i \in Nat /\ m.variableBorrowIndex <= i
    BY <1>1, NewIndexes
  <2> HIDE DEF i, m
  <2> QED
    BY <2>1, <2>2, RayAssumption
<1> HIDE DEF i, m, debt
<1>8. debt = rayMul(m.v[u], i)
  BY <1>2, <1>6
<1> QED
  BY <1>3, <1>4, <1>7, <1>8 DEF i, m, debt

\* A reserve's debt of a user, or what is paid of it, is burnt. What is paid of a
\* variable debt must be worth a scaled unit; the whole debt always is.
LEMMA DebtBurns ==
    ASSUME Inv, IndexesFit, RatesFit, Earning, NEW a \in Assets, NEW u \in Users,
           NEW mode \in DebtModes,
           NEW p \in Nat, p > 0, p <= debtOf(a, u, mode),
           mode = "stable" => roomy(reserveRepaid(a, u, p, "stable").sAvg),
           mode # "stable" => \/ p = debtOf(a, u, mode)
                              \/ rayDiv(p, newVariableBorrowIndex(reserves[a], now)) # 0
    PROVE  /\ burnDebtOK(accrue(reserves[a], a), u, p, mode)
           /\ roomy(reserveRepaid(a, u, p, mode).sAvg)
<1> DEFINE m == reserves[a]
           n == accrue(m, a)
           k == burnDebt(n, u, p, mode)
<1>1. Good(m, now) /\ now \in Nat
  BY ReserveFacts
<1>2. /\ Accrued(n, now) /\ sameDebts(m, n) /\ sameStable(m, n) /\ n.sAvg = m.sAvg
      /\ n.variableBorrowIndex = newVariableBorrowIndex(m, now)
  BY AccrueSucceeds
<1>3. Good(n, now) /\ roomy(n.sAvg)
  BY <1>2 DEF Accrued, RatesFit
<1>4. burnDebtOK(n, u, p, mode) /\ roomy(k.sAvg)
  <2>1. CASE mode = "stable"
    <3>1. debtOf(a, u, mode) = sBalanceOf(m, u, now)
      BY <2>1 DEF debtOf, stableDebtOf
    <3>2. sBalanceOf(n, u, now) = sBalanceOf(m, u, now)
      BY <1>2, StableUnmoved
    <3>3. sBurnOK(n, u, p, now)
      <4> HIDE DEF n, m
      <4> QED
        BY <3>1, <3>2 DEF sBurnOK
    <3>4. k = reserveRepaid(a, u, p, "stable")
      BY <2>1 DEF reserveRepaid
    <3> HIDE DEF k
    <3>5. roomy(k.sAvg)
      BY <2>1, <3>4
    <3> QED
      BY <2>1, <3>3, <3>5 DEF burnDebtOK
  <2>2. CASE mode # "stable"
    <3> DEFINE i == n.variableBorrowIndex
               debt == variableDebtOf(a, u)
    <3>1. debtOf(a, u, mode) = debt /\ debt \in Nat
      BY <2>2, DebtsNat DEF debtOf
    <3>2. debt > 0
      <4> HIDE DEF debt
      <4> QED
        BY <3>1
    <3>3. /\ m.v[u] \in Nat /\ m.v[u] # 0
          /\ newVariableBorrowIndex(m, now) \in Nat
          /\ RAY <= newVariableBorrowIndex(m, now)
          /\ debt = rayMul(m.v[u], newVariableBorrowIndex(m, now))
      BY <3>2, DebtAtIndex
    <3>4. n.v[u] = m.v[u]
      BY <1>2 DEF sameDebts
    <3>5. i \in Nat /\ RAY <= i /\ i > 0 /\ debt = rayMul(n.v[u], i)
      <4>1. i = newVariableBorrowIndex(m, now)
        BY <1>2
      <4> HIDE DEF i, debt, m, n
      <4> QED
        BY <3>3, <3>4, <4>1, RayAssumption
    <3>6. k = vBurn(n, u, p, i)
      BY <2>2 DEF burnDebt
    <3>7. rayDiv(p, i) # 0
      <4>1. CASE p = debt
        <5>1. rayDiv(rayMul(n.v[u], i), i) = n.v[u]
          <6>1. n.v[u] \in Nat
            BY <3>3, <3>4
          <6> HIDE DEF i, n
          <6> QED
            BY <3>5, <6>1, RayDivUndoes
        <5> HIDE DEF i, n, m, debt
        <5> QED
          BY <3>3, <3>4, <3>5, <4>1, <5>1
      <4>2. CASE p # debt
        BY <1>2, <2>2, <3>1, <4>2
      <4> QED
        BY <4>1, <4>2
    <3> HIDE DEF m, n, k, debt, i
    <3>8. p <= rayMul(n.v[u], i)
      BY <3>1, <3>5
    <3>9. vBurnOK(n, u, p, i) /\ k.sAvg = n.sAvg
      BY <1>1, <1>3, <3>5, <3>6, <3>7, <3>8, PartVariableBurns
    <3> QED
      BY <1>3, <2>2, <3>9 DEF burnDebtOK, i
  <2> QED
    BY <2>1, <2>2
<1> QED
  BY <1>4 DEF reserveRepaid

\* repay() of any part of a debt of either kind, by anybody with the funds.
LEMMA PaymentGoesThrough ==
    ASSUME Inv, IndexesFit, RatesFit, Earning,
           NEW a \in Assets, NEW u \in Users, NEW mode \in DebtModes,
           NEW sender \in Users, NEW amount \in Nat, amount # 0,
           amount # MaxUint \/ sender = u,
           NEW p, p = min(amount, debtOf(a, u, mode)), p > 0, p <= wallet[a][sender],
           whenNotPaused, config[a].active,
           mode = "stable" => roomy(reserveRepaid(a, u, p, "stable").sAvg),
           mode # "stable" => \/ p = debtOf(a, u, mode)
                              \/ rayDiv(p, newVariableBorrowIndex(reserves[a], now)) # 0
    PROVE  repayOK(sender, a, amount, mode, u)
<1> DEFINE m == reserves[a]
           debt == debtOf(a, u, mode)
           n == accrue(m, a)
           k == burnDebt(n, u, p, mode)
<1>1. Good(m, now) /\ now \in Nat
  BY ReserveFacts
<1>2. debt \in Nat /\ stableDebtOf(a, u) \in Nat /\ variableDebtOf(a, u) \in Nat
  <2>1. stableDebtOf(a, u) \in Nat /\ variableDebtOf(a, u) \in Nat
    BY DebtsNat
  <2> QED
    BY <2>1 DEF debtOf
<1>3. p \in Nat /\ p <= debt /\ debt > 0
  <2>1. p = min(amount, debt)
    OBVIOUS
  <2> HIDE DEF debt
  <2> QED
    BY <1>2, <2>1 DEF min
<1>4. /\ accrueOK(m, a) /\ Accrued(n, now) /\ n.avail = m.avail
  BY AccrueSucceeds
<1>5. burnDebtOK(n, u, p, mode) /\ roomy(k.sAvg)
  <2>1. burnDebtOK(n, u, p, mode) /\ roomy(reserveRepaid(a, u, p, mode).sAvg)
    BY <1>3, DebtBurns
  <2> QED
    BY <2>1 DEF reserveRepaid
<1>6. validateRepay(a, sender, amount, mode, u, stableDebtOf(a, u), variableDebtOf(a, u))
  <2>1. mode = "stable" \/ mode = "variable"
    BY DEF DebtModes, InterestRateMode
  <2>2. amount > 0
    OBVIOUS
  <2>3. \/ stableDebtOf(a, u) > 0 /\ mode = "stable"
        \/ variableDebtOf(a, u) > 0 /\ mode = "variable"
    BY <1>3, <2>1 DEF debtOf
  <2> QED
    BY <2>2, <2>3 DEF validateRepay
<1> HIDE DEF debt, n
<1>7. Accrued(k, now) /\ k.avail = n.avail
  BY <1>3, <1>4, <1>5, BurnDebt
<1>8. Good(k, now) /\ k.avail \in Nat
  BY <1>7 DEF Accrued, Good, Market
<1> HIDE DEF k
<1>9. ratesOK(k, a, p, 0)
  <2>1. 0 <= k.avail + p
    BY <1>3, <1>8
  <2> QED
    BY <1>3, <1>5, <1>8, <2>1, RatesGoThrough
<1>10. k = reserveRepaid(a, u, p, mode)
  BY DEF k, n, m, reserveRepaid
<1> QED
  BY <1>4, <1>5, <1>6, <1>9, <1>10 DEF repayOK, debt, n, m

\* repay() with type(uint256).max of the user's own debt of either kind.
LEMMA RepayGoesThrough ==
    ASSUME Inv, IndexesFit, RatesFit, AveragesFit, WalletsFit, Earning,
           NEW u \in Users, NEW a \in Assets, NEW mode \in DebtModes,
           whenNotPaused, config[a].active,
           0 < debtOf(a, u, mode), debtOf(a, u, mode) <= wallet[a][u]
    PROVE  repayOK(u, a, MaxUint, mode, u)
<1> DEFINE debt == debtOf(a, u, mode)
<1>1. debt \in Nat /\ stableDebtOf(a, u) \in Nat
  <2>1. stableDebtOf(a, u) \in Nat /\ variableDebtOf(a, u) \in Nat
    BY DebtsNat
  <2> QED
    BY <2>1 DEF debtOf
<1>2. debt = min(MaxUint, debt) /\ MaxUint # 0 /\ MaxUint \in Nat
  <2>1. wallet[a][u] \in Nat /\ wallet[a][u] <= MaxUint
    BY PoolTyped DEF WalletsFit
  <2>2. MaxUint \in Nat /\ MaxUint # 0
    BY UintAssumption
  <2> HIDE DEF debt
  <2>3. debt <= MaxUint
    BY <1>1, <2>1, <2>2 DEF debt
  <2> QED
    BY <1>1, <2>2, <2>3 DEF min
<1>3. mode = "stable" => roomy(reserveRepaid(a, u, debt, "stable").sAvg)
  <2>1. mode = "stable" => debt = stableDebtOf(a, u)
    BY DEF debtOf
  <2> QED
    BY <2>1 DEF AveragesFit
<1> QED
  BY <1>1, <1>2, <1>3, PaymentGoesThrough

(* A borrower with the funds can always repay the whole debt of a kind,    *)
(* whatever the accrual in the same call adds: the stable debt is read the *)
(* same before and after it, and burning the variable debt shown burns     *)
(* exactly the scaled debt. The one condition besides the width of the     *)
(* numbers is that the debt shown is booked, and the run on a reserve      *)
(* factor of 100% shows what happens without it.                           *)
THEOREM DebtsRepayable ==
    Spec => [](IndexesFit /\ RatesFit /\ AveragesFit /\ WalletsFit /\ Earning
                 => WholeDebtRepayable)
<1>1. Inv => (IndexesFit /\ RatesFit /\ AveragesFit /\ WalletsFit /\ Earning
                => WholeDebtRepayable)
  BY RepayGoesThrough
  DEF WholeDebtRepayable, debtOf, stableDebtOf, variableDebtOf
<1> QED
  BY Invariance, <1>1, PTL

(* The same whatever the admins do in between.                             *)
THEOREM ConfiguredDebtsRepayable ==
    ConfiguredSpec => [](IndexesFit /\ RatesFit /\ AveragesFit /\ WalletsFit /\ Earning
                           => WholeDebtRepayable)
<1>1. ConfiguredInv => (IndexesFit /\ RatesFit /\ AveragesFit /\ WalletsFit /\ Earning
                          => WholeDebtRepayable)
  BY RepayGoesThrough
  DEF WholeDebtRepayable, debtOf, stableDebtOf, variableDebtOf, ConfiguredInv
<1> QED
  BY ConfiguredInvariance, <1>1, PTL

-----------------------------------------------------------------------------
(* Liquidating                                                             *)

\* The flagged collateral of an account is a finite set of reserves.
LEMMA CollateralFinite ==
    ASSUME Inv, NEW u \in Users
    PROVE  /\ IsFiniteSet(collateralOf(u)) /\ collateralOf(u) \subseteq Assets
           /\ IsFiniteSet(usersConfig[u].borrowing) /\ usersConfig[u].borrowing \subseteq Assets
<1>1. usersConfig[u] \in UserConfiguration
  BY DEF Inv, TypeOK
<1>2. usersConfig[u].collateral \subseteq Assets /\ usersConfig[u].borrowing \subseteq Assets
  BY <1>1 DEF UserConfiguration
<1>3. collateralOf(u) \subseteq Assets
  BY <1>2 DEF collateralOf
<1> QED
  BY <1>2, <1>3, AssetsAssumption, FS_Subset

\* The value of an amount is a natural number.
LEMMA ValueNat ==
    ASSUME Inv, NEW a \in Assets, NEW x \in Nat
    PROVE  toETH(a, x) \in Nat
<1>1. prices[a] \in Nat /\ config[a] \in ReserveConfiguration
  BY DEF Inv, TypeOK
<1>2. config[a].tokenUnit \in Nat /\ config[a].tokenUnit > 0
  BY <1>1 DEF ReserveConfiguration
<1>3. prices[a] * x \in Nat
  BY <1>1
<1> QED
  BY <1>2, <1>3, DivNat DEF toETH

\* The health factor of an account is a number.
LEMMA HealthFactorInt ==
    ASSUME Inv, NEW u \in Users
    PROVE  healthFactor(reserves, u) \in Int
<1> DEFINE C == collateralOf(u)
           B == usersConfig[u].borrowing
           value(a)    == toETH(a, lBalanceOf(reserves[a], u, now))
           owed(a)     == toETH(a, sBalanceOf(reserves[a], u, now)
                                     + vBalanceOf(reserves[a], u, now))
           weightLt(a) == value(a) * config[a].liquidationThreshold
           f == [a \in C |-> value(a)]
           g == [a \in B |-> owed(a)]
           w == [a \in C |-> weightLt(a)]
<1>1. /\ IsFiniteSet(C) /\ C \subseteq Assets /\ IsFiniteSet(B) /\ B \subseteq Assets
  BY CollateralFinite
<1>2. MapThenSumSet(value, C) = sumOver(f, C)
  <2> DEFINE step(h, s) == IF s = {} THEN 0
                           ELSE value(CHOOSE x \in s : TRUE) + h[s \ {CHOOSE x \in s : TRUE}]
             h0 == CHOOSE h : h = [s \in SUBSET C |-> step(h, s)]
  <2>1. ASSUME NEW h
        PROVE  [s \in SUBSET C |-> step(h, s)] = [s \in SUBSET C |-> sumStep(f, h, s)]
    <3>1. ASSUME NEW s \in SUBSET C
          PROVE  step(h, s) = sumStep(f, h, s)
      BY DEF sumStep, pick
    <3> HIDE DEF step
    <3> QED
      BY <3>1
  <2>2. Sums(f, C, sumsOf(f, C))
    BY <1>1, SumsExist DEF sumsOf
  <2>3. h0 = [s \in SUBSET C |-> step(h0, s)]
    <3>1. \E h : h = [s \in SUBSET C |-> step(h, s)]
      <4> HIDE DEF step, f
      <4> QED
        BY <2>1, <2>2 DEF Sums
    <3> HIDE DEF step
    <3> QED
      BY <3>1
  <2>4. h0 = sumsOf(f, C)
    <3> HIDE DEF step, h0, f
    <3> QED
      BY <1>1, <2>1, <2>2, <2>3, SumsUnique DEF Sums
  <2>5. MapThenSumSet(value, C) = h0[C]
    BY DEF MapThenSumSet, MapThenFoldSet
  <2> QED
    BY <2>4, <2>5 DEF sumOver
<1>3. MapThenSumSet(owed, B) = sumOver(g, B)
  <2> DEFINE step(h, s) == IF s = {} THEN 0
                           ELSE owed(CHOOSE x \in s : TRUE) + h[s \ {CHOOSE x \in s : TRUE}]
             h0 == CHOOSE h : h = [s \in SUBSET B |-> step(h, s)]
  <2>1. ASSUME NEW h
        PROVE  [s \in SUBSET B |-> step(h, s)] = [s \in SUBSET B |-> sumStep(g, h, s)]
    <3>1. ASSUME NEW s \in SUBSET B
          PROVE  step(h, s) = sumStep(g, h, s)
      BY DEF sumStep, pick
    <3> HIDE DEF step
    <3> QED
      BY <3>1
  <2>2. Sums(g, B, sumsOf(g, B))
    BY <1>1, SumsExist DEF sumsOf
  <2>3. h0 = [s \in SUBSET B |-> step(h0, s)]
    <3>1. \E h : h = [s \in SUBSET B |-> step(h, s)]
      <4> HIDE DEF step, g
      <4> QED
        BY <2>1, <2>2 DEF Sums
    <3> HIDE DEF step
    <3> QED
      BY <3>1
  <2>4. h0 = sumsOf(g, B)
    <3>1. Sums(g, B, h0)
      <4> HIDE DEF step, h0, g, B
      <4> QED
        BY <2>1, <2>3 DEF Sums
    <3> HIDE DEF step, h0, g, B
    <3> QED
      BY <1>1, <2>2, <3>1, SumsUnique
  <2>5. MapThenSumSet(owed, B) = h0[B]
    BY DEF MapThenSumSet, MapThenFoldSet
  <2> QED
    BY <2>4, <2>5 DEF sumOver
<1>4. MapThenSumSet(weightLt, C) = sumOver(w, C)
  <2> DEFINE step(h, s) == IF s = {} THEN 0
                           ELSE weightLt(CHOOSE x \in s : TRUE) + h[s \ {CHOOSE x \in s : TRUE}]
             h0 == CHOOSE h : h = [s \in SUBSET C |-> step(h, s)]
  <2>1. ASSUME NEW h
        PROVE  [s \in SUBSET C |-> step(h, s)] = [s \in SUBSET C |-> sumStep(w, h, s)]
    <3>1. ASSUME NEW s \in SUBSET C
          PROVE  step(h, s) = sumStep(w, h, s)
      BY DEF sumStep, pick
    <3> HIDE DEF step
    <3> QED
      BY <3>1
  <2>2. Sums(w, C, sumsOf(w, C))
    BY <1>1, SumsExist DEF sumsOf
  <2>3. h0 = [s \in SUBSET C |-> step(h0, s)]
    <3>1. \E h : h = [s \in SUBSET C |-> step(h, s)]
      <4> HIDE DEF step, w
      <4> QED
        BY <2>1, <2>2 DEF Sums
    <3> HIDE DEF step
    <3> QED
      BY <3>1
  <2>4. h0 = sumsOf(w, C)
    <3> HIDE DEF step, h0, w
    <3> QED
      BY <1>1, <2>1, <2>2, <2>3, SumsUnique DEF Sums
  <2>5. MapThenSumSet(weightLt, C) = h0[C]
    BY DEF MapThenSumSet, MapThenFoldSet
  <2> QED
    BY <2>4, <2>5 DEF sumOver
<1> DEFINE collateral == MapThenSumSet(value, C)
           debt       == MapThenSumSet(owed, B)
           threshold  == IF collateral > 0 THEN MapThenSumSet(weightLt, C) \div collateral
                                           ELSE 0
<1>5. collateral \in Nat
  <2>1. \A a \in C : f[a] \in Nat
    <3>1. ASSUME NEW a \in C
          PROVE  value(a) \in Nat
      BY <1>1, ReserveFacts, Balances, ValueNat
    <3> QED
      BY <3>1
  <2> HIDE DEF f
  <2> QED
    BY <1>1, <1>2, <2>1, SumNat
<1>6. debt \in Nat
  <2>1. \A a \in B : g[a] \in Nat
    <3>1. ASSUME NEW a \in B
          PROVE  owed(a) \in Nat
      <4> DEFINE x == sBalanceOf(reserves[a], u, now) + vBalanceOf(reserves[a], u, now)
      <4>1. a \in Assets /\ x \in Nat
        BY <1>1, ReserveFacts, Balances
      <4> HIDE DEF x
      <4>2. toETH(a, x) \in Nat
        BY <4>1, ValueNat
      <4> QED
        BY <4>2 DEF x
    <3> QED
      BY <3>1
  <2> HIDE DEF g
  <2> QED
    BY <1>1, <1>3, <2>1, SumNat
<1>7. MapThenSumSet(weightLt, C) \in Nat
  <2>1. \A a \in C : w[a] \in Nat
    <3>1. ASSUME NEW a \in C
          PROVE  weightLt(a) \in Nat
      <4>1. a \in Assets /\ value(a) \in Nat
        BY <1>1, ReserveFacts, Balances, ValueNat
      <4>2. config[a].liquidationThreshold \in Nat
        BY <4>1 DEF Inv, TypeOK, ReserveConfiguration
      <4> HIDE DEF value
      <4> QED
        BY <4>1, <4>2
    <3> QED
      BY <3>1
  <2> HIDE DEF w
  <2> QED
    BY <1>1, <1>4, <2>1, SumNat
<1>8. healthFactor(reserves, u)
        = calculateHealthFactorFromBalances(collateral, debt, threshold)
  BY DEF healthFactor, calculateUserAccountData
<1> HIDE DEF collateral, debt
<1>9. threshold \in Nat
  BY <1>5, <1>7, DivNat
<1> HIDE DEF threshold
<1>10. debt = 0 \/ wadDiv(percentMul(collateral, threshold), debt) \in Int
  <2>1. percentMul(collateral, threshold) \in Nat
    BY <1>5, <1>9, PercentMulNat
  <2> DEFINE x == percentMul(collateral, threshold)
  <2> HIDE DEF x
  <2>2. x \in Nat
    BY <2>1 DEF x
  <2>3. x * WAD + debt \div 2 \in Nat
    <3>1. x * WAD \in Nat /\ debt \div 2 \in Nat
      BY <1>6, <2>2, WadAssumption
    <3> QED
      BY <3>1
  <2>4. debt # 0 => (x * WAD + debt \div 2) \div debt \in Nat
    BY <1>6, <2>3, DivNat
  <2> QED
    BY <2>4 DEF wadDiv, x
<1> QED
  BY <1>8, <1>10, UintAssumption DEF calculateHealthFactorFromBalances

\* Collateral pays its liquidators more than it costs them.
BonusesPaid ==
    \A a \in Assets :
      config[a].liquidationThreshold # 0 => config[a].liquidationBonus > PERCENTAGE_FACTOR

\* The average rate that is left of the stable debts fits whatever part of a debt
\* is repaid.
PartAveragesFit ==
    \A a \in Assets, u \in Users :
      \A x \in 1..stableDebtOf(a, u) : roomy(reserveRepaid(a, u, x, "stable").sAvg)

\* A unit of variable debt is worth a scaled unit.
Burnable == \A a \in Assets : newVariableBorrowIndex(reserves[a], now) <= 2 * RAY

\* A liquidation of all it may take repays at least a unit and no more than the
\* debt, and seizes no more than there is, if the collateral is worth a unit of
\* the debt and its bonus.
LEMMA LiquidatedAmounts ==
    ASSUME Inv, BonusesPaid, NEW u \in Users, NEW d \in Assets, NEW c \in Assets,
           c \in collateralOf(u), priced(c), priced(d),
           NEW debt \in Nat, debt = stableDebtOf(d, u) + variableDebtOf(d, u),
           debt > 0, debt <= MaxUint,
           NEW balance \in Nat, balance = lBalanceOf(reserves[c], u, now),
           percentMul(prices[d] * config[c].tokenUnit, config[c].liquidationBonus)
             <= prices[c] * balance * config[d].tokenUnit,
           NEW amounts, amounts = liquidated(c, d, u, MaxUint)
    PROVE  /\ amounts.debt \in Nat /\ 0 < amounts.debt /\ amounts.debt <= debt
           /\ amounts.collateral \in Nat /\ amounts.collateral <= balance
<1> DEFINE bonus == config[c].liquidationBonus
           cUnit == config[c].tokenUnit
           dUnit == config[d].tokenUnit
           price == prices[d] * cUnit
           worth == prices[c] * balance * dUnit
           wanted == percentMul(debt, 5000)
           most  == percentMul(prices[d] * wanted * cUnit, bonus) \div (prices[c] * dUnit)
           needed == percentDiv(worth \div price, bonus)
           available == _calculateAvailableCollateralToLiquidate(c, d, wanted, balance)
           paid == min(available.debt, wanted)
<1>1. config[c] \in ReserveConfiguration /\ config[d] \in ReserveConfiguration
  BY DEF Inv, TypeOK
<1>2. /\ bonus \in Nat /\ PERCENTAGE_FACTOR <= bonus
      /\ cUnit \in Nat \ {0} /\ dUnit \in Nat \ {0}
  BY <1>1 DEF ReserveConfiguration, BonusesPaid, collateralOf, PERCENTAGE_FACTOR
<1>3. prices[c] \in Nat \ {0} /\ prices[d] \in Nat \ {0}
  BY DEF Inv, TypeOK, priced
<1>4. wanted \in Nat /\ 0 < wanted /\ wanted <= debt
  BY HalfOf
<1>5. min(MaxUint, wanted) = wanted
  <2> HIDE DEF wanted
  <2> QED
    BY <1>4, UintAssumption DEF min
<1>6. available = IF most > balance THEN [collateral |-> balance, debt |-> needed]
                                    ELSE [collateral |-> most, debt |-> wanted]
  BY DEF _calculateAvailableCollateralToLiquidate
<1>7. amounts = [available EXCEPT !.debt = paid]
  BY <1>5 DEF liquidated, LIQUIDATION_CLOSE_FACTOR_PERCENT
<1> HIDE DEF cUnit, dUnit, bonus, wanted
<1>8. /\ price \in Nat /\ price > 0
      /\ prices[c] * dUnit \in Nat /\ prices[c] * dUnit > 0
      /\ prices[c] * balance \in Nat /\ prices[d] * wanted \in Nat
  BY <1>2, <1>3, <1>4
<1>9. worth \in Nat /\ prices[d] * wanted * cUnit \in Nat
  BY <1>2, <1>8, ProductNat
<1>10. percentMul(price, bonus) <= worth
  BY DEF bonus, cUnit, dUnit
<1> HIDE DEF price, worth
<1>11. needed \in Nat /\ needed >= 1
  BY <1>2, <1>8, <1>9, <1>10, BonusPaid
<1>12. most \in Nat
  <2> DEFINE x == prices[d] * wanted * cUnit
             y == prices[c] * dUnit
  <2>1. x \in Nat /\ y \in Nat /\ y > 0
    BY <1>8, <1>9
  <2> HIDE DEF x, y
  <2>2. percentMul(x, bonus) \div y \in Nat
    BY <1>2, <2>1, PercentMulNat, DivNat
  <2> QED
    BY <2>2 DEF x, y
<1> HIDE DEF needed, most, available
<1>13. /\ available \in [collateral : Nat, debt : Nat]
       /\ available.collateral <= balance /\ available.debt >= 1
  BY <1>4, <1>6, <1>11, <1>12
<1>14. paid \in Nat /\ 0 < paid /\ paid <= wanted
  BY <1>4, <1>13 DEF min
<1> HIDE DEF paid
<1>15. amounts.debt = paid /\ amounts.collateral = available.collateral
  BY <1>7, <1>13
<1> QED
  BY <1>4, <1>13, <1>14, <1>15


\* A stable burn reads nothing but the stable debts.
LEMMA StableBurnRead ==
    ASSUME NEW m \in Market, NEW k \in Market, NEW u \in Users, NEW x \in Nat,
           k.s = m.s, k.sRate = m.sRate, k.sTs = m.sTs, k.sSupply = m.sSupply,
           k.sAvg = m.sAvg, k.sSupplyTs = m.sSupplyTs
    PROVE  /\ sBurn(k, u, x, now).sAvg = sBurn(m, u, x, now).sAvg
           /\ sBalanceOf(k, u, now) = sBalanceOf(m, u, now)
<1>1. sBalanceOf(k, u, now) = sBalanceOf(m, u, now)
  BY DEF sBalanceOf
<1>2. sTotalSupply(k, now) = sTotalSupply(m, now)
  BY DEF sTotalSupply
<1> DEFINE average(n) ==
             LET previousSupply == sTotalSupply(n, now)
                 firstTerm      == rayMul(n.sAvg, wadToRay(previousSupply))
                 secondTerm     == rayMul(n.sRate[u], wadToRay(x))
             IN  IF previousSupply <= x \/ secondTerm >= firstTerm THEN 0
                 ELSE rayDiv(firstTerm - secondTerm, wadToRay(previousSupply - x))
<1>3. ASSUME NEW n \in Market
      PROVE  sBurn(n, u, x, now).sAvg = average(n)
  BY DEF sBurn, Market
<1>4. average(k) = average(m)
  BY <1>2
<1> HIDE DEF average
<1> QED
  BY <1>1, <1>3, <1>4

\* The debt a liquidation repays is burnt, variable before stable, on top of the
\* accrual, and the lTokens of the reserve are those the accrual left.
LEMMA LiquidationBurns ==
    ASSUME Inv, IndexesFit, RatesFit, PartAveragesFit, Earning, Burnable,
           NEW d \in Assets, NEW u \in Users,
           NEW x \in Nat, 0 < x, x <= stableDebtOf(d, u) + variableDebtOf(d, u),
           NEW n, n = accrue(reserves[d], d),
           NEW k, k = debtReserveBurnt(d, u, x)
    PROVE  /\ burnLiquidatedDebtOK(n, u, x, variableDebtOf(d, u))
           /\ roomy(k.sAvg) /\ Accrued(k, now) /\ k.avail \in Nat
           /\ k.l = n.l /\ k.liquidityIndex = n.liquidityIndex
<1> DEFINE m == reserves[d]
           vDebt == variableDebtOf(d, u)
           sDebt == stableDebtOf(d, u)
           i == n.variableBorrowIndex
<1>1. Good(m, now) /\ now \in Nat
  BY ReserveFacts
<1>2. vDebt \in Nat /\ sDebt \in Nat
  BY DebtsNat DEF DebtModes, InterestRateMode
<1>3. /\ Accrued(n, now) /\ sameDebts(m, n) /\ sameStable(m, n) /\ n.sAvg = m.sAvg
      /\ n.variableBorrowIndex = newVariableBorrowIndex(m, now)
  BY AccrueSucceeds
<1>4. Good(n, now) /\ n \in Market /\ roomy(n.sAvg) /\ n.v[u] = m.v[u]
  BY <1>3 DEF Accrued, Good, RatesFit, sameDebts
<1>5. i \in Nat /\ i > 0 /\ RAY <= i /\ i <= 2 * RAY
  BY <1>3, <1>4, RayAssumption DEF Burnable, Good, aboveRay, Market
<1>6. vDebt > 0 => vDebt = rayMul(n.v[u], i)
  BY <1>3, <1>4, DebtAtIndex
<1>7. k = burnLiquidatedDebt(n, u, x, vDebt)
  BY DEF debtReserveBurnt
<1> HIDE DEF m, vDebt, sDebt, i
<1>8. ASSUME NEW y \in Nat, y > 0, y <= vDebt
      PROVE  vBurnOK(n, u, y, n.variableBorrowIndex)
  <2>1. y <= rayMul(n.v[u], i)
    BY <1>2, <1>6, <1>8
  <2>2. rayDiv(y, i) # 0
    BY <1>5, <1>8, RayDivCounts
  <2> DEFINE j == vBurn(n, u, y, i)
  <2>3. j = vBurn(n, u, y, i)
    OBVIOUS
  <2> HIDE DEF j
  <2>4. vBurnOK(n, u, y, i)
    BY <1>1, <1>4, <1>5, <1>8, <2>1, <2>2, <2>3, PartVariableBurns
  <2> QED
    BY <2>4 DEF i
<1>9. ASSUME NEW y \in Nat, y > 0, y <= vDebt,
             NEW j, j = vBurn(n, u, y, n.variableBorrowIndex)
      PROVE  /\ Accrued(j, now) /\ j \in Market /\ j.sAvg = n.sAvg
             /\ j.s = n.s /\ j.sRate = n.sRate /\ j.sTs = n.sTs
             /\ j.sSupply = n.sSupply /\ j.sSupplyTs = n.sSupplyTs
             /\ j.l = n.l /\ j.liquidityIndex = n.liquidityIndex
  <2>1. vBurnOK(n, u, y, i) /\ j = vBurn(n, u, y, i)
    BY <1>8, <1>9 DEF i
  <2>2. j \in Market /\ addsUp(j) /\ sameClock(n, j) /\ j.s = n.s /\ j.l = n.l
    BY <1>1, <1>4, <1>5, <1>9, <2>1, VBurn
  <2>3. Accrued(j, now)
    BY <1>1, <1>3, <2>2, SameClockAccrued
  <2>4. /\ j.sAvg = n.sAvg /\ j.sRate = n.sRate
        /\ j.sSupply = n.sSupply
    <3> DEFINE newV == [n.v EXCEPT ![u] = @ - rayDiv(y, i)]
               newSupply == n.vSupply - rayDiv(y, i)
    <3>1. j = [n EXCEPT !.v = newV, !.vSupply = newSupply]
      BY <2>1 DEF vBurn
    <3> HIDE DEF newV, newSupply
    <3> QED
      BY <1>4, <3>1 DEF Market
  <2> QED
    BY <2>2, <2>3, <2>4 DEF sameClock
<1>10. CASE vDebt >= x
  <2>1. k = vBurn(n, u, x, n.variableBorrowIndex)
    BY <1>7, <1>10 DEF burnLiquidatedDebt
  <2>2. vBurnOK(n, u, x, n.variableBorrowIndex)
    BY <1>2, <1>8, <1>10
  <2>3. /\ Accrued(k, now) /\ k \in Market /\ k.sAvg = n.sAvg
        /\ k.l = n.l /\ k.liquidityIndex = n.liquidityIndex
    BY <1>2, <1>9, <1>10, <2>1
  <2> QED
    BY <1>4, <1>10, <2>2, <2>3 DEF burnLiquidatedDebtOK, Market, vDebt
<1>11. CASE ~(vDebt >= x)
  <2> DEFINE j == IF vDebt > 0 THEN vBurn(n, u, vDebt, n.variableBorrowIndex) ELSE n
             y == x - vDebt
  <2>1. y \in 1..sDebt /\ y \in Nat
    BY <1>2, <1>11 DEF sDebt, vDebt
  <2>2. k = sBurn(j, u, y, now)
    BY <1>7, <1>11 DEF burnLiquidatedDebt
  <2>3. /\ Accrued(j, now) /\ j \in Market /\ j.sAvg = n.sAvg
        /\ j.s = n.s /\ j.sRate = n.sRate /\ j.sTs = n.sTs
        /\ j.sSupply = n.sSupply /\ j.sSupplyTs = n.sSupplyTs
        /\ j.l = n.l /\ j.liquidityIndex = n.liquidityIndex
    <3>1. CASE vDebt > 0
      <4>1. j = vBurn(n, u, vDebt, n.variableBorrowIndex)
        BY <3>1
      <4>2. vDebt \in Nat /\ vDebt > 0 /\ vDebt <= vDebt
        BY <1>2, <3>1
      <4> HIDE DEF j
      <4> QED
        BY <1>9, <4>1, <4>2
    <3>2. CASE ~(vDebt > 0)
      BY <1>3, <1>4, <3>2
    <3> QED
      BY <3>1, <3>2
  <2>4. vDebt > 0 => vBurnOK(n, u, vDebt, n.variableBorrowIndex)
    <3>1. vDebt <= vDebt
      BY <1>2
    <3> QED
      BY <1>2, <1>8, <3>1
  <2> HIDE DEF j, y
  <2>5. sBurn(j, u, y, now).sAvg = sBurn(n, u, y, now).sAvg
        /\ sBalanceOf(j, u, now) = sBalanceOf(n, u, now)
    BY <1>4, <2>1, <2>3, StableBurnRead
  <2>6. sBalanceOf(n, u, now) = sDebt
    BY <1>3, StableUnmoved DEF m, sDebt, stableDebtOf
  <2>7. sBurnOK(n, u, y, now) /\ sBurnOK(j, u, y, now)
    BY <2>1, <2>5, <2>6 DEF sBurnOK
  <2>8. roomy(k.sAvg)
    <3>1. sBurn(n, u, y, now) = reserveRepaid(d, u, y, "stable")
      BY DEF reserveRepaid, burnDebt
    <3>2. roomy(sBurn(n, u, y, now).sAvg)
      BY <2>1, <3>1 DEF PartAveragesFit, sDebt
    <3> QED
      BY <2>2, <2>5, <3>2
  <2>9. Accrued(k, now) /\ k.l = j.l /\ k.liquidityIndex = j.liquidityIndex
    BY <1>1, <2>1, <2>2, <2>3, <2>7, SBurn
  <2>10. k.avail \in Nat
    BY <2>9 DEF Accrued, Good, Market
  <2> QED
    BY <1>11, <2>3, <2>4, <2>7, <2>8, <2>9, <2>10 DEF burnLiquidatedDebtOK, vDebt, y
<1> QED
  BY <1>10, <1>11


\* What is seized is there to be seized: in the debt's own reserve nobody has lost
\* lTokens to the accrual, and the balance is shown with the index it is moved at.
LEMMA SeizureGoesThrough ==
    ASSUME NEW t \in Nat, NEW m, Good(m, t), NEW u \in Users,
           NEW k, Good(k, t), m.l[u] <= k.l[u],
           getNormalizedIncome(k, t) = getNormalizedIncome(m, t),
           NEW x \in Nat, x <= lBalanceOf(m, u, t)
    PROVE  lTransferOK(k, u, x, getNormalizedIncome(k, t))
<1> DEFINE i == getNormalizedIncome(m, t)
           y == m.l[u]
           z == k.l[u]
<1>1. m.liquidityIndex \in Nat /\ RAY <= m.liquidityIndex /\ y \in Nat /\ z \in Nat
  BY DEF Good, aboveRay, Market
<1>2. i \in Nat /\ m.liquidityIndex <= i
  BY NormalizedIncome
<1>3. lBalanceOf(m, u, t) = rayMul(y, i)
  BY DEF lBalanceOf
<1> HIDE DEF i, y, z
<1>4. RAY <= i /\ i > 0
  BY <1>1, <1>2, RayAssumption
<1>5. rayDiv(rayMul(y, i), i) = y /\ rayMul(y, i) \in Nat
  BY <1>1, <1>2, <1>4, RayDivUndoes, RayMulNat
<1>6. rayDiv(x, i) \in Nat /\ rayDiv(x, i) <= rayDiv(rayMul(y, i), i)
  <2> DEFINE w == rayMul(y, i)
  <2>1. w \in Nat /\ x <= w
    BY <1>3, <1>5
  <2> HIDE DEF w
  <2>2. rayDiv(x, i) \in Nat /\ rayDiv(x, i) <= rayDiv(w, i)
    BY <1>2, <1>4, <2>1, RayDivMonotone
  <2> QED
    BY <2>2 DEF w
<1>7. rayDiv(x, i) <= z
  <2> DEFINE w == rayDiv(x, i)
  <2>1. w \in Nat /\ w <= y /\ y <= z
    BY <1>5, <1>6 DEF y, z
  <2> HIDE DEF w
  <2>2. w <= z
    BY <1>1, <2>1
  <2> QED
    BY <2>2 DEF w
<1> QED
  BY <1>7 DEF lTransferOK, i, z

\* liquidationCall() with type(uint256).max against an unhealthy account.
LEMMA LiquidationGoesThrough ==
    ASSUME Inv, BonusesPaid, IndexesFit, RatesFit, PartAveragesFit, WalletsFit, Earning,
           Burnable, NEW u \in Users, NEW w \in Users, NEW d \in Assets,
           NEW c \in collateralOf(u),
           whenNotPaused, config[c].active, config[d].active,
           accountPriced(u), ~healthy(u),
           NEW debt, debt = stableDebtOf(d, u) + variableDebtOf(d, u),
           0 < debt, debt <= wallet[d][w],
           percentMul(prices[d] * config[c].tokenUnit, config[c].liquidationBonus)
             <= prices[c] * lBalanceOf(reserves[c], u, now) * config[d].tokenUnit
    PROVE  liquidationCallOK(w, c, d, u, MaxUint, TRUE)
<1> DEFINE m == reserves[d]
           n == accrue(m, d)
           balance == lBalanceOf(reserves[c], u, now)
           amounts == liquidated(c, d, u, MaxUint)
           x == amounts.debt
           k == debtReserveBurnt(d, u, x)
           r == withRates(k, d, x, 0)
           rs == reservesBurnt(d, u, x)
<1>1. c \in Assets /\ IsFiniteSet(collateralOf(u))
  BY CollateralFinite
<1>2. now \in Nat /\ Good(m, now) /\ Good(reserves[c], now)
  BY <1>1, ReserveFacts
<1>3. debt \in Nat /\ stableDebtOf(d, u) \in Nat /\ variableDebtOf(d, u) \in Nat
  BY DebtsNat DEF DebtModes, InterestRateMode
<1>4. stableDebtOf(d, u) > 0 \/ variableDebtOf(d, u) > 0
  BY <1>3
<1>5. priced(c) /\ priced(d)
  <2>1. d \in usersConfig[u].borrowing
    BY <1>3, <1>4, ShownIsFlagged
  <2>2. c \in usersConfig[u].collateral
    BY DEF collateralOf
  <2> QED
    BY <2>1, <2>2 DEF accountPriced
<1>6. wallet[d][w] \in Nat /\ wallet[d][w] <= MaxUint /\ debt <= MaxUint
  <2>1. wallet[d][w] \in Nat /\ wallet[d][w] <= MaxUint
    BY PoolTyped DEF WalletsFit
  <2> QED
    BY <1>3, <2>1, UintAssumption
<1>7. balance \in Nat
  BY <1>2, Balances
<1>8. /\ amounts.debt \in Nat /\ 0 < amounts.debt /\ amounts.debt <= debt
      /\ amounts.collateral \in Nat /\ amounts.collateral <= balance
  <2>1. percentMul(prices[d] * config[c].tokenUnit, config[c].liquidationBonus)
          <= prices[c] * balance * config[d].tokenUnit
    OBVIOUS
  <2>2. amounts = liquidated(c, d, u, MaxUint) /\ balance = lBalanceOf(reserves[c], u, now)
    OBVIOUS
  <2> HIDE DEF amounts, balance
  <2> QED
    BY <1>1, <1>3, <1>5, <1>6, <1>7, <2>1, <2>2, LiquidatedAmounts
<1>9. /\ accrueOK(m, d) /\ Accrued(n, now) /\ n.liquidityIndex = getNormalizedIncome(m, now)
      /\ m.l[u] <= n.l[u]
  BY AccrueSucceeds
<1>10. x \in Nat /\ 0 < x /\ x <= stableDebtOf(d, u) + variableDebtOf(d, u)
  BY <1>8
<1> HIDE DEF x
<1>11. /\ burnLiquidatedDebtOK(n, u, x, variableDebtOf(d, u))
       /\ roomy(k.sAvg) /\ Accrued(k, now) /\ k.avail \in Nat
       /\ k.l = n.l /\ k.liquidityIndex = n.liquidityIndex
  BY <1>10, LiquidationBurns
<1>12. Good(k, now)
  BY <1>11 DEF Accrued
<1>13. rs = [reserves EXCEPT ![d] = r]
  BY DEF reservesBurnt
<1> HIDE DEF k, n
<1>14. ratesOK(k, d, x, 0)
  <2>1. 0 <= k.avail + x
    BY <1>10, <1>11
  <2> QED
    BY <1>10, <1>11, <1>12, <2>1, RatesGoThrough
<1>15. Good(r, now) /\ sameClock(k, r) /\ r.l = k.l
  BY <1>10, <1>12, <1>14, RatesGood
<1> HIDE DEF r, rs
<1>16. reserves \in [Assets -> Market]
  BY DEF Inv, TypeOK
<1>17. lTransferOK(rs[c], u, amounts.collateral, getNormalizedIncome(rs[c], now))
  <2>1. CASE c = d
    <3>1. rs[c] = r
      BY <1>13, <1>16, <2>1
    <3>2. r.lastUpdateTimestamp = now /\ r.liquidityIndex = n.liquidityIndex
      BY <1>11, <1>15 DEF sameClock, Accrued
    <3>3. getNormalizedIncome(r, now) = r.liquidityIndex
      <4>1. r.liquidityIndex \in Nat
        BY <1>15 DEF Good, Market
      <4>2. calculateLinearInterest(r.currentLiquidityRate, now, now) = RAY
        <5>1. r.currentLiquidityRate \in Nat
          BY <1>15 DEF Good, Market
        <5>2. now - now = 0 /\ r.currentLiquidityRate * 0 = 0
          BY <1>2, <5>1
        <5>3. 0 \div SECONDS_PER_YEAR = 0
          BY YearAssumption
        <5> QED
          BY <5>2, <5>3, RayAssumption DEF calculateLinearInterest
      <4> QED
        BY <3>2, <4>1, <4>2, RayMulOne DEF getNormalizedIncome
    <3>4. m.l[u] <= r.l[u] /\ getNormalizedIncome(r, now) = getNormalizedIncome(m, now)
      BY <1>9, <1>11, <1>15, <3>2, <3>3
    <3>5. amounts.collateral <= lBalanceOf(m, u, now)
      BY <1>8, <2>1
    <3> HIDE DEF m, amounts
    <3>6. lTransferOK(r, u, amounts.collateral, getNormalizedIncome(r, now))
      BY <1>2, <1>8, <1>15, <3>4, <3>5, SeizureGoesThrough
    <3> QED
      BY <3>1, <3>6
  <2>2. CASE c # d
    <3>1. rs[c] = reserves[c]
      BY <1>1, <1>13, <1>16, <2>2
    <3>2. reserves[c].l[u] <= reserves[c].l[u]
      <4>1. reserves[c].l[u] \in Nat
        BY <1>2 DEF Good, Market
      <4> QED
        BY <4>1
    <3>3. amounts.collateral <= lBalanceOf(reserves[c], u, now)
      BY <1>8
    <3> HIDE DEF amounts
    <3>4. lTransferOK(reserves[c], u, amounts.collateral,
                      getNormalizedIncome(reserves[c], now))
      BY <1>2, <1>8, <3>2, <3>3, SeizureGoesThrough
    <3> QED
      BY <3>1, <3>4
  <2> QED
    BY <2>1, <2>2
<1>18. seizeOK(rs[c], c, u, amounts.collateral, TRUE)
  BY <1>17 DEF seizeOK
<1>19. validateLiquidationCall(c, d, u, stableDebtOf(d, u), variableDebtOf(d, u))
  <2>1. healthFactor(reserves, u) < HEALTH_FACTOR_LIQUIDATION_THRESHOLD
    <3>1. healthFactor(reserves, u) \in Int
      BY HealthFactorInt
    <3> QED
      BY <3>1, WadAssumption DEF healthy, HEALTH_FACTOR_LIQUIDATION_THRESHOLD
  <2> QED
    BY <1>4, <1>5, <2>1 DEF validateLiquidationCall
<1>20. x <= walletSeized(w, c, amounts.collateral, TRUE)[d][w]
  <2>1. x <= wallet[d][w]
    BY <1>3, <1>6, <1>10
  <2> QED
    BY <2>1 DEF walletSeized
<1> HIDE DEF amounts
<1>21. /\ x = liquidated(c, d, u, MaxUint).debt
       /\ amounts = liquidated(c, d, u, MaxUint)
       /\ accrueOK(reserves[d], d)
       /\ burnLiquidatedDebtOK(accrue(reserves[d], d), u, x, variableDebtOf(d, u))
       /\ ratesOK(debtReserveBurnt(d, u, x), d, x, 0)
       /\ rs = reservesBurnt(d, u, x)
  BY <1>9, <1>11, <1>14 DEF x, amounts, m, n, k, rs
<1> HIDE DEF x, rs, m
<1> QED
  BY <1>18, <1>19, <1>20, <1>21 DEF liquidationCallOK


\* No operation of a user and no event of the environment changes a setting.
LEMMA ConfigKept ==
    ASSUME Next
    PROVE  config' = config
<1>1. CASE UserStep
  <2>1. PICK u \in Users, w \in Users, a \in Assets :
       \/ \E amount \in Amounts :
            \/ deposit(u, a, amount, w)
            \/ transfer(u, a, w, amount)
            \/ \E mode \in DebtModes : borrow(u, a, amount, mode, w)
       \/ \E amount \in AmountArgs :
            \/ withdraw(u, a, amount, w)
            \/ \E mode \in DebtModes : repay(u, a, amount, mode, w)
            \/ \E c \in Assets, receiveLToken \in BOOLEAN :
                 liquidationCall(u, c, a, w, amount, receiveLToken)
    BY <1>1 DEF UserStep, UserStepOf
  <2>2. ASSUME NEW amount \in Amounts, NEW mode \in DebtModes,
               deposit(u, a, amount, w) \/ transfer(u, a, w, amount)
                 \/ borrow(u, a, amount, mode, w)
        PROVE  config' = config
    BY <2>2 DEF deposit, transfer, borrow, environment
  <2>3. ASSUME NEW amount \in AmountArgs, NEW mode \in DebtModes,
               withdraw(u, a, amount, w) \/ repay(u, a, amount, mode, w)
        PROVE  config' = config
    BY <2>3 DEF withdraw, repay, environment
  <2>4. ASSUME NEW amount \in AmountArgs, NEW c \in Assets, NEW receiveLToken \in BOOLEAN,
               liquidationCall(u, c, a, w, amount, receiveLToken)
        PROVE  config' = config
    BY <2>4 DEF liquidationCall, environment
  <2>5. "stable" \in DebtModes
    BY DEF DebtModes, InterestRateMode
  <2> QED
    BY <2>1, <2>2, <2>3, <2>4, <2>5
<1>2. CASE PositionStep
  BY <1>2 DEF PositionStep, PositionStepOf, rebalanceStableBorrowRate,
     setUserUseReserveAsCollateral, swapBorrowRateMode, approveDelegation, donate,
     environment
<1>3. CASE FlashStep
  BY <1>3 DEF FlashStep, FlashStepOf, flashLoan, lendFlashLoan, executeOperationReturns,
              collectFlashLoan, borrowFlashLoan, environment
<1>4. CASE EnvironmentStep
  BY <1>4 DEF EnvironmentStep, Tick, setAssetPrice, setMarketBorrowRate
<1> QED
  BY <1>1, <1>2, <1>3, <1>4 DEF Next

\* configureReserveAsCollateral() asks for a bonus above 100% of whatever it makes
\* collateral, and no other setter touches the threshold or the bonus.
LEMMA BonusesKept ==
    ASSUME Inv, BonusesPaid, [Next \/ AdminStep]_vars
    PROVE  BonusesPaid'
<1>1. CASE config' = config
  BY <1>1 DEF BonusesPaid
<1>2. CASE AdminStep
  <2>1. config \in [Assets -> ReserveConfiguration]
    BY DEF Inv, TypeOK
  <2>2. ASSUME NEW a \in Assets, NEW c \in ReserveConfiguration, setConfiguration(a, c),
               c.liquidationThreshold # 0 => c.liquidationBonus > PERCENTAGE_FACTOR
        PROVE  BonusesPaid'
    <3>1. config' = [config EXCEPT ![a] = c]
      BY <2>2 DEF setConfiguration
    <3> QED
      BY <2>1, <2>2, <3>1 DEF BonusesPaid
  <2>3. ASSUME NEW a \in Assets
        PROVE  /\ config[a] \in ReserveConfiguration
               /\ config[a].liquidationThreshold # 0
                    => config[a].liquidationBonus > PERCENTAGE_FACTOR
    BY <2>1 DEF BonusesPaid
  <2>4. ASSUME NEW a \in Assets, NEW flag \in BOOLEAN, NEW factor \in Nat,
               NEW st \in Strategy, NEW c,
               \/ c = [config[a] EXCEPT !.borrowingEnabled = flag]
               \/ c = [config[a] EXCEPT !.borrowingEnabled = TRUE,
                                        !.stableRateBorrowingEnabled = flag]
               \/ c = [config[a] EXCEPT !.stableRateBorrowingEnabled = flag]
               \/ c = [config[a] EXCEPT !.active = flag]
               \/ c = [config[a] EXCEPT !.frozen = flag]
               \/ c = [config[a] EXCEPT !.reserveFactor = factor]
               \/ c = [config[a] EXCEPT !.strategy = st],
               setConfiguration(a, c)
        PROVE  BonusesPaid'
    <3>1. /\ c \in ReserveConfiguration
          /\ c.liquidationThreshold = config[a].liquidationThreshold
          /\ c.liquidationBonus = config[a].liquidationBonus
      BY <2>3, <2>4 DEF ReserveConfiguration
    <3> QED
      BY <2>2, <2>3, <2>4, <3>1
  <2>5. ASSUME NEW a \in Assets, NEW p \in CollateralParameters,
               configureReserveAsCollateral(a, p[1], p[2], p[3])
        PROVE  BonusesPaid'
    <3>1. p[1] \in Nat /\ p[2] \in Nat /\ p[3] \in Nat
      BY AdminAssumption
    <3> DEFINE c == [config[a] EXCEPT !.ltv = p[1], !.liquidationThreshold = p[2],
                                      !.liquidationBonus = p[3]]
    <3>2. setConfiguration(a, c) /\ collateralParametersOK(a, p[1], p[2], p[3])
      BY <2>5 DEF configureReserveAsCollateral
    <3>3. p[2] # 0 => p[3] > PERCENTAGE_FACTOR
      BY <3>2 DEF collateralParametersOK
    <3>4. /\ c \in ReserveConfiguration
          /\ c.liquidationThreshold = p[2] /\ c.liquidationBonus = p[3]
      BY <2>3, <3>1 DEF ReserveConfiguration
    <3> HIDE DEF c
    <3> QED
      BY <2>2, <3>2, <3>3, <3>4
  <2>6. ASSUME NEW val \in BOOLEAN, setPoolPause(val)
        PROVE  BonusesPaid'
    BY <1>1, <2>6 DEF setPoolPause
  <2>7. ReserveFactors \subseteq Nat /\ Strategies \subseteq Strategy
    BY AdminAssumption
  <2>8. CASE \E val \in BOOLEAN : setPoolPause(val)
    BY <2>6, <2>8
  <2>9. CASE ~ \E val \in BOOLEAN : setPoolPause(val)
    <3>1. PICK a \in Assets :
             \/ \E flag \in BOOLEAN :
                  enableBorrowingOnReserve(a, flag) \/ setReserveStableRate(a, flag)
             \/ disableBorrowingOnReserve(a)
             \/ \E p \in CollateralParameters :
                  configureReserveAsCollateral(a, p[1], p[2], p[3])
             \/ activateReserve(a) \/ deactivateReserve(a)
             \/ freezeReserve(a) \/ unfreezeReserve(a)
             \/ \E factor \in ReserveFactors : setReserveFactor(a, factor)
             \/ \E st \in Strategies : setReserveInterestRateStrategyAddress(a, st)
      BY <1>2, <2>9 DEF AdminStep
    <3>2. CASE \E p \in CollateralParameters :
                  configureReserveAsCollateral(a, p[1], p[2], p[3])
      BY <2>5, <3>2
    <3>3. config[a].reserveFactor \in Nat /\ config[a].strategy \in Strategy
      BY <2>3 DEF ReserveConfiguration
    <3>4. CASE \/ \E flag \in BOOLEAN :
                    enableBorrowingOnReserve(a, flag) \/ setReserveStableRate(a, flag)
               \/ disableBorrowingOnReserve(a)
               \/ activateReserve(a) \/ deactivateReserve(a)
               \/ freezeReserve(a) \/ unfreezeReserve(a)
      BY <2>4, <3>3, <3>4
      DEF enableBorrowingOnReserve, setReserveStableRate, disableBorrowingOnReserve,
          activateReserve, deactivateReserve, freezeReserve, unfreezeReserve
    <3>5. CASE \E factor \in ReserveFactors : setReserveFactor(a, factor)
      BY <2>4, <2>7, <3>3, <3>5 DEF setReserveFactor
    <3>6. CASE \E st \in Strategies : setReserveInterestRateStrategyAddress(a, st)
      BY <2>4, <2>7, <3>3, <3>6 DEF setReserveInterestRateStrategyAddress
    <3> QED
      BY <3>1, <3>2, <3>4, <3>5, <3>6
  <2> QED
    BY <2>8, <2>9
<1>3. CASE Next
  BY <1>1, <1>3, ConfigKept
<1>4. CASE UNCHANGED vars
  BY <1>1, <1>4 DEF vars
<1> QED
  BY <1>2, <1>3, <1>4

(* An unhealthy account is liquidatable: by whoever holds the funds,       *)
(* against any of its collateral worth a unit of the debt and its bonus,   *)
(* whatever the split of the debt between variable and stable and even     *)
(* when collateral and debt are the same reserve, which the call burns     *)
(* debt of, recalculates and only then moves lTokens of. Half of the debt  *)
(* is never nothing, what is repaid is never more than what was asked,     *)
(* what is seized is never more than there is, and the accrual in between  *)
(* takes no lToken from the account. Besides the width of numbers it needs *)
(* that the debt shown is booked and that a unit of it is worth a scaled   *)
(* unit, which an index above two rays can deny.                           *)
THEOREM UnhealthyAccountsLiquidatable ==
    Spec /\ BonusesPaid =>
      [](IndexesFit /\ RatesFit /\ PartAveragesFit /\ WalletsFit /\ Earning /\ Burnable
           => UnhealthyLiquidatable)
<1>1. Inv /\ BonusesPaid =>
        (IndexesFit /\ RatesFit /\ PartAveragesFit /\ WalletsFit /\ Earning /\ Burnable
           => UnhealthyLiquidatable)
  BY LiquidationGoesThrough DEF UnhealthyLiquidatable, stableDebtOf, variableDebtOf
<1>2. Inv /\ BonusesPaid /\ [Next]_vars => BonusesPaid'
  BY BonusesKept
<1> QED
  BY Invariance, <1>1, <1>2, PTL DEF Spec

(* The same whatever the admins do in between: the parameters they may set *)
(* keep the bonus above 100%.                                              *)
THEOREM ConfiguredUnhealthyAccountsLiquidatable ==
    ConfiguredSpec /\ BonusesPaid =>
      [](IndexesFit /\ RatesFit /\ PartAveragesFit /\ WalletsFit /\ Earning /\ Burnable
           => UnhealthyLiquidatable)
<1>1. ConfiguredInv /\ BonusesPaid =>
        (IndexesFit /\ RatesFit /\ PartAveragesFit /\ WalletsFit /\ Earning /\ Burnable
           => UnhealthyLiquidatable)
  BY LiquidationGoesThrough
  DEF UnhealthyLiquidatable, stableDebtOf, variableDebtOf, ConfiguredInv
<1>2. ConfiguredInv /\ BonusesPaid /\ [Next \/ AdminStep]_vars => BonusesPaid'
  BY BonusesKept DEF ConfiguredInv
<1> QED
  BY ConfiguredInvariance, <1>1, <1>2, PTL DEF ConfiguredSpec


-----------------------------------------------------------------------------
(* What a borrower is shown                                                *)

\* A scaled debt that stays is shown no smaller, when the reserve earns and no
\* reserve books less than before.
LEMMA DebtKept ==
    ASSUME Inv, Inv', ReservesGrow, Earning, NEW a \in Assets, NEW u \in Users,
           reserves[a].v[u] > 0, reserves'[a].v[u] = reserves[a].v[u]
    PROVE  vBalanceOf(reserves[a], u, now) <= vBalanceOf(reserves'[a], u, now')
<1> DEFINE m == reserves[a]
           n == reserves'[a]
           x == m.v[u]
           shown == getNormalizedDebt(m, now)
           later == getNormalizedDebt(n, now')
<1>1. Good(m, now) /\ now \in Nat
  BY ReserveFacts
<1>2. Good(n, now') /\ now' \in Nat
  BY DEF Inv, TypeOK, ReservesGood, Good
<1>3. \A w \in Users : m.v[w] \in Nat
  BY <1>1 DEF Good, Market
<1>4. m.vSupply # 0
  <2>1. x <= m.vSupply
    BY <1>1, <1>3, SumBound, UsersAssumption DEF Good, addsUp
  <2> QED
    BY <1>3, <2>1
<1>5. newVariableBorrowIndex(m, now) = shown
  BY <1>1, <1>4, DebtIsBooked DEF Earning
<1>6. newVariableBorrowIndex(m, now) <= newVariableBorrowIndex(n, now')
  BY DEF ReservesGrow
<1>7. /\ newVariableBorrowIndex(m, now) \in Nat
      /\ newVariableBorrowIndex(n, now') \in Nat
      /\ newVariableBorrowIndex(n, now') <= later
  BY <1>1, <1>2, NewIndexes
<1>8. shown \in Nat /\ later \in Nat
  BY <1>1, <1>2, NormalizedDebt
<1>9. /\ vBalanceOf(m, u, now) = rayMul(x, shown)
      /\ vBalanceOf(n, u, now') = rayMul(x, later)
  BY DEF vBalanceOf
<1>10. x \in Nat /\ x <= x
  BY <1>3
<1> HIDE DEF x, shown, later, m, n
<1>11. shown <= later
  BY <1>5, <1>6, <1>7, <1>8
<1> QED
  BY <1>8, <1>9, <1>10, <1>11, RayMulMonotone DEF m, n

(* The interest that a borrower is shown is never forgiven: no operation   *)
(* of anybody, no lapse of time and no new rate lowers the variable debt   *)
(* shown while the scaled debt stays, because the next accrual books all   *)
(* of it. It needs reserves that earn: the accrual books nothing at a      *)
(* liquidity rate of zero, although the view compounds.                    *)
THEOREM DebtsNotForgiven == Spec /\ []Earning => DebtNeverForgiven
<1>1. Inv /\ Inv' /\ Earning /\ [Next]_vars =>
        \A a \in Assets, u \in Users :
          reserves[a].v[u] > 0 /\ reserves'[a].v[u] = reserves[a].v[u] =>
            vBalanceOf(reserves[a], u, now) <= vBalanceOf(reserves'[a], u, now')
  BY InvStep, DebtKept
<1> QED
  BY Invariance, <1>1, PTL DEF Spec, DebtNeverForgiven

(* The same whatever the admins set, as long as it leaves reserves that    *)
(* earn.                                                                   *)
THEOREM ConfiguredDebtsNotForgiven == ConfiguredSpec /\ []Earning => DebtNeverForgiven
<1>1. ConfiguredInv /\ Earning /\ [Next \/ AdminStep]_vars =>
        \A a \in Assets, u \in Users :
          reserves[a].v[u] > 0 /\ reserves'[a].v[u] = reserves[a].v[u] =>
            vBalanceOf(reserves[a], u, now) <= vBalanceOf(reserves'[a], u, now')
  BY ConfiguredStep, DebtKept DEF ConfiguredInv
<1> QED
  BY ConfiguredInvariance, <1>1, PTL DEF ConfiguredSpec, DebtNeverForgiven

-----------------------------------------------------------------------------
(* What the flash loans in flight owe                                      *)

\* What is still owed of the loans one by one.
dues(f, asset) ==
    [j \in DOMAIN f.loans |->
       IF isOut(f, j) /\ f.loans[j].asset = asset THEN f.loans[j].amount ELSE 0]

\* What the flash loans of a stack owe.
stackOwes(s, asset) == sumOver([i \in DOMAIN s |-> owedBy(s[i], asset)], DOMAIN s)

\* What a flash loan owes is a number, nothing before it lends and after it is
\* settled.
LEMMA OwedBy ==
    ASSUME NEW f \in Frame, NEW asset
    PROVE  /\ owedBy(f, asset) = sumOver(dues(f, asset), 1..Len(f.loans))
           /\ dues(f, asset) \in [1..Len(f.loans) -> Nat]
           /\ IsFiniteSet(1..Len(f.loans))
           /\ owedBy(f, asset) \in Nat
           /\ (\A j \in 1..Len(f.loans) : ~isOut(f, j)) => owedBy(f, asset) = 0
<1>1. f.loans \in Seq(Loan) /\ DOMAIN f.loans = 1..Len(f.loans) /\ Len(f.loans) \in Nat
  BY DEF Frame
<1>2. IsFiniteSet(1..Len(f.loans))
  BY <1>1, FS_Interval
<1>3. \A j \in 1..Len(f.loans) : f.loans[j].amount \in Nat
  <2>1. \A j \in 1..Len(f.loans) : f.loans[j] \in Loan
    BY <1>1
  <2> QED
    BY <2>1 DEF Loan
<1>4. dues(f, asset) \in [1..Len(f.loans) -> Nat]
  BY <1>1, <1>3 DEF dues
<1>5. owedBy(f, asset) = sumOver(dues(f, asset), 1..Len(f.loans))
  <2>1. owedBy(f, asset) = SumFunction(dues(f, asset))
    BY DEF owedBy, dues
  <2>2. DOMAIN dues(f, asset) = 1..Len(f.loans)
    BY <1>4
  <2> QED
    BY <2>1, <2>2, SumIsSumFunction
<1>6. owedBy(f, asset) \in Nat
  BY <1>2, <1>4, <1>5, SumNat
<1>7. ASSUME \A j \in 1..Len(f.loans) : ~isOut(f, j)
      PROVE  owedBy(f, asset) = 0
  <2>1. dues(f, asset) = [j \in 1..Len(f.loans) |-> 0]
    BY <1>1, <1>7 DEF dues
  <2> QED
    BY <1>2, <1>5, <2>1, SumZero
<1> QED
  BY <1>2, <1>4, <1>5, <1>6, <1>7

\* Two flash loans with the same loans owe the same but for one of the loans.
LEMMA OwedButOne ==
    ASSUME NEW f \in Frame, NEW g \in Frame, g.loans = f.loans, NEW asset,
           NEW k, k \in DOMAIN f.loans, ~isOut(g, k), isOut(f, k),
           \A j \in DOMAIN f.loans \ {k} : isOut(g, j) <=> isOut(f, j),
           NEW due, due = IF f.loans[k].asset = asset THEN f.loans[k].amount ELSE 0
    PROVE  owedBy(g, asset) = owedBy(f, asset) - due
<1> DEFINE S == DOMAIN f.loans
           d == dues(f, asset)
           e == dues(g, asset)
<1>1. owedBy(f, asset) = sumOver(d, S) /\ d \in [S -> Nat] /\ IsFiniteSet(S)
  BY OwedBy DEF Frame
<1>2. owedBy(g, asset) = sumOver(e, S) /\ e \in [S -> Nat]
  BY OwedBy DEF Frame
<1>3. d[k] = due /\ e[k] = 0
  BY DEF dues
<1>4. \A j \in S \ {k} : e[j] = d[j]
  BY DEF dues
<1>5. k \in S
  OBVIOUS
<1> HIDE DEF d, e, S
<1>6. IsFiniteSet(S)
  BY <1>1
<1>7. \A j \in S : d[j] \in Nat
  BY <1>1
<1>8. e[k] = 0
  BY <1>3
<1>9. sumOver(e, S) = sumOver(d, S) - d[k]
  BY <1>4, <1>5, <1>6, <1>7, <1>8, SumDropped
<1> QED
  BY <1>1, <1>2, <1>3, <1>9

\* What a stack of flash loans owes is a number.
LEMMA StackOwes ==
    ASSUME NEW s \in Seq(Frame), NEW asset
    PROVE  /\ stackOwes(s, asset) \in Nat
           /\ s = <<>> => stackOwes(s, asset) = 0
<1> DEFINE w == [i \in 1..Len(s) |-> owedBy(s[i], asset)]
<1>1. DOMAIN s = 1..Len(s) /\ IsFiniteSet(1..Len(s)) /\ Len(s) \in Nat
  BY FS_Interval
<1>2. \A i \in 1..Len(s) : s[i] \in Frame
  BY <1>1
<1>3. \A i \in 1..Len(s) : w[i] \in Nat
  BY <1>2, OwedBy
<1>4. stackOwes(s, asset) = sumOver(w, 1..Len(s))
  BY <1>1 DEF stackOwes
<1>5. s = <<>> => 1..Len(s) = {}
  BY <1>1
<1> HIDE DEF w
<1>6. stackOwes(s, asset) \in Nat
  BY <1>1, <1>3, <1>4, SumNat
<1> QED
  BY <1>1, <1>4, <1>5, <1>6, SumEquation

\* What a flash loan on top of the stack adds.
LEMMA StackPushed ==
    ASSUME NEW s \in Seq(Frame), NEW r \in Seq(Frame), NEW asset,
           Len(r) = Len(s) + 1, \A i \in 1..Len(s) : r[i] = s[i]
    PROVE  stackOwes(r, asset) = stackOwes(s, asset) + owedBy(r[Len(r)], asset)
<1> DEFINE v == [i \in 1..Len(s) |-> owedBy(s[i], asset)]
           w == [i \in 1..Len(r) |-> owedBy(r[i], asset)]
           top == Len(r)
<1>1. /\ DOMAIN s = 1..Len(s) /\ Len(s) \in Nat
      /\ DOMAIN r = 1..Len(r) /\ IsFiniteSet(1..Len(r)) /\ IsFiniteSet(1..Len(s))
  BY FS_Interval
<1>2. top \in 1..Len(r) /\ (1..Len(r)) \ {top} = 1..Len(s)
  BY <1>1
<1>3. \A i \in 1..Len(r) : r[i] \in Frame
  BY <1>1
<1>4. \A i \in 1..Len(r) : w[i] \in Nat
  BY <1>3, OwedBy
<1>5. /\ stackOwes(s, asset) = sumOver(v, 1..Len(s))
      /\ stackOwes(r, asset) = sumOver(w, 1..Len(r))
      /\ w[top] = owedBy(r[Len(r)], asset)
  BY <1>1, <1>2 DEF stackOwes
<1>6. \A i \in 1..Len(s) : w[i] = v[i]
  BY <1>2
<1> HIDE DEF v, w, top
<1>7. sumOver(w, 1..Len(r)) = w[top] + sumOver(w, 1..Len(s))
  <2>1. sumOver(w, 1..Len(r)) = w[top] + sumOver(w, (1..Len(r)) \ {top})
    BY <1>1, <1>2, <1>4, SumTakes
  <2> QED
    BY <1>2, <2>1, Zenon
<1>8. sumOver(w, 1..Len(s)) = sumOver(v, 1..Len(s))
  BY <1>1, <1>6, SumSame
<1>9. stackOwes(s, asset) \in Nat /\ w[top] \in Nat
  BY <1>2, <1>4, StackOwes
<1> QED
  BY <1>5, <1>7, <1>8, <1>9

\* A change of the flash loan on top of the stack.
LEMMA StackReplaced ==
    ASSUME NEW s \in Seq(Frame), s # <<>>, NEW f \in Frame, NEW asset,
           NEW r, r = [s EXCEPT ![Len(s)] = f]
    PROVE  stackOwes(r, asset)
             = stackOwes(s, asset) - owedBy(s[Len(s)], asset) + owedBy(f, asset)
<1> DEFINE N == Len(s)
           S == 1..N
           v == [i \in 1..N |-> owedBy(s[i], asset)]
           w == [i \in 1..N |-> owedBy(r[i], asset)]
<1>1. /\ DOMAIN s = 1..N /\ N \in Nat /\ N >= 1 /\ DOMAIN r = 1..N /\ IsFiniteSet(1..N)
      /\ N \in 1..N
  BY FS_Interval
<1>2. r[N] = f /\ \A i \in (1..N) \ {N} : r[i] = s[i]
  BY <1>1
<1>3. \A i \in 1..N : s[i] \in Frame
  BY <1>1
<1>4. \A i \in 1..N : r[i] \in Frame
  BY <1>2, <1>3
<1>5. \A i \in 1..N : v[i] \in Nat /\ w[i] \in Nat
  BY <1>3, <1>4, OwedBy
<1>6. /\ stackOwes(s, asset) = sumOver(v, 1..N)
      /\ stackOwes(r, asset) = sumOver(w, 1..N)
      /\ v[N] = owedBy(s[N], asset) /\ w[N] = owedBy(f, asset)
  BY <1>1, <1>2 DEF stackOwes
<1>7. \A i \in (1..N) \ {N} : w[i] = v[i]
  BY <1>2
<1>8. /\ N \in S /\ IsFiniteSet(S) /\ \A i \in S : v[i] \in Nat /\ w[i] \in Nat
      /\ \A i \in S \ {N} : w[i] = v[i]
  BY <1>1, <1>5, <1>7
<1> HIDE DEF v, w, S, N
<1>9. sumOver(w, S) = sumOver(v, S) - v[N] + w[N]
  BY <1>8, SumUpdate
<1> QED
  BY <1>6, <1>9 DEF S, N

\* The flash loan on top is over.
LEMMA StackPopped ==
    ASSUME NEW s \in Seq(Frame), s # <<>>, NEW asset,
           NEW r, r = SubSeq(s, 1, Len(s) - 1)
    PROVE  stackOwes(r, asset) = stackOwes(s, asset) - owedBy(s[Len(s)], asset)
<1>1. Len(s) \in Nat /\ Len(s) >= 1 /\ \A i \in 1..Len(s) : s[i] \in Frame
  OBVIOUS
<1> DEFINE k == Len(s) - 1
<1>2. k \in Nat /\ \A i \in 1..k : s[i] \in Frame
  BY <1>1
<1>3. /\ r \in Seq(Frame) /\ Len(r) = k
      /\ \A i \in 1..k : r[i] = s[i]
  <2> HIDE DEF k
  <2>1. /\ r \in Seq(Frame) /\ Len(r) = IF 1 <= k THEN k - 1 + 1 ELSE 0
        /\ \A i \in 1..(k - 1 + 1) : r[i] = s[1 + i - 1]
    BY <1>2, SubSeqProperties DEF k
  <2> QED
    BY <1>2, <2>1
<1>4. Len(s) = Len(r) + 1 /\ \A i \in 1..Len(r) : s[i] = r[i]
  BY <1>1, <1>3
<1>5. stackOwes(s, asset) = stackOwes(r, asset) + owedBy(s[Len(s)], asset)
  BY <1>3, <1>4, StackPushed
<1>6. stackOwes(r, asset) \in Nat /\ owedBy(s[Len(s)], asset) \in Nat
  <2>1. s[Len(s)] \in Frame
    BY <1>1
  <2> QED
    BY <1>3, <2>1, StackOwes, OwedBy
<1> QED
  BY <1>5, <1>6

\* The stack before and after a step.
LEMMA OutstandingIs ==
    ASSUME NEW asset
    PROVE  /\ outstanding(asset) = stackOwes(flash, asset)
           /\ outstanding(asset)' = stackOwes(flash', asset)
<1>1. ASSUME NEW s
      PROVE  SumFunction([i \in DOMAIN s |-> owedBy(s[i], asset)]) = stackOwes(s, asset)
  BY SumIsSumFunction DEF stackOwes
<1> QED
  BY <1>1 DEF outstanding

\* The top of the stack.
LEMMA TopFrame ==
    ASSUME Inv, flash # <<>>
    PROVE  /\ flash \in Seq(Frame) /\ innermost = flash[Len(flash)]
           /\ innermost \in Frame /\ innermost.next \in Nat
           /\ Len(innermost.loans) \in Nat
           /\ innermost.next \in 1..Len(innermost.loans)
<1>1. flash \in Seq(Frame) /\ innermost \in Frame /\ frameOK(innermost)
  BY Innermost
<1>2. innermost = flash[Len(flash)]
  BY DEF innermost
<1>3. innermost.next \in Nat /\ Len(innermost.loans) \in Nat
  BY <1>1 DEF Frame
<1> QED
  BY <1>1, <1>2, <1>3 DEF frameOK

\* The loan at which the innermost flash loan is, if it is one of the asset.
dueNow(asset) ==
    LET ln == innermost.loans[innermost.next]
    IN  IF ln.asset = asset THEN ln.amount ELSE 0

\* The innermost flash loan with one more of its loans settled owes that much less.
LEMMA OneSettled ==
    ASSUME Inv, inPhase("settling"), NEW asset, NEW f \in Frame,
           f.loans = innermost.loans, f.phase = "settling", f.next = innermost.next + 1
    PROVE  /\ owedBy(f, asset) = owedBy(innermost, asset) - dueNow(asset)
           /\ innermost.next = Len(innermost.loans) => owedBy(f, asset) = 0
<1>1. innermost \in Frame /\ innermost.phase = "settling"
  BY TopFrame DEF inPhase, innermost
<1>2. innermost.next \in Nat /\ Len(innermost.loans) \in Nat
      /\ innermost.next \in 1..Len(innermost.loans)
  BY TopFrame DEF inPhase
<1> DEFINE k == innermost.next
<1>3. ASSUME NEW j \in 1..Len(innermost.loans)
      PROVE  (isOut(f, j) <=> j >= k + 1) /\ (isOut(innermost, j) <=> j >= k)
  BY <1>1, <1>3 DEF isOut
<1>4. /\ ~isOut(f, k) /\ isOut(innermost, k)
      /\ \A j \in 1..Len(innermost.loans) \ {k} : isOut(f, j) <=> isOut(innermost, j)
  BY <1>2, <1>3
<1> DEFINE due == IF innermost.loans[k].asset = asset THEN innermost.loans[k].amount ELSE 0
<1>5. owedBy(f, asset) = owedBy(innermost, asset) - dueNow(asset)
  <2>1. innermost \in Frame
    BY <1>1
  <2>2. f \in Frame
    OBVIOUS
  <2>3. f.loans = innermost.loans
    OBVIOUS
  <2>4. k \in DOMAIN innermost.loans
    BY <1>1, <1>2 DEF Frame
  <2>5. ~isOut(f, k)
    BY <1>4
  <2>6. isOut(innermost, k)
    BY <1>4
  <2>7. \A j \in DOMAIN innermost.loans \ {k} : isOut(f, j) <=> isOut(innermost, j)
    BY <1>1, <1>4 DEF Frame
  <2>8. due = IF innermost.loans[k].asset = asset THEN innermost.loans[k].amount ELSE 0
    OBVIOUS
  <2> HIDE DEF due, k
  <2>9. owedBy(f, asset) = owedBy(innermost, asset) - due
    BY <2>1, <2>2, <2>3, <2>4, <2>5, <2>6, <2>7, <2>8, OwedButOne
  <2>10. dueNow(asset) = due
    BY DEF dueNow, due, k
  <2> QED
    BY <2>9, <2>10, Zenon
<1>6. ASSUME innermost.next = Len(innermost.loans)
      PROVE  owedBy(f, asset) = 0
  <2>1. \A j \in 1..Len(f.loans) : ~isOut(f, j)
    BY <1>2, <1>3, <1>6
  <2> QED
    BY <2>1, OwedBy
<1> QED
  BY <1>5, <1>6

\* A loan that is settled, by money or by debt, is no longer owed.
LEMMA SettledOwes ==
    ASSUME Inv, inPhase("settling"), flash' = settled, NEW asset
    PROVE  outstanding(asset)' = outstanding(asset) - dueNow(asset)
<1> DEFINE x == innermost.next + 1
           f == [innermost EXCEPT !.next = x]
<1>0. f \in Frame /\ f.loans = innermost.loans /\ f.phase = "settling" /\ f.next = x
  <2>1. innermost \in Frame /\ innermost.next \in Nat
    BY TopFrame DEF inPhase
  <2>2. innermost.phase = "settling"
    BY DEF inPhase, innermost
  <2> QED
    BY <2>1, <2>2 DEF Frame
<1>1. /\ f \in Frame
      /\ owedBy(f, asset) = owedBy(innermost, asset) - dueNow(asset)
      /\ innermost.next = Len(innermost.loans) => owedBy(f, asset) = 0
  <2>1. /\ f \in Frame /\ f.loans = innermost.loans /\ f.phase = "settling"
        /\ f.next = innermost.next + 1
    BY <1>0
  <2> HIDE DEF f
  <2> QED
    BY <2>1, OneSettled
<1>2. /\ flash \in Seq(Frame) /\ flash # <<>> /\ innermost = flash[Len(flash)]
      /\ innermost \in Frame /\ innermost.next \in 1..Len(innermost.loans)
      /\ innermost.next \in Nat /\ Len(innermost.loans) \in Nat
  BY TopFrame DEF inPhase
<1>3. /\ stackOwes(flash, asset) \in Nat /\ owedBy(innermost, asset) \in Nat
      /\ owedBy(f, asset) \in Nat
  BY <1>1, <1>2, StackOwes, OwedBy
<1>4. CASE innermost.next < Len(innermost.loans)
  <2>1. flash' = [flash EXCEPT ![Len(flash)] = f]
    BY <1>4 DEF settled, nextLoan
  <2> HIDE DEF f
  <2>2. stackOwes(flash', asset)
          = stackOwes(flash, asset) - owedBy(innermost, asset) + owedBy(f, asset)
    BY <1>1, <1>2, <2>1, StackReplaced
  <2>3. dueNow(asset) = owedBy(innermost, asset) - owedBy(f, asset)
    <3>1. dueNow(asset) \in Nat
      BY <1>2, LoanTyped DEF dueNow
    <3> QED
      BY <1>1, <1>3, <3>1
  <2> QED
    BY <1>3, <2>2, <2>3, OutstandingIs
<1>5. CASE ~(innermost.next < Len(innermost.loans))
  <2>1. flash' = SubSeq(flash, 1, Len(flash) - 1)
    BY <1>5 DEF settled, nextLoan
  <2>2. innermost.next = Len(innermost.loans)
    BY <1>2, <1>5
  <2>3. stackOwes(flash', asset) = stackOwes(flash, asset) - owedBy(innermost, asset)
    BY <1>2, <2>1, StackPopped
  <2>4. owedBy(innermost, asset) = dueNow(asset)
    <3>1. dueNow(asset) \in Nat
      BY <1>2, LoanTyped DEF dueNow
    <3> HIDE DEF f
    <3> QED
      BY <1>1, <1>3, <2>2, <3>1
  <2> QED
    BY <2>3, <2>4, OutstandingIs
<1> QED
  BY <1>4, <1>5

\* The innermost flash loan with one more of its loans lent owes that much more;
\* with the last of them it owes all.
LEMMA OneLent ==
    ASSUME Inv, inPhase("lending"), NEW asset, NEW f \in Frame,
           f.loans = innermost.loans,
           \/ f.phase = "lending" /\ f.next = innermost.next + 1
           \/ f.phase = "callback" /\ innermost.next = Len(innermost.loans)
    PROVE  owedBy(f, asset) = owedBy(innermost, asset) + dueNow(asset)
<1>1. innermost \in Frame /\ innermost.phase = "lending"
  BY TopFrame DEF inPhase, innermost
<1> DEFINE k == innermost.next
<1>2. k \in Nat /\ Len(innermost.loans) \in Nat /\ k \in 1..Len(innermost.loans)
  BY TopFrame DEF inPhase
<1>3. ASSUME NEW j \in 1..Len(f.loans)
      PROVE  (isOut(f, j) <=> j <= k) /\ (isOut(innermost, j) <=> j < k)
  BY <1>1, <1>2, <1>3 DEF isOut
<1>4. /\ ~isOut(innermost, k) /\ isOut(f, k)
      /\ \A j \in 1..Len(f.loans) \ {k} : isOut(innermost, j) <=> isOut(f, j)
  BY <1>2, <1>3
<1> DEFINE due == IF f.loans[k].asset = asset THEN f.loans[k].amount ELSE 0
<1>5. owedBy(innermost, asset) = owedBy(f, asset) - dueNow(asset)
  <2>1. innermost \in Frame
    BY <1>1
  <2>2. innermost.loans = f.loans
    OBVIOUS
  <2>3. k \in DOMAIN f.loans
    BY <1>2 DEF Frame
  <2>4. ~isOut(innermost, k)
    BY <1>4
  <2>5. isOut(f, k)
    BY <1>4
  <2>6. \A j \in DOMAIN f.loans \ {k} : isOut(innermost, j) <=> isOut(f, j)
    BY <1>4 DEF Frame
  <2>7. due = IF f.loans[k].asset = asset THEN f.loans[k].amount ELSE 0
    OBVIOUS
  <2> HIDE DEF due, k
  <2>8. owedBy(innermost, asset) = owedBy(f, asset) - due
    BY <2>1, <2>2, <2>3, <2>4, <2>5, <2>6, <2>7, OwedButOne
  <2> QED
    BY <2>8 DEF dueNow, due, k
<1>6. /\ dueNow(asset) \in Nat /\ owedBy(f, asset) \in Nat
      /\ owedBy(innermost, asset) \in Nat
  BY <1>1, LoanTyped, OwedBy DEF dueNow, inPhase
<1> QED
  BY <1>5, <1>6

\* What is lent is owed, during the callback at the latest.
LEMMA LentOwes ==
    ASSUME Inv, lendFlashLoan, NEW asset
    PROVE  outstanding(asset)' = outstanding(asset) + dueNow(asset)
<1> DEFINE x == innermost.next + 1
           f == [innermost EXCEPT !.next = x]
           g == [innermost EXCEPT !.phase = "callback", !.next = 1]
<1>1. /\ inPhase("lending") /\ flash \in Seq(Frame) /\ flash # <<>>
      /\ innermost = flash[Len(flash)]
      /\ innermost \in Frame /\ innermost.next \in 1..Len(innermost.loans)
      /\ innermost.next \in Nat /\ Len(innermost.loans) \in Nat
  BY TopFrame DEF lendFlashLoan, inPhase
<1>2. x \in Nat
  BY <1>1
<1>3. /\ f \in Frame /\ f.loans = innermost.loans /\ f.phase = innermost.phase
      /\ f.next = x
      /\ g \in Frame /\ g.loans = innermost.loans /\ g.phase = "callback"
  BY <1>1, <1>2 DEF Frame, Phase
<1>4. innermost.phase = "lending"
  BY <1>1 DEF inPhase, innermost
<1>5. PICK h \in Frame :
        /\ flash' = [flash EXCEPT ![Len(flash)] = h]
        /\ h.loans = innermost.loans
        /\ \/ h.phase = "lending" /\ h.next = innermost.next + 1
           \/ h.phase = "callback" /\ innermost.next = Len(innermost.loans)
  <2>1. CASE innermost.next < Len(innermost.loans)
    <3>1. flash' = [flash EXCEPT ![Len(flash)] = f]
      BY <2>1 DEF lendFlashLoan, nextLoan
    <3> QED
      BY <1>3, <1>4, <3>1
  <2>2. CASE ~(innermost.next < Len(innermost.loans))
    <3>1. flash' = [flash EXCEPT ![Len(flash)] = g]
      BY <2>2 DEF lendFlashLoan, nextLoan
    <3>2. innermost.next = Len(innermost.loans)
      BY <1>1, <2>2
    <3> QED
      BY <1>3, <3>1, <3>2
  <2> QED
    BY <2>1, <2>2
<1>6. owedBy(h, asset) = owedBy(innermost, asset) + dueNow(asset)
  BY <1>1, <1>5, OneLent
<1>7. stackOwes(flash', asset)
        = stackOwes(flash, asset) - owedBy(innermost, asset) + owedBy(h, asset)
  <2>1. flash' = [flash EXCEPT ![Len(flash)] = h]
    BY <1>5
  <2>2. flash \in Seq(Frame) /\ flash # <<>> /\ innermost = flash[Len(flash)]
    BY <1>1
  <2> QED
    BY <2>1, <2>2, StackReplaced
<1>8. /\ dueNow(asset) \in Nat /\ owedBy(h, asset) \in Nat
      /\ owedBy(innermost, asset) \in Nat /\ stackOwes(flash, asset) \in Nat
  BY <1>1, LoanTyped, OwedBy, StackOwes DEF dueNow
<1> QED
  BY <1>6, <1>7, <1>8, OutstandingIs

\* Nothing is settled when the callback returns.
LEMMA ReturnedOwes ==
    ASSUME Inv, executeOperationReturns, NEW asset
    PROVE  outstanding(asset)' = outstanding(asset)
<1> DEFINE g == [innermost EXCEPT !.phase = "settling", !.next = 1]
<1>1. /\ inPhase("callback") /\ flash \in Seq(Frame) /\ flash # <<>>
      /\ innermost = flash[Len(flash)]
      /\ innermost \in Frame /\ innermost.phase = "callback"
      /\ flash' = [flash EXCEPT ![Len(flash)] = g]
  BY TopFrame DEF executeOperationReturns, inPhase
<1>2. g \in Frame /\ g.loans = innermost.loans /\ g.phase = "settling" /\ g.next = 1
  BY <1>1 DEF Frame, Phase
<1>3. DOMAIN g.loans = 1..Len(g.loans)
  BY <1>2 DEF Frame
<1> HIDE DEF g
<1>4. \A j \in 1..Len(g.loans) : isOut(g, j) /\ isOut(innermost, j)
  BY <1>1, <1>2 DEF isOut
<1>5. dues(g, asset) = dues(innermost, asset)
  BY <1>2, <1>3, <1>4 DEF dues
<1>6. owedBy(g, asset) = owedBy(innermost, asset) /\ owedBy(g, asset) \in Nat
  BY <1>1, <1>2, <1>5, OwedBy
<1>7. stackOwes(flash', asset)
        = stackOwes(flash, asset) - owedBy(innermost, asset) + owedBy(g, asset)
  <2>1. flash' = [flash EXCEPT ![Len(flash)] = g]
    BY <1>1
  <2> QED
    BY <1>1, <1>2, <2>1, StackReplaced
<1>8. stackOwes(flash, asset) \in Nat
  BY <1>1, StackOwes
<1> QED
  BY <1>6, <1>7, <1>8, OutstandingIs

\* Nor is anything lent when a flash loan starts.
LEMMA StartedOwes ==
    ASSUME Inv, Inv', NEW u, NEW r, NEW w, NEW loans, flashLoan(u, r, w, loans), NEW asset
    PROVE  outstanding(asset)' = outstanding(asset)
<1>1. PICK f : flash' = Append(flash, f) /\ f.phase = "lending" /\ f.next = 1
  BY DEF flashLoan
<1>2. flash \in Seq(Frame) /\ flash' \in Seq(Frame)
  BY DEF Inv, TypeOK
<1>3. /\ Len(flash') = Len(flash) + 1 /\ Len(flash) \in Nat
      /\ \A i \in 1..Len(flash) : flash'[i] = flash[i]
      /\ flash'[Len(flash')] = f
  BY <1>1, <1>2, AppendProperties
<1>4. f \in Frame
  BY <1>2, <1>3
<1>5. \A j \in 1..Len(f.loans) : ~isOut(f, j)
  <2>1. Len(f.loans) \in Nat
    BY <1>4 DEF Frame
  <2> QED
    BY <1>1, <2>1 DEF isOut
<1>6. owedBy(f, asset) = 0
  BY <1>4, <1>5, OwedBy
<1>7. stackOwes(flash', asset) = stackOwes(flash, asset) + owedBy(f, asset)
  BY <1>2, <1>3, StackPushed
<1> QED
  BY <1>2, <1>6, <1>7, StackOwes, OutstandingIs

-----------------------------------------------------------------------------
(* What an operation adds to a reserve                                     *)

\* No interest accrues: both indexes of every reserve are at one ray, its
\* depositors earn nothing, and its stable debts nothing on average.
InterestFree ==
    \A a \in Assets :
      /\ atPar(reserves[a])
      /\ reserves[a].currentLiquidityRate = 0
      /\ reserves[a].sAvg = 0

\* n is a state of the reserve of a, in good order, with x more to show for its
\* deposits than the stored one.
tally(a, n, x) == Good(n, now) /\ surplus(n, now) = surplus(reserves[a], now) + x

\* The reserve as it is stored.
LEMMA TallyStart ==
    ASSUME Inv, NEW a \in Assets
    PROVE  tally(a, reserves[a], 0)
<1>1. Good(reserves[a], now) /\ now \in Nat
  BY ReserveFacts
<1>2. surplus(reserves[a], now) \in Int
  BY <1>1, StableDebtsNat
<1> QED
  BY <1>1, <1>2 DEF tally

\* Accruing it adds nothing, once or again in the block.
LEMMA TallyAccrued ==
    ASSUME Inv, InterestFree, NEW a \in Assets, NEW x \in Int,
           NEW m, tally(a, m, x), atPar(m), m = reserves[a] \/ Accrued(m, now),
           NEW n, n = accrue(m, a)
    PROVE  tally(a, n, x) /\ atPar(n) /\ Accrued(n, now)
<1>1. now \in Nat /\ Good(m, now) /\ config[a].reserveFactor \in Nat
  BY ReserveFacts DEF tally
<1>2. \/ m.currentLiquidityRate = 0 /\ m.sAvg = 0
      \/ m.lastUpdateTimestamp = now
  BY DEF InterestFree, Accrued
<1>3. Accrued(n, now) /\ atPar(n) /\ surplus(n, now) = surplus(m, now)
  BY <1>1, <1>2, FlatAccrual DEF accrue
<1> QED
  BY <1>3 DEF tally, Accrued

\* Liquidity that comes or goes without a token.
LEMMA TallyKept ==
    ASSUME Inv, NEW a \in Assets, NEW x \in Int, NEW m, tally(a, m, x),
           NEW n, Good(n, now), keepsTokens(m, n), NEW y \in Int, n.avail = m.avail + y
    PROVE  tally(a, n, x + y)
<1>1. now \in Nat /\ Good(m, now) /\ Good(reserves[a], now)
  BY ReserveFacts DEF tally
<1>2. surplus(n, now) = surplus(m, now) + n.avail - m.avail
  BY <1>1, SurplusKept
<1>3. surplus(reserves[a], now) \in Int /\ m.avail \in Nat
  BY <1>1, StableDebtsNat DEF Good, Market
<1> QED
  BY <1>2, <1>3 DEF tally

\* New rates.
LEMMA TallyRates ==
    ASSUME Inv, NEW a \in Assets, NEW x \in Int, NEW m, tally(a, m, x),
           NEW added \in Nat, NEW taken \in Nat, ratesOK(m, a, added, taken),
           NEW n, n = withRates(m, a, added, taken)
    PROVE  /\ tally(a, n, x) /\ n.avail = m.avail /\ taken <= n.avail + added
           /\ atPar(m) => atPar(n)
           /\ Accrued(m, now) => Accrued(n, now)
<1>1. now \in Nat /\ Good(m, now) /\ m \in Market /\ m.avail \in Nat
  BY ReserveFacts DEF tally, Good, Market
<1>2. Good(n, now) /\ sameClock(m, n) /\ n.avail = m.avail /\ taken <= n.avail + added
  BY <1>1, RatesGood
<1>3. keepsTokens(m, n)
  BY <1>1, TokensKept DEF withRates
<1>4. n.avail = m.avail + 0 /\ x + 0 = x
  BY <1>1, <1>2
<1>5. tally(a, n, x)
  <2>1. tally(a, n, x + 0)
    BY <1>2, <1>3, <1>4, TallyKept
  <2> QED
    BY <1>4, <2>1
<1> QED
  BY <1>2, <1>5 DEF atPar, sameClock, Accrued

\* Underlying that comes in or goes out.
LEMMA TallyAvail ==
    ASSUME Inv, NEW a \in Assets, NEW x \in Int, NEW m, tally(a, m, x),
           NEW y \in Int, NEW z \in Nat, z = m.avail + y,
           NEW n, n = [m EXCEPT !.avail = z]
    PROVE  /\ tally(a, n, x + y)
           /\ atPar(m) => atPar(n)
           /\ Accrued(m, now) => Accrued(n, now)
           /\ n.liquidityIndex = m.liquidityIndex
<1>1. now \in Nat /\ Good(m, now) /\ m \in Market
  BY ReserveFacts DEF tally, Good
<1>2. Good(n, now) /\ sameClock(m, n) /\ n.avail = z
  BY <1>1, AvailGood
<1>3. keepsTokens(m, n)
  BY <1>1, TokensKept
<1>4. n.avail = m.avail + y
  BY <1>2
<1>5. tally(a, n, x + y)
  BY <1>2, <1>3, <1>4, TallyKept
<1> QED
  BY <1>2, <1>5 DEF atPar, sameClock, Accrued

\* Debt of either kind is worth what it was taken for.
LEMMA TallyMint ==
    ASSUME Inv, NEW a \in Assets, NEW x \in Int, NEW m, tally(a, m, x), atPar(m),
           Accrued(m, now), NEW u \in Users, NEW amount \in Nat, NEW mode \in DebtModes,
           mintDebtOK(m, u, amount, mode), NEW n, n = mintDebt(m, u, amount, mode)
    PROVE  tally(a, n, x + amount) /\ n.avail = m.avail /\ Accrued(n, now) /\ atPar(n)
<1>1. now \in Nat /\ Good(m, now) /\ Good(reserves[a], now)
  BY ReserveFacts DEF tally
<1>2. m.currentStableBorrowRate \in Nat
  BY <1>1, IndexPositive
<1>3. Accrued(n, now) /\ n.avail = m.avail
  BY MintDebt
<1>4. surplus(n, now) = surplus(m, now) + amount
  <2>1. CASE mode = "stable"
    BY <1>1, <1>2, <2>1, SMintSurplus DEF mintDebtOK, mintDebt
  <2>2. CASE mode # "stable"
    BY <1>1, <2>2, VMintSurplus DEF mintDebt, atPar
  <2> QED
    BY <2>1, <2>2
<1>5. surplus(reserves[a], now) \in Int
  BY <1>1, StableDebtsNat
<1>6. atPar(n)
  <2>1. CASE mode = "stable"
    BY <1>1, <1>2, <2>1, SMint DEF mintDebtOK, mintDebt, atPar
  <2>2. CASE mode # "stable"
    BY <1>1, <2>2, VMint, RayAssumption DEF mintDebt, atPar, sameClock, Good
  <2> QED
    BY <2>1, <2>2
<1> QED
  BY <1>3, <1>4, <1>5, <1>6 DEF tally, Accrued

\* And what it is repaid with.
LEMMA TallyBurn ==
    ASSUME Inv, NEW a \in Assets, NEW x \in Int, NEW m, tally(a, m, x), atPar(m),
           Accrued(m, now), NEW u \in Users, NEW amount \in Nat, NEW mode \in DebtModes,
           burnDebtOK(m, u, amount, mode), NEW n, n = burnDebt(m, u, amount, mode)
    PROVE  tally(a, n, x - amount) /\ n.avail = m.avail /\ Accrued(n, now) /\ atPar(n)
<1>1. now \in Nat /\ Good(m, now) /\ Good(reserves[a], now)
  BY ReserveFacts DEF tally
<1>2. Accrued(n, now) /\ n.avail = m.avail
  BY BurnDebt
<1>3. surplus(n, now) = surplus(m, now) - amount
  <2>1. CASE mode = "stable"
    BY <1>1, <2>1, SBurnSurplus DEF burnDebtOK, burnDebt
  <2>2. CASE mode # "stable"
    BY <1>1, <2>2, VBurnSurplus DEF burnDebtOK, burnDebt, atPar
  <2> QED
    BY <2>1, <2>2
<1>4. surplus(reserves[a], now) \in Int
  BY <1>1, StableDebtsNat
<1>5. atPar(n)
  <2>1. CASE mode = "stable"
    BY <1>1, <2>1, SBurn DEF burnDebtOK, burnDebt, atPar
  <2>2. CASE mode # "stable"
    BY <1>1, <2>2, VBurn, RayAssumption
    DEF burnDebtOK, burnDebt, atPar, sameClock, Good
  <2> QED
    BY <2>1, <2>2
<1> QED
  BY <1>2, <1>3, <1>4, <1>5 DEF tally, Accrued

\* A liquidation burns variable debt, then stable debt.
LEMMA TallyLiquidating ==
    ASSUME Inv, NEW a \in Assets, NEW x \in Int, NEW m, tally(a, m, x), atPar(m),
           Accrued(m, now), NEW u \in Users, NEW amount \in Nat, NEW variableDebt \in Nat,
           burnLiquidatedDebtOK(m, u, amount, variableDebt),
           NEW n, n = burnLiquidatedDebt(m, u, amount, variableDebt)
    PROVE  tally(a, n, x - amount) /\ atPar(n) /\ Accrued(n, now)
<1> DEFINE index == m.variableBorrowIndex
           k == vBurn(m, u, variableDebt, index)
           rest == amount - variableDebt
<1>1. now \in Nat /\ Good(m, now) /\ m \in Market
  BY PoolTyped DEF tally, Good
<1>2. "stable" \in DebtModes /\ "variable" \in DebtModes
  BY DEF DebtModes, InterestRateMode
<1>3. ASSUME NEW y \in Nat, vBurnOK(m, u, y, index), NEW j, j = vBurn(m, u, y, index)
      PROVE  tally(a, j, x - y) /\ atPar(j) /\ Accrued(j, now)
  BY <1>2, <1>3, TallyBurn DEF burnDebtOK, burnDebt
<1>4. ASSUME NEW z \in Int, NEW i, tally(a, i, z), atPar(i), Accrued(i, now),
             NEW y \in Nat, sBurnOK(i, u, y, now), NEW j, j = sBurn(i, u, y, now)
      PROVE  tally(a, j, z - y) /\ atPar(j) /\ Accrued(j, now)
  BY <1>2, <1>4, TallyBurn DEF burnDebtOK, burnDebt
<1>5. CASE variableDebt >= amount
  BY <1>3, <1>5 DEF burnLiquidatedDebtOK, burnLiquidatedDebt
<1>6. CASE ~(variableDebt >= amount) /\ variableDebt > 0
  <2>1. rest \in Nat /\ x - variableDebt \in Int /\ x - variableDebt - rest = x - amount
    BY <1>6
  <2>2. /\ vBurnOK(m, u, variableDebt, index) /\ sBurnOK(m, u, rest, now)
        /\ n = sBurn(k, u, rest, now)
    BY <1>6 DEF burnLiquidatedDebtOK, burnLiquidatedDebt
  <2>3. sameStable(m, k)
    BY <1>1 DEF vBurn, sameStable, Market
  <2>4. tally(a, k, x - variableDebt) /\ atPar(k) /\ Accrued(k, now)
    BY <1>3, <2>2
  <2> HIDE DEF k, rest
  <2>5. sBurnOK(k, u, rest, now)
    BY <2>2, <2>3, StableUnmoved DEF sBurnOK
  <2>6. tally(a, n, x - variableDebt - rest) /\ atPar(n) /\ Accrued(n, now)
    BY <1>4, <2>1, <2>2, <2>4, <2>5
  <2> QED
    BY <2>1, <2>6
<1>7. CASE ~(variableDebt >= amount) /\ ~(variableDebt > 0)
  <2>1. amount - variableDebt = amount
    BY <1>7
  <2>2. sBurnOK(m, u, amount, now) /\ n = sBurn(m, u, amount, now)
    BY <1>7, <2>1 DEF burnLiquidatedDebtOK, burnLiquidatedDebt
  <2> QED
    BY <1>4, <2>2
<1> QED
  BY <1>5, <1>6, <1>7

\* Paying depositors out: withdraw(), and a liquidation that burns the collateral.
LEMMA TallyPayingOut ==
    ASSUME Inv, InterestFree, NEW a \in Assets, NEW x \in Int, NEW m, tally(a, m, x),
           atPar(m), m = reserves[a] \/ Accrued(m, now), NEW u \in Users, NEW y \in Nat,
           NEW m1, m1 = accrue(m, a), NEW k, k = withRates(m1, a, 0, y),
           ratesOK(m1, a, 0, y), lBurnOK(k, u, y, k.liquidityIndex),
           NEW n, n = lBurn(k, u, y, k.liquidityIndex)
    PROVE  tally(a, n, x)
<1>1. now \in Nat
  BY PoolTyped
<1>2. tally(a, m1, x) /\ atPar(m1)
  BY TallyAccrued
<1>3. tally(a, k, x) /\ atPar(k)
  <2>1. 0 \in Nat
    OBVIOUS
  <2> QED
    BY <1>2, <2>1, TallyRates
<1>4. Good(k, now) /\ k.liquidityIndex = RAY
  BY <1>3 DEF tally, atPar
<1>5. lBurnOK(k, u, y, RAY) /\ n = lBurn(k, u, y, RAY)
  BY <1>4
<1>6. Good(n, now) /\ surplus(n, now) = surplus(k, now)
  BY <1>1, <1>4, <1>5, LBurnSurplus
<1> QED
  BY <1>3, <1>6 DEF tally

\* What a liquidation takes of the collateral: lTokens or what they stand for.
LEMMA TallySeizing ==
    ASSUME Inv, InterestFree, NEW c \in Assets, NEW x \in Int, NEW m, tally(c, m, x),
           atPar(m), m = reserves[c] \/ Accrued(m, now),
           NEW sender \in Users, NEW u \in Users, NEW y \in Nat,
           NEW receiveLToken \in BOOLEAN, seizeOK(m, c, u, y, receiveLToken),
           NEW n, n = seize(m, c, sender, u, y, receiveLToken)
    PROVE  tally(c, n, x)
<1>1. now \in Nat /\ Good(m, now) /\ m \in Market
  BY PoolTyped DEF tally, Good
<1>2. CASE receiveLToken
  <2>1. n = lTransfer(m, u, sender, y, getNormalizedIncome(m, now))
    BY <1>2 DEF seize
  <2>2. keepsTokens(m, n)
    BY <1>1, <2>1, TransferKeeps
  <2>3. Good(n, now)
    BY <1>1, Seized
  <2>4. n.avail = m.avail /\ m.avail \in Nat
    BY <1>1, <2>1 DEF lTransfer, Market
  <2>5. n.avail = m.avail + 0 /\ x + 0 = x
    BY <2>4
  <2>6. tally(c, n, x + 0)
    BY <2>2, <2>3, <2>5, TallyKept
  <2> QED
    BY <2>5, <2>6
<1>3. CASE ~receiveLToken
  <2> DEFINE m1 == accrue(m, c)
             k  == withRates(m1, c, 0, y)
  <2>1. /\ ratesOK(m1, c, 0, y) /\ lBurnOK(k, u, y, k.liquidityIndex)
        /\ n = lBurn(k, u, y, k.liquidityIndex)
    BY <1>3 DEF seizeOK, seize
  <2> HIDE DEF m1, k
  <2> QED
    BY <2>1, TallyPayingOut DEF m1, k
<1> QED
  BY <1>2, <1>3

-----------------------------------------------------------------------------
(* No step takes from what covers the deposits                             *)

\* What a reserve has beyond its deposits, with what flash loans owe it.
covered(a) == surplus(reserves[a], now) + outstanding(a)

CoverGrows == \A a \in Assets : covered(a) <= covered(a)'

\* What is owed is a number, before and after a step.
LEMMA OutstandingNat ==
    ASSUME Inv, Inv', NEW asset
    PROVE  outstanding(asset) \in Nat /\ outstanding(asset)' \in Nat
<1>1. flash \in Seq(Frame) /\ flash' \in Seq(Frame)
  BY DEF Inv, TypeOK
<1> QED
  BY <1>1, StackOwes, OutstandingIs

\* Reserves with x[a] more each, and flash loans that owe at most that much less.
LEMMA AllCovered ==
    ASSUME Inv, Inv', now' = now, NEW x \in [Assets -> Int],
           \A a \in Assets : tally(a, reserves'[a], x[a]),
           \A a \in Assets : outstanding(a) <= outstanding(a)' + x[a]
    PROVE  CoverGrows
<1>1. ASSUME NEW a \in Assets
      PROVE  covered(a) <= covered(a)'
  <2>1. Good(reserves[a], now) /\ now \in Nat
    BY ReserveFacts
  <2>2. surplus(reserves[a], now) \in Int
    BY <2>1, StableDebtsNat
  <2>3. surplus(reserves'[a], now) = surplus(reserves[a], now) + x[a]
    BY DEF tally
  <2>4. outstanding(a) \in Nat /\ outstanding(a)' \in Nat
    BY OutstandingNat
  <2>5. covered(a)' = surplus(reserves'[a], now) + outstanding(a)'
    BY DEF covered
  <2>6. outstanding(a) <= outstanding(a)' + x[a] /\ x[a] \in Int
    OBVIOUS
  <2> QED
    BY <2>2, <2>3, <2>4, <2>5, <2>6 DEF covered
<1> QED
  BY <1>1 DEF CoverGrows

\* A step that replaces one reserve.
LEMMA OneCovered ==
    ASSUME Inv, Inv', now' = now, NEW asset \in Assets, NEW n, NEW x \in Int,
           tally(asset, n, x), reserves' = [reserves EXCEPT ![asset] = n],
           \A a \in Assets :
             outstanding(a) <= outstanding(a)' + (IF a = asset THEN x ELSE 0)
    PROVE  CoverGrows
<1> DEFINE y == [a \in Assets |-> IF a = asset THEN x ELSE 0]
<1>1. y \in [Assets -> Int] /\ \A a \in Assets : y[a] = IF a = asset THEN x ELSE 0
  OBVIOUS
<1>2. reserves \in [Assets -> Market]
  BY DEF Inv, TypeOK
<1> HIDE DEF y
<1>3. ASSUME NEW a \in Assets
      PROVE  tally(a, reserves'[a], y[a])
  <2>1. CASE a = asset
    BY <1>1, <1>2, <2>1
  <2>2. CASE a # asset
    BY <1>1, <1>2, <2>2, TallyStart
  <2> QED
    BY <2>1, <2>2
<1>4. \A a \in Assets : outstanding(a) <= outstanding(a)' + y[a]
  BY <1>1
<1> QED
  BY <1>1, <1>3, <1>4, AllCovered

\* A step without flash loans that leaves a reserve no poorer.
LEMMA QuietlyCovered ==
    ASSUME Inv, Inv', now' = now, flash' = flash, NEW asset \in Assets, NEW n,
           NEW x \in Nat, tally(asset, n, x), reserves' = [reserves EXCEPT ![asset] = n]
    PROVE  CoverGrows
<1>1. ASSUME NEW a \in Assets
      PROVE  outstanding(a) <= outstanding(a)' + (IF a = asset THEN x ELSE 0)
  <2>1. outstanding(a) = outstanding(a)'
    BY OutstandingIs
  <2>2. outstanding(a) \in Nat
    BY OutstandingNat
  <2> QED
    BY <2>1, <2>2
<1>2. x \in Int
  OBVIOUS
<1> QED
  BY <1>1, <1>2, OneCovered, Zenon

\* A step that leaves the reserves, the flash loans and the clock alone.
LEMMA NoneCovered ==
    ASSUME Inv, Inv', now' = now, reserves' = reserves,
           \A a \in Assets : outstanding(a)' = outstanding(a)
    PROVE  CoverGrows
<1> DEFINE y == [a \in Assets |-> 0]
<1>1. y \in [Assets -> Int] /\ \A a \in Assets : y[a] = 0
  OBVIOUS
<1> HIDE DEF y
<1>2. \A a \in Assets : outstanding(a) <= outstanding(a)' + y[a]
  <2>1. \A a \in Assets : outstanding(a) \in Nat
    BY OutstandingNat
  <2> QED
    BY <1>1, <2>1
<1>3. \A a \in Assets : tally(a, reserves'[a], y[a])
  BY <1>1, TallyStart
<1> QED
  BY <1>1, <1>2, <1>3, AllCovered

\* deposit() takes in what it mints.
LEMMA DepositCovered ==
    ASSUME Inv, Inv', InterestFree, NEW sender \in Users, NEW asset \in Assets,
           NEW amount \in Nat, NEW u \in Users, deposit(sender, asset, amount, u)
    PROVE  CoverGrows
<1> DEFINE m  == reserves[asset]
           m1 == accrue(m, asset)
           r  == withRates(m1, asset, amount, 0)
           x  == r.avail + amount
           k  == [r EXCEPT !.avail = x]
           n  == lMint(k, u, amount, k.liquidityIndex)
<1>1. /\ ratesOK(m1, asset, amount, 0)
      /\ reserves' = [reserves EXCEPT ![asset] = n] /\ now' = now /\ flash' = flash
  BY DEF deposit, environment
<1>2. tally(asset, m, 0) /\ atPar(m) /\ 0 \in Nat /\ 0 \in Int /\ now \in Nat
  BY TallyStart, PoolTyped DEF InterestFree
<1>3. tally(asset, m1, 0) /\ atPar(m1)
  BY <1>2, TallyAccrued
<1> HIDE DEF m1
<1>4. tally(asset, r, 0) /\ atPar(r)
  BY <1>1, <1>2, <1>3, TallyRates
<1> HIDE DEF r
<1>5. x \in Nat /\ amount \in Int /\ 0 + amount = amount
  BY <1>4 DEF tally, Good, Market
<1>6. tally(asset, k, 0 + amount) /\ atPar(k)
  <2> HIDE DEF k
  <2>1. x = r.avail + amount /\ k = [r EXCEPT !.avail = x]
    BY DEF k
  <2> HIDE DEF x
  <2> QED
    BY <1>2, <1>4, <1>5, <2>1, TallyAvail
<1> HIDE DEF x, k
<1>7. Good(k, now) /\ k.liquidityIndex = RAY
  BY <1>6 DEF tally, atPar
<1>8. n = lMint(k, u, amount, RAY)
  BY <1>7
<1> HIDE DEF n
<1>9. Good(n, now) /\ surplus(n, now) = surplus(k, now) - amount
  BY <1>2, <1>7, <1>8, LMintSurplus
<1>10. tally(asset, n, 0)
  <2>1. surplus(reserves[asset], now) \in Int
    BY ReserveFacts, StableDebtsNat
  <2>2. surplus(k, now) = surplus(reserves[asset], now) + amount
    BY <1>5, <1>6 DEF tally
  <2> QED
    BY <1>9, <2>1, <2>2 DEF tally
<1> QED
  BY <1>1, <1>2, <1>10, QuietlyCovered

\* withdraw() pays out what it burns.
LEMMA WithdrawCovered ==
    ASSUME Inv, Inv', InterestFree, NEW sender \in Users, NEW asset \in Assets,
           NEW amount \in Nat, NEW to \in Users, withdraw(sender, asset, amount, to)
    PROVE  CoverGrows
<1> DEFINE m     == reserves[asset]
           taken == amountToWithdraw(sender, asset, amount)
           m1    == accrue(m, asset)
           k     == withRates(m1, asset, 0, taken)
           n     == lBurn(k, sender, taken, k.liquidityIndex)
<1>1. /\ ratesOK(m1, asset, 0, taken) /\ lBurnOK(k, sender, taken, k.liquidityIndex)
      /\ reserves' = [reserves EXCEPT ![asset] = n] /\ now' = now /\ flash' = flash
  BY DEF withdraw, withdrawOK, reserveToWithdraw, environment
<1>2. Good(m, now) /\ now \in Nat
  BY ReserveFacts
<1>3. taken \in Nat
  BY <1>2, Balances DEF amountToWithdraw
<1>4. tally(asset, m, 0) /\ atPar(m) /\ m = reserves[asset] /\ 0 \in Nat /\ 0 \in Int
  BY TallyStart DEF InterestFree
<1> HIDE DEF m, taken, m1, k, n
<1>5. tally(asset, n, 0)
  BY <1>1, <1>3, <1>4, TallyPayingOut DEF m1, k, n
<1> QED
  BY <1>1, <1>4, <1>5, QuietlyCovered

\* A transfer moves lTokens.
LEMMA TransferCovered ==
    ASSUME Inv, Inv', NEW from \in Users, NEW asset \in Assets, NEW to \in Users,
           NEW amount \in Nat, transfer(from, asset, to, amount)
    PROVE  CoverGrows
<1> DEFINE m     == reserves[asset]
           index == getNormalizedIncome(m, now)
           n     == lTransfer(m, from, to, amount, index)
<1>1. reserves' = [reserves EXCEPT ![asset] = n] /\ now' = now /\ flash' = flash
  BY DEF transfer, environment
<1>2. /\ tally(asset, m, 0) /\ now \in Nat /\ Good(m, now) /\ m \in Market
      /\ 0 \in Nat /\ 0 \in Int
  BY TallyStart, PoolTyped DEF tally, Good
<1>3. keepsTokens(m, n)
  BY <1>2, TransferKeeps
<1>4. Good(n, now)
  <2>1. reserves \in [Assets -> Market] /\ reserves' \in [Assets -> Market]
    BY DEF Inv, TypeOK
  <2>2. Good(reserves'[asset], now)
    BY <1>1, <2>1 DEF Inv, ReservesGood, Good
  <2> QED
    BY <1>1, <2>1, <2>2
<1>5. n.avail = m.avail + 0
  <2>1. n.avail = m.avail /\ m.avail \in Nat
    BY <1>2 DEF lTransfer, Market
  <2> QED
    BY <2>1
<1> HIDE DEF n, m
<1>6. tally(asset, n, 0 + 0) /\ 0 + 0 = 0
  BY <1>2, <1>3, <1>4, <1>5, TallyKept
<1> QED
  BY <1>1, <1>2, <1>6, QuietlyCovered

\* What is borrowed is owed: a loan that is released leaves its debt, one that
\* settles a flash loan is debt on top.
LEMMA BorrowTally ==
    ASSUME Inv, InterestFree, NEW user \in Users, NEW u \in Users, NEW asset \in Assets,
           NEW amount \in Nat, NEW mode \in DebtModes, NEW release \in BOOLEAN,
           _executeBorrow(user, u, asset, amount, mode, release)
    PROVE  \E n : /\ reserves' = [reserves EXCEPT ![asset] = n]
                  /\ tally(asset, n, IF release THEN 0 ELSE amount)
<1> DEFINE m1 == accrue(reserves[asset], asset)
           m2 == mintDebt(m1, u, amount, mode)
           released == IF release THEN amount ELSE 0
           r  == withRates(m2, asset, 0, released)
           x  == r.avail - released
           n  == [r EXCEPT !.avail = x]
<1>1. /\ mintDebtOK(m1, u, amount, mode) /\ ratesOK(m2, asset, 0, released)
      /\ reserves' = [reserves EXCEPT ![asset] = n]
  BY DEF _executeBorrow
<1>2. /\ tally(asset, reserves[asset], 0) /\ atPar(reserves[asset])
      /\ 0 \in Nat /\ 0 \in Int /\ released \in Nat
  BY TallyStart DEF InterestFree
<1>3. tally(asset, m1, 0) /\ atPar(m1) /\ Accrued(m1, now)
  BY <1>2, TallyAccrued
<1> HIDE DEF m1
<1>4. tally(asset, m2, 0 + amount)
  BY <1>1, <1>2, <1>3, TallyMint
<1> HIDE DEF m2, released
<1>5. 0 + amount = amount /\ amount \in Int
  OBVIOUS
<1>6. tally(asset, m2, amount)
  BY <1>4, <1>5
<1>7. tally(asset, r, amount) /\ released <= r.avail + 0
  BY <1>1, <1>2, <1>5, <1>6, TallyRates
<1> HIDE DEF r
<1>8. r.avail \in Nat
  BY <1>7 DEF tally, Good, Market
<1>9. x \in Nat /\ x = r.avail + (-released) /\ -released \in Int
  BY <1>2, <1>7, <1>8
<1> HIDE DEF x
<1>10. tally(asset, n, amount + (-released))
  BY <1>5, <1>7, <1>9, TallyAvail
<1>11. amount + (-released) = IF release THEN 0 ELSE amount
  BY <1>5 DEF released
<1> QED
  BY <1>1, <1>10, <1>11

\* repay() takes in what it burns.
LEMMA RepayCovered ==
    ASSUME Inv, Inv', InterestFree, NEW sender \in Users, NEW asset \in Assets,
           NEW amount \in Nat, NEW mode \in DebtModes, NEW u \in Users,
           repay(sender, asset, amount, mode, u)
    PROVE  CoverGrows
<1> DEFINE paid == min(amount, debtOf(asset, u, mode))
           m1 == accrue(reserves[asset], asset)
           m2 == burnDebt(m1, u, paid, mode)
           r  == withRates(m2, asset, paid, 0)
           x  == r.avail + paid
           n  == [r EXCEPT !.avail = x]
<1>1. /\ burnDebtOK(m1, u, paid, mode) /\ ratesOK(m2, asset, paid, 0)
      /\ reserves' = [reserves EXCEPT ![asset] = n] /\ now' = now /\ flash' = flash
  BY DEF repay, repayOK, reserveRepaid, environment
<1>2. /\ tally(asset, reserves[asset], 0) /\ atPar(reserves[asset])
      /\ 0 \in Nat /\ 0 \in Int /\ paid \in Nat
  BY TallyStart, DebtsNat DEF InterestFree, min
<1>3. tally(asset, m1, 0) /\ atPar(m1) /\ Accrued(m1, now)
  BY <1>2, TallyAccrued
<1> HIDE DEF m1, paid
<1>4. tally(asset, m2, 0 - paid)
  BY <1>1, <1>2, <1>3, TallyBurn
<1> HIDE DEF m2
<1>5. 0 - paid \in Int /\ paid \in Int /\ 0 - paid + paid = 0
  BY <1>2
<1>6. tally(asset, r, 0 - paid)
  BY <1>1, <1>2, <1>4, <1>5, TallyRates
<1> HIDE DEF r
<1>7. x \in Nat /\ x = r.avail + paid
  BY <1>2, <1>6 DEF tally, Good, Market
<1> HIDE DEF x
<1>8. tally(asset, n, 0 - paid + paid)
  BY <1>5, <1>6, <1>7, TallyAvail
<1> HIDE DEF n
<1> QED
  BY <1>1, <1>2, <1>5, <1>8, QuietlyCovered

\* Burning a debt and minting as much, of the other kind or at another rate.
LEMMA RemintCovered ==
    ASSUME Inv, Inv', InterestFree, NEW asset \in Assets, NEW u \in Users,
           NEW debt \in Nat, NEW mode \in DebtModes, NEW newMode \in DebtModes,
           NEW m1, m1 = accrue(reserves[asset], asset), burnDebtOK(m1, u, debt, mode),
           NEW m2, m2 = burnDebt(m1, u, debt, mode), mintDebtOK(m2, u, debt, newMode),
           NEW m3, m3 = mintDebt(m2, u, debt, newMode), ratesOK(m3, asset, 0, 0),
           reserves' = [reserves EXCEPT ![asset] = withRates(m3, asset, 0, 0)],
           now' = now, flash' = flash
    PROVE  CoverGrows
<1> DEFINE n == withRates(m3, asset, 0, 0)
<1>1. /\ tally(asset, reserves[asset], 0) /\ atPar(reserves[asset])
      /\ 0 \in Nat /\ 0 \in Int
  BY TallyStart DEF InterestFree
<1>2. tally(asset, m1, 0) /\ atPar(m1) /\ Accrued(m1, now)
  BY <1>1, TallyAccrued
<1>3. tally(asset, m2, 0 - debt) /\ atPar(m2) /\ Accrued(m2, now)
  BY <1>1, <1>2, TallyBurn
<1>4. 0 - debt \in Int /\ 0 - debt + debt = 0
  OBVIOUS
<1>5. tally(asset, m3, 0 - debt + debt)
  BY <1>3, <1>4, TallyMint
<1>6. tally(asset, n, 0)
  BY <1>1, <1>4, <1>5, TallyRates
<1>7. reserves' = [reserves EXCEPT ![asset] = n]
  OBVIOUS
<1> HIDE DEF n
<1> QED
  BY <1>1, <1>6, <1>7, QuietlyCovered

\* A debt swapped to the other kind stays as large.
LEMMA SwapCovered ==
    ASSUME Inv, Inv', InterestFree, NEW u \in Users, NEW asset \in Assets,
           NEW mode \in DebtModes, swapBorrowRateMode(u, asset, mode)
    PROVE  CoverGrows
<1> DEFINE debt    == debtOf(asset, u, mode)
           newMode == IF mode = "stable" THEN "variable" ELSE "stable"
           m1 == accrue(reserves[asset], asset)
           m2 == burnDebt(m1, u, debt, mode)
           m3 == mintDebt(m2, u, debt, newMode)
<1>1. /\ burnDebtOK(m1, u, debt, mode) /\ mintDebtOK(m2, u, debt, newMode)
      /\ ratesOK(m3, asset, 0, 0) /\ now' = now /\ flash' = flash
      /\ reserves' = [reserves EXCEPT ![asset] = withRates(m3, asset, 0, 0)]
  BY DEF swapBorrowRateMode, environment
<1>2. newMode \in DebtModes
  BY DEF DebtModes, InterestRateMode
<1>3. debt \in Nat
  BY DebtsNat
<1>4. m1 = accrue(reserves[asset], asset) /\ m2 = burnDebt(m1, u, debt, mode)
      /\ m3 = mintDebt(m2, u, debt, newMode)
  OBVIOUS
<1> HIDE DEF debt, newMode, m1, m2, m3
<1> QED
  BY <1>1, <1>2, <1>3, <1>4, RemintCovered

\* So does a stable debt at a new rate.
LEMMA RebalancedCovered ==
    ASSUME Inv, Inv', InterestFree, NEW asset \in Assets, NEW u \in Users,
           rebalanceStableBorrowRate(asset, u)
    PROVE  CoverGrows
<1> DEFINE debt == stableDebtOf(asset, u)
           m1 == accrue(reserves[asset], asset)
           m2 == burnDebt(m1, u, debt, "stable")
           m3 == mintDebt(m2, u, debt, "stable")
<1>1. /\ burnDebtOK(m1, u, debt, "stable") /\ mintDebtOK(m2, u, debt, "stable")
      /\ ratesOK(m3, asset, 0, 0) /\ now' = now /\ flash' = flash
      /\ reserves' = [reserves EXCEPT ![asset] = withRates(m3, asset, 0, 0)]
  BY DEF rebalanceStableBorrowRate, environment, burnDebt, burnDebtOK
<1>2. "stable" \in DebtModes
  BY DEF DebtModes, InterestRateMode
<1>3. debt \in Nat
  BY <1>2, DebtsNat
<1>4. m1 = accrue(reserves[asset], asset) /\ m2 = burnDebt(m1, u, debt, "stable")
      /\ m3 = mintDebt(m2, u, debt, "stable")
  OBVIOUS
<1> HIDE DEF debt, m1, m2, m3
<1> QED
  BY <1>1, <1>2, <1>3, <1>4, RemintCovered

\* borrow() hands out what it mints.
LEMMA BorrowCovered ==
    ASSUME Inv, Inv', InterestFree, NEW sender \in Users, NEW asset \in Assets,
           NEW amount \in Nat, NEW mode \in DebtModes, NEW u \in Users,
           borrow(sender, asset, amount, mode, u)
    PROVE  CoverGrows
<1>1. _executeBorrow(sender, u, asset, amount, mode, TRUE) /\ now' = now /\ flash' = flash
  BY DEF borrow, environment
<1>2. PICK n : reserves' = [reserves EXCEPT ![asset] = n] /\ tally(asset, n, 0)
  BY <1>1, BorrowTally
<1>3. 0 \in Nat
  OBVIOUS
<1> QED
  BY <1>1, <1>2, <1>3, QuietlyCovered

\* liquidationCall() takes in the debt it burns, and pays out the collateral it
\* burns.
LEMMA LiquidationCovered ==
    ASSUME Inv, Inv', InterestFree, NEW sender \in Users, NEW c \in Assets, NEW d \in Assets,
           NEW u \in Users, NEW cover \in Nat, NEW receiveLToken \in BOOLEAN,
           liquidationCall(sender, c, d, u, cover, receiveLToken)
    PROVE  CoverGrows
<1> DEFINE seized == liquidated(c, d, u, cover).collateral
           debt   == liquidated(c, d, u, cover).debt
           variable == variableDebtOf(d, u)
           less == 0 - debt
           z(a) == IF a = d THEN less ELSE 0
           m1 == accrue(reserves[d], d)
           m2 == burnLiquidatedDebt(m1, u, debt, variable)
           r  == withRates(m2, d, debt, 0)
           rs == [reserves EXCEPT ![d] = r]
           k  == seize(rs[c], c, sender, u, seized, receiveLToken)
           rs1 == [rs EXCEPT ![c] = k]
           x  == rs1[d].avail + debt
           n  == [rs1[d] EXCEPT !.avail = x]
<1>1. /\ burnLiquidatedDebtOK(m1, u, debt, variable) /\ ratesOK(m2, d, debt, 0)
      /\ seizeOK(rs[c], c, u, seized, receiveLToken)
      /\ priced(c) /\ priced(d)
      /\ reserves' = [rs1 EXCEPT ![d] = n] /\ now' = now /\ flash' = flash
  BY DEF liquidationCall, liquidationCallOK, validateLiquidationCall, debtReserveBurnt,
         reservesBurnt, environment
<1>2. seized \in Nat /\ debt \in Nat /\ 0 \in Nat /\ 0 \in Int
  BY <1>1, LiquidatedNat
<1>3. "stable" \in DebtModes
  BY DEF DebtModes, InterestRateMode
<1>4. variable \in Nat
  BY <1>3, DebtsNat
<1>5. tally(d, m1, 0) /\ atPar(m1) /\ Accrued(m1, now)
  <2>1. tally(d, reserves[d], 0) /\ atPar(reserves[d])
    BY TallyStart DEF InterestFree
  <2> QED
    BY <1>2, <2>1, TallyAccrued
<1> HIDE DEF seized, debt, variable, m1
<1>6. tally(d, m2, less) /\ atPar(m2) /\ Accrued(m2, now)
  BY <1>1, <1>2, <1>4, <1>5, TallyLiquidating
<1> HIDE DEF m2
<1>7. less \in Int /\ less + debt = 0 /\ debt \in Int
  BY <1>2
<1> HIDE DEF less
<1>8. tally(d, r, less) /\ atPar(r) /\ Accrued(r, now)
  BY <1>1, <1>2, <1>6, <1>7, TallyRates
<1> HIDE DEF r
<1>9. rs \in [Assets -> Market]
      /\ \A a \in Assets : z(a) \in Int /\ tally(a, rs[a], z(a)) /\ atPar(rs[a])
  <2>1. reserves \in [Assets -> Market] /\ r \in Market
    BY <1>8 DEF Inv, TypeOK, tally, Good
  <2>2. \A a \in Assets : tally(a, reserves[a], 0) /\ atPar(reserves[a])
    BY TallyStart DEF InterestFree
  <2> QED
    BY <1>2, <1>7, <1>8, <2>1, <2>2
<1>10. rs[c] = reserves[c] \/ Accrued(rs[c], now)
  <2>1. reserves \in [Assets -> Market]
    BY DEF Inv, TypeOK
  <2> QED
    BY <1>8, <2>1
<1>11. z(d) = less
  OBVIOUS
<1> HIDE DEF rs, z
<1>12. tally(c, k, z(c))
  <2>1. z(c) \in Int /\ tally(c, rs[c], z(c)) /\ atPar(rs[c])
    BY <1>9
  <2> QED
    BY <1>1, <1>2, <1>10, <2>1, TallySeizing
<1> HIDE DEF k
<1>13. rs1 \in [Assets -> Market] /\ \A a \in Assets : tally(a, rs1[a], z(a))
  <2>1. k \in Market
    BY <1>12 DEF tally, Good
  <2> QED
    BY <1>9, <1>12, <2>1
<1> HIDE DEF rs1
<1>14. tally(d, rs1[d], less)
  BY <1>11, <1>13
<1>15. x \in Nat /\ x = rs1[d].avail + debt
  <2>1. rs1[d].avail \in Nat
    BY <1>13 DEF Market
  <2> QED
    BY <1>2, <2>1
<1> HIDE DEF x
<1>16. tally(d, n, less + debt)
  BY <1>7, <1>14, <1>15, TallyAvail
<1>17. tally(d, n, 0)
  BY <1>7, <1>16
<1> HIDE DEF n
<1> DEFINE y == [a \in Assets |-> 0]
<1>18. y \in [Assets -> Int] /\ \A a \in Assets : y[a] = 0
  OBVIOUS
<1> HIDE DEF y
<1>19. \A a \in Assets : tally(a, reserves'[a], y[a])
  <2> SUFFICES ASSUME NEW a \in Assets PROVE tally(a, reserves'[a], y[a])
    OBVIOUS
  <2>1. CASE a = d
    BY <1>1, <1>13, <1>17, <1>18, <2>1
  <2>2. CASE a # d
    <3>1. z(a) = 0
      BY <2>2 DEF z
    <3> QED
      BY <1>1, <1>13, <1>18, <2>2, <3>1
  <2> QED
    BY <2>1, <2>2
<1>20. \A a \in Assets : outstanding(a) <= outstanding(a)' + y[a]
  <2> SUFFICES ASSUME NEW a \in Assets PROVE outstanding(a) <= outstanding(a)' + y[a]
    OBVIOUS
  <2>1. outstanding(a) = outstanding(a)'
    BY <1>1, OutstandingIs
  <2>2. outstanding(a) \in Nat
    BY OutstandingNat
  <2> QED
    BY <1>18, <2>1, <2>2
<1> QED
  BY <1>1, <1>18, <1>19, <1>20, AllCovered

\* What is lent is owed.
LEMMA LendCovered ==
    ASSUME Inv, Inv', lendFlashLoan
    PROVE  CoverGrows
<1> DEFINE ln == innermost.loans[innermost.next]
           d  == ln.asset
           y  == 0 - ln.amount
           x  == reserves[d].avail - ln.amount
           n  == [reserves[d] EXCEPT !.avail = x]
<1>1. /\ flash # <<>> /\ ln.amount <= reserves[d].avail /\ now' = now
      /\ reserves' = [reserves EXCEPT ![d] = n]
  BY DEF lendFlashLoan, inPhase, environment
<1>2. d \in Assets /\ ln.amount \in Nat
  BY <1>1, LoanTyped
<1>3. \A a \in Assets : /\ outstanding(a)' = outstanding(a) + dueNow(a)
                        /\ dueNow(a) = IF a = d THEN ln.amount ELSE 0
  BY LentOwes DEF dueNow
<1> HIDE DEF d, ln
<1>4. tally(d, reserves[d], 0) /\ 0 \in Int
  BY <1>2, TallyStart
<1>5. x \in Nat /\ y \in Int /\ x = reserves[d].avail + y /\ 0 + y = y
  <2>1. reserves[d].avail \in Nat
    BY <1>2, ReserveFacts
  <2> QED
    BY <1>1, <1>2, <2>1
<1>6. \A a \in Assets : outstanding(a) <= outstanding(a)' + (IF a = d THEN y ELSE 0)
  <2> SUFFICES ASSUME NEW a \in Assets
               PROVE  outstanding(a) <= outstanding(a)' + (IF a = d THEN y ELSE 0)
    OBVIOUS
  <2>1. outstanding(a) \in Nat
    BY OutstandingNat
  <2> QED
    BY <1>2, <1>3, <2>1
<1> HIDE DEF x, y
<1>7. tally(d, n, y)
  <2>1. tally(d, n, 0 + y)
    BY <1>2, <1>4, <1>5, TallyAvail
  <2> QED
    BY <1>5, <2>1
<1> HIDE DEF n
<1> QED
  BY <1>1, <1>2, <1>5, <1>6, <1>7, OneCovered

\* What is collected was owed, with a premium on top.
LEMMA CollectCovered ==
    ASSUME Inv, Inv', InterestFree, collectFlashLoan
    PROVE  CoverGrows
<1> DEFINE ln == innermost.loans[innermost.next]
           d  == ln.asset
           premium == ln.premium
           lent == ln.amount
           back == ln.amount + premium
           m1 == accrue(reserves[d], d)
           m2 == cumulateToLiquidityIndex(m1, premium, now)
           r  == withRates(m2, d, back, 0)
           x  == r.avail + back
           n  == [r EXCEPT !.avail = x]
<1>1. /\ flash # <<>> /\ inPhase("settling") /\ cumulateToLiquidityIndexOK(m1, premium, now)
      /\ ratesOK(m2, d, back, 0) /\ flash' = settled
      /\ reserves' = [reserves EXCEPT ![d] = n] /\ now' = now
  BY DEF collectFlashLoan, inPhase, environment
<1>2. d \in Assets /\ lent \in Nat /\ premium \in Nat
  BY <1>1, LoanTyped
<1>3. back \in Nat /\ back \in Int /\ 0 \in Nat /\ 0 \in Int /\ 0 + back = back /\ lent <= back
  BY <1>2
<1>4. \A a \in Assets : /\ outstanding(a)' = outstanding(a) - dueNow(a)
                        /\ dueNow(a) = IF a = d THEN lent ELSE 0
  BY <1>1, SettledOwes DEF dueNow
<1> HIDE DEF ln, d, premium, back, lent
<1>5. tally(d, m1, 0) /\ Accrued(m1, now) /\ now \in Nat
  <2>1. tally(d, reserves[d], 0) /\ atPar(reserves[d])
    BY <1>2, TallyStart DEF InterestFree
  <2> QED
    BY <1>2, <1>3, <2>1, TallyAccrued, PoolTyped
<1> HIDE DEF m1
<1>6. tally(d, m2, 0)
  <2>1. Good(m1, now) /\ m1 \in Market /\ m1.avail \in Nat
    BY <1>5 DEF Accrued, Good, Market
  <2>2. Good(m2, now) /\ m2.avail = m1.avail
    BY <1>1, <1>2, <1>5, Cumulate DEF Accrued
  <2>3. keepsTokens(m1, m2)
    BY <2>1, TokensKept
  <2> HIDE DEF m2
  <2>4. m2.avail = m1.avail + 0 /\ 0 + 0 = 0
    BY <2>1, <2>2
  <2>5. tally(d, m2, 0 + 0)
    BY <1>2, <1>3, <1>5, <2>2, <2>3, <2>4, TallyKept
  <2> QED
    BY <2>4, <2>5
<1> HIDE DEF m2
<1>7. tally(d, r, 0)
  BY <1>1, <1>2, <1>3, <1>6, TallyRates
<1>8. x \in Nat /\ x = r.avail + back
  BY <1>3, <1>7 DEF tally, Good, Market
<1> HIDE DEF r, x
<1>9. tally(d, n, back)
  <2>1. tally(d, n, 0 + back)
    BY <1>2, <1>3, <1>7, <1>8, TallyAvail
  <2> QED
    BY <1>3, <2>1
<1> HIDE DEF n
<1>10. \A a \in Assets : outstanding(a) <= outstanding(a)' + (IF a = d THEN back ELSE 0)
  <2> SUFFICES ASSUME NEW a \in Assets
               PROVE  outstanding(a) <= outstanding(a)' + (IF a = d THEN back ELSE 0)
    OBVIOUS
  <2>1. outstanding(a) \in Nat
    BY OutstandingNat
  <2> QED
    BY <1>2, <1>3, <1>4, <2>1
<1> QED
  BY <1>1, <1>2, <1>3, <1>9, <1>10, OneCovered

\* A loan that stays out becomes a debt of as much.
LEMMA BorrowFlashCovered ==
    ASSUME Inv, Inv', InterestFree, borrowFlashLoan
    PROVE  CoverGrows
<1> DEFINE ln   == innermost.loans[innermost.next]
           d    == ln.asset
           lent == ln.amount
           mode == ln.mode
<1>1. /\ flash # <<>> /\ inPhase("settling") /\ flash' = settled /\ now' = now
      /\ mode # "none"
      /\ _executeBorrow(innermost.initiator, innermost.onBehalfOf, d, lent, mode, FALSE)
  BY DEF borrowFlashLoan, inPhase, environment
<1>2. /\ d \in Assets /\ lent \in Nat /\ mode \in InterestRateMode
      /\ innermost.initiator \in Users /\ innermost.onBehalfOf \in Users
  BY <1>1, LoanTyped
<1>3. mode \in DebtModes /\ lent \in Int
  BY <1>1, <1>2 DEF DebtModes
<1>4. \A a \in Assets : /\ outstanding(a)' = outstanding(a) - dueNow(a)
                        /\ dueNow(a) = IF a = d THEN lent ELSE 0
  BY <1>1, SettledOwes DEF dueNow
<1> HIDE DEF ln, d, lent, mode
<1>5. PICK n : reserves' = [reserves EXCEPT ![d] = n] /\ tally(d, n, lent)
  BY <1>1, <1>2, <1>3, BorrowTally
<1>6. \A a \in Assets : outstanding(a) <= outstanding(a)' + (IF a = d THEN lent ELSE 0)
  <2> SUFFICES ASSUME NEW a \in Assets
               PROVE  outstanding(a) <= outstanding(a)' + (IF a = d THEN lent ELSE 0)
    OBVIOUS
  <2>1. outstanding(a) \in Nat
    BY OutstandingNat
  <2> QED
    BY <1>2, <1>3, <1>4, <2>1
<1> QED
  BY <1>1, <1>2, <1>3, <1>5, <1>6, OneCovered

\* A donation only adds.
LEMMA DonateCovered ==
    ASSUME Inv, Inv', NEW sender, NEW asset \in Assets, NEW amount \in Nat,
           donate(sender, asset, amount)
    PROVE  CoverGrows
<1> DEFINE x == reserves[asset].avail + amount
           n == [reserves[asset] EXCEPT !.avail = x]
<1>1. reserves' = [reserves EXCEPT ![asset] = n] /\ now' = now /\ flash' = flash
  BY DEF donate, environment
<1>2. tally(asset, reserves[asset], 0) /\ 0 \in Int /\ amount \in Int /\ 0 + amount = amount
  BY TallyStart
<1>3. x \in Nat /\ x = reserves[asset].avail + amount
  BY ReserveFacts
<1> HIDE DEF x
<1>4. tally(asset, n, amount)
  <2>1. tally(asset, n, 0 + amount)
    BY <1>2, <1>3, TallyAvail
  <2> QED
    BY <1>2, <2>1
<1> HIDE DEF n
<1> QED
  BY <1>1, <1>4, QuietlyCovered

\* A stable debt does not shrink with time.
LEMMA StableDebtWaits ==
    ASSUME NEW t \in Nat, NEW later \in Nat, t <= later, NEW m, Good(m, t), NEW u \in Users
    PROVE  sBalanceOf(m, u, t) <= sBalanceOf(m, u, later)
<1> DEFINE f == calculateCompoundedInterest(m.sRate[u], m.sTs[u], t)
           g == calculateCompoundedInterest(m.sRate[u], m.sTs[u], later)
<1>1. /\ m.s[u] \in Nat /\ m.sRate[u] \in Nat /\ m.sTs[u] \in Nat /\ m.sTs[u] <= t
  <2>1. m \in Market /\ ordered(m, t)
    BY DEF Good
  <2>2. m.s[u] \in Nat /\ m.sRate[u] \in Nat /\ m.sTs[u] \in Nat /\ m.sSupplyTs \in Nat
        /\ m.lastUpdateTimestamp \in Nat
    BY <2>1 DEF Market
  <2> QED
    BY <2>1, <2>2 DEF ordered
<1>2. f \in Nat /\ g \in Nat
  <2>1. m.sTs[u] <= later
    BY <1>1
  <2>2. f \in Nat
    BY <1>1, CompoundedInterest
  <2>3. g \in Nat
    BY <1>1, <2>1, CompoundedInterest
  <2> QED
    BY <2>2, <2>3
<1>3. f <= g
  BY <1>1, CompoundedMonotone
<1>4. /\ sBalanceOf(m, u, t) = IF m.s[u] = 0 THEN 0 ELSE rayMul(m.s[u], f)
      /\ sBalanceOf(m, u, later) = IF m.s[u] = 0 THEN 0 ELSE rayMul(m.s[u], g)
  BY DEF sBalanceOf
<1> HIDE DEF f, g
<1>5. m.s[u] <= m.s[u]
  BY <1>1
<1>6. rayMul(m.s[u], f) <= rayMul(m.s[u], g)
  BY <1>1, <1>2, <1>3, <1>5, RayMulMonotone
<1> QED
  BY <1>4, <1>6

\* Time adds interest to the stable debts, and nothing to the scaled deposits.
LEMMA TickCovered ==
    ASSUME Inv, Inv', Tick
    PROVE  CoverGrows
<1>1. reserves' = reserves /\ flash' = flash /\ now' \in Nat /\ now \in Nat /\ now <= now'
  <2>1. now \in Nat
    BY PoolTyped
  <2> QED
    BY <2>1 DEF Tick
<1>2. ASSUME NEW a \in Assets
      PROVE  covered(a) <= covered(a)'
  <2> DEFINE m == reserves[a]
             d == stableDebts(m, now)
             e == stableDebts(m, now')
  <2>1. Good(m, now)
    BY ReserveFacts
  <2>2. Good(m, now')
    <3>1. ReservesGood'
      BY DEF Inv
    <3> QED
      BY <1>1, <2>1, <3>1 DEF ReservesGood, Good
  <2>3. /\ d \in [Users -> Nat] /\ sumOver(d, Users) \in Nat
        /\ e \in [Users -> Nat] /\ sumOver(e, Users) \in Nat
    BY <1>1, <2>1, <2>2, StableDebtsNat
  <2>4. \A u \in Users : d[u] <= e[u]
    BY <1>1, <2>1, StableDebtWaits DEF stableDebts
  <2>5. m.avail \in Nat /\ m.vSupply \in Nat /\ m.lSupply \in Nat
    BY <2>1 DEF Good, Market
  <2>6. /\ surplus(m, now) = m.avail + m.vSupply + sumOver(d, Users) - m.lSupply
        /\ surplus(m, now') = m.avail + m.vSupply + sumOver(e, Users) - m.lSupply
    BY DEF surplus
  <2>7. covered(a) = surplus(m, now) + outstanding(a)
    BY DEF covered
  <2>8. covered(a)' = surplus(m, now') + outstanding(a)'
    BY <1>1 DEF covered
  <2>9. outstanding(a)' = outstanding(a) /\ outstanding(a) \in Nat
    BY <1>1, OutstandingIs, OutstandingNat
  <2> HIDE DEF m, d, e
  <2>10. sumOver(d, Users) <= sumOver(e, Users)
    <3>1. /\ \A u \in Users : d[u] \in Nat
          /\ \A u \in Users : e[u] \in Nat
      BY <2>3
    <3> QED
      BY <2>4, <3>1, SumMonotone, UsersAssumption
  <2> QED
    BY <2>3, <2>5, <2>6, <2>7, <2>8, <2>9, <2>10
<1> QED
  BY <1>2 DEF CoverGrows

\* What users do.
LEMMA UserCovered ==
    ASSUME Inv, Inv', InterestFree, UserStep
    PROVE  CoverGrows
<1>1. PICK u \in Users, w \in Users, a \in Assets :
       \/ \E amount \in Amounts :
            \/ deposit(u, a, amount, w)
            \/ transfer(u, a, w, amount)
            \/ \E mode \in DebtModes : borrow(u, a, amount, mode, w)
       \/ \E amount \in AmountArgs :
            \/ withdraw(u, a, amount, w)
            \/ \E mode \in DebtModes : repay(u, a, amount, mode, w)
            \/ \E c \in Assets, receiveLToken \in BOOLEAN :
                 liquidationCall(u, c, a, w, amount, receiveLToken)
  BY DEF UserStep, UserStepOf
<1>2. Amounts \subseteq Nat /\ AmountArgs \subseteq Nat
  BY BoundsAssumption, UintAssumption DEF AmountArgs
<1>3. ASSUME NEW amount \in Amounts, deposit(u, a, amount, w)
      PROVE  CoverGrows
  BY <1>2, <1>3, DepositCovered
<1>4. ASSUME NEW amount \in Amounts, transfer(u, a, w, amount)
      PROVE  CoverGrows
  BY <1>2, <1>4, TransferCovered
<1>5. ASSUME NEW amount \in Amounts, NEW mode \in DebtModes, borrow(u, a, amount, mode, w)
      PROVE  CoverGrows
  BY <1>2, <1>5, BorrowCovered
<1>6. ASSUME NEW amount \in AmountArgs, withdraw(u, a, amount, w)
      PROVE  CoverGrows
  BY <1>2, <1>6, WithdrawCovered
<1>7. ASSUME NEW amount \in AmountArgs, NEW mode \in DebtModes,
             repay(u, a, amount, mode, w)
      PROVE  CoverGrows
  BY <1>2, <1>7, RepayCovered
<1>8. ASSUME NEW amount \in AmountArgs, NEW c \in Assets, NEW receiveLToken \in BOOLEAN,
             liquidationCall(u, c, a, w, amount, receiveLToken)
      PROVE  CoverGrows
  BY <1>2, <1>8, LiquidationCovered
<1> QED
  BY <1>1, <1>3, <1>4, <1>5, <1>6, <1>7, <1>8

\* What else happens in the pool.
LEMMA OtherCovered ==
    ASSUME Inv, Inv', InterestFree, PositionStep \/ FlashStep \/ EnvironmentStep
    PROVE  CoverGrows
<1>1. ASSUME now' = now, reserves' = reserves, flash' = flash
      PROVE  CoverGrows
  BY <1>1, OutstandingIs, NoneCovered
<1>2. CASE PositionStep
  <2>1. PICK u \in Users, a \in Assets :
         \/ rebalanceStableBorrowRate(a, u)
         \/ \E flag \in BOOLEAN : setUserUseReserveAsCollateral(u, a, flag)
         \/ \E mode \in DebtModes : swapBorrowRateMode(u, a, mode)
         \/ \E mode \in DebtModes, w \in Users \ {u}, amount \in Delegations :
              approveDelegation(u, a, mode, w, amount)
         \/ \E amount \in Donations : donate(u, a, amount)
    BY <1>2 DEF PositionStep, PositionStepOf
  <2>2. CASE rebalanceStableBorrowRate(a, u)
    BY <2>2, RebalancedCovered
  <2>3. CASE \/ \E flag \in BOOLEAN : setUserUseReserveAsCollateral(u, a, flag)
             \/ \E mode \in DebtModes, w \in Users \ {u}, amount \in Delegations :
                  approveDelegation(u, a, mode, w, amount)
    <3>1. now' = now /\ reserves' = reserves /\ flash' = flash
      BY <2>3 DEF setUserUseReserveAsCollateral, approveDelegation, environment
    <3> QED
      BY <1>1, <3>1
  <2>4. CASE \E mode \in DebtModes : swapBorrowRateMode(u, a, mode)
    BY <2>4, SwapCovered
  <2>5. CASE \E amount \in Donations : donate(u, a, amount)
    BY <2>5, DonateCovered, BoundsAssumption
  <2> QED
    BY <2>1, <2>2, <2>3, <2>4, <2>5
<1>3. CASE FlashStep
  <2>1. CASE \E u \in Users, r \in Users, w \in Users, loans \in LoansArgs :
               flashLoan(u, r, w, loans)
    <3>1. PICK u \in Users, r \in Users, w \in Users, loans \in LoansArgs :
            flashLoan(u, r, w, loans)
      BY <2>1
    <3>2. now' = now /\ reserves' = reserves
      BY <3>1 DEF flashLoan, environment
    <3>3. \A a \in Assets : outstanding(a)' = outstanding(a)
      BY <3>1, StartedOwes
    <3> QED
      BY <3>2, <3>3, NoneCovered
  <2>2. CASE executeOperationReturns
    <3>1. now' = now /\ reserves' = reserves
      BY <2>2 DEF executeOperationReturns, environment
    <3>2. \A a \in Assets : outstanding(a)' = outstanding(a)
      BY <2>2, ReturnedOwes
    <3> QED
      BY <3>1, <3>2, NoneCovered
  <2> QED
    BY <1>3, <2>1, <2>2, LendCovered, CollectCovered, BorrowFlashCovered
    DEF FlashStep, FlashStepOf
<1>4. CASE EnvironmentStep
  <2>1. CASE Tick
    BY <2>1, TickCovered
  <2>2. CASE ~Tick
    <3>1. now' = now /\ reserves' = reserves /\ flash' = flash
      BY <1>4, <2>2 DEF EnvironmentStep, setAssetPrice, setMarketBorrowRate
    <3> QED
      BY <1>1, <3>1
  <2> QED
    BY <2>1, <2>2
<1> QED
  BY <1>2, <1>3, <1>4

\* No step of anybody, an admin included.
LEMMA StepCovered ==
    ASSUME Inv, Inv', InterestFree, [Next \/ AdminStep]_vars
    PROVE  CoverGrows
<1>1. CASE UNCHANGED vars
  <2>1. now' = now /\ reserves' = reserves /\ flash' = flash
    BY <1>1 DEF vars
  <2> QED
    BY <2>1, OutstandingIs, NoneCovered
<1>2. CASE AdminStep
  <2>1. now' = now /\ reserves' = reserves /\ flash' = flash
    BY <1>2, AdminTyped DEF others
  <2> QED
    BY <2>1, OutstandingIs, NoneCovered
<1> QED
  BY <1>1, <1>2, UserCovered, OtherCovered DEF Next

-----------------------------------------------------------------------------
(* Nothing is missing, with flash loans in flight and without              *)

\* No reserve has less than its deposits.
Covered == \A a \in Assets : covered(a) >= 0

\* A new pool has nothing and owes nothing.
LEMMA InitCovered ==
    ASSUME Init, Inv
    PROVE  Covered
<1> SUFFICES ASSUME NEW a \in Assets
             PROVE  covered(a) >= 0
  BY DEF Covered
<1> DEFINE d == stableDebts(reserves[a], now)
<1>1. reserves[a] = init /\ flash = <<>>
  BY DEF Init
<1>2. Good(reserves[a], now) /\ now \in Nat
  BY ReserveFacts
<1>3. /\ reserves[a].avail \in Nat /\ reserves[a].vSupply \in Nat
      /\ reserves[a].lSupply = 0 /\ d \in [Users -> Nat] /\ sumOver(d, Users) \in Nat
  BY <1>1, <1>2, StableDebtsNat DEF init, Good, Market
<1>4. outstanding(a) = 0
  <2>1. flash \in Seq(Frame)
    BY DEF Inv, TypeOK
  <2> QED
    BY <1>1, <2>1, OutstandingIs, StackOwes
<1>5. surplus(reserves[a], now)
        = reserves[a].avail + reserves[a].vSupply + sumOver(d, Users) - reserves[a].lSupply
  BY DEF surplus
<1> HIDE DEF d
<1> QED
  BY <1>3, <1>4, <1>5 DEF covered

\* Nobody takes from it.
LEMMA CoveredStep ==
    ASSUME Inv, Inv', InterestFree, Covered, [Next \/ AdminStep]_vars
    PROVE  Covered'
<1>1. CoverGrows
  BY StepCovered
<1> SUFFICES ASSUME NEW a \in Assets
             PROVE  covered(a)' >= 0
  BY DEF Covered
<1>2. covered(a) \in Int /\ covered(a)' \in Int
  <2>1. Good(reserves[a], now) /\ now \in Nat
    BY ReserveFacts
  <2>2. Good(reserves'[a], now') /\ now' \in Nat
    <3>1. TypeOK' /\ ReservesGood'
      BY DEF Inv
    <3>2. reserves' \in [Assets -> Market] /\ now' \in Nat
      BY <3>1 DEF TypeOK
    <3> QED
      BY <3>1, <3>2 DEF ReservesGood, Good
  <2>3. surplus(reserves[a], now) \in Int
    BY <2>1, StableDebtsNat
  <2>4. surplus(reserves'[a], now') \in Int
    BY <2>2, StableDebtsNat
  <2>5. outstanding(a) \in Nat /\ outstanding(a)' \in Nat
    BY OutstandingNat
  <2>6. covered(a)' = surplus(reserves'[a], now') + outstanding(a)'
    BY DEF covered
  <2> QED
    BY <2>3, <2>4, <2>5, <2>6 DEF covered
<1>3. covered(a) >= 0 /\ covered(a) <= covered(a)'
  BY <1>1 DEF Covered, CoverGrows
<1> QED
  BY <1>2, <1>3

\* A reserve that is covered at par is solvent: its claims are its deposits, and
\* the debts that are shown are not below the ones that are stored.
LEMMA SolventWhenCovered ==
    ASSUME Inv, InterestFree, Covered
    PROVE  Solvent
<1> SUFFICES ASSUME NEW a \in Assets
             PROVE  claims(a) <= backing(a)
  BY DEF Solvent
<1> DEFINE m == reserves[a]
           d == stableDebts(m, now)
<1>1. /\ Good(m, now) /\ now \in Nat /\ config[a].reserveFactor \in Nat
      /\ m.currentLiquidityRate = 0 /\ m.sAvg = 0 /\ atPar(m)
  BY ReserveFacts DEF InterestFree
<1>2. /\ m.avail \in Nat /\ m.vSupply \in Nat /\ m.lSupply \in Nat
      /\ m.lastUpdateTimestamp \in Nat
      /\ d \in [Users -> Nat] /\ sumOver(d, Users) \in Nat
  BY <1>1, StableDebtsNat DEF Good, Market
<1>3. outstanding(a) \in Nat
  <2>1. flash \in Seq(Frame)
    BY DEF Inv, TypeOK
  <2> QED
    BY <2>1, StackOwes, OutstandingIs
<1>4. covered(a) = surplus(m, now) + outstanding(a) /\ covered(a) >= 0
  BY DEF covered, Covered
<1>5. surplus(m, now) = m.avail + m.vSupply + sumOver(d, Users) - m.lSupply
  BY DEF surplus
<1>6. lTotalSupply(m, now) = m.lSupply
  <2>1. getNormalizedIncome(m, now) = RAY
    <3>1. m.liquidityIndex = RAY /\ RAY \in Nat
      BY <1>1, RayAssumption DEF atPar
    <3>2. CASE m.lastUpdateTimestamp = now
      BY <3>1, <3>2 DEF getNormalizedIncome
    <3>3. CASE m.lastUpdateTimestamp # now
      <4>1. m.lastUpdateTimestamp <= now
        BY <1>1 DEF Good, ordered
      <4>2. calculateLinearInterest(0, m.lastUpdateTimestamp, now) = RAY
        <5>1. 0 * (now - m.lastUpdateTimestamp) = 0
          BY <1>1, <1>2
        <5>2. 0 \div SECONDS_PER_YEAR = 0
          BY YearAssumption
        <5> QED
          BY <3>1, <5>1, <5>2 DEF calculateLinearInterest
      <4>3. rayMul(RAY, RAY) = RAY
        BY <3>1, RayIsOne
      <4> QED
        BY <1>1, <3>1, <3>3, <4>2, <4>3 DEF getNormalizedIncome
    <3> QED
      BY <3>2, <3>3
  <2> QED
    BY <1>2, <2>1, RayIsOne DEF lTotalSupply
<1>7. amountToMint(m, config[a].reserveFactor, now) = 0
  <2>1. currentDebt(m, now) - previousDebt(m) = 0
    BY <1>1, FlatDebt
  <2> QED
    BY <1>1, <2>1, PercentMulZero DEF amountToMint
<1>8. vTotalSupply(m, now) \in Nat /\ m.vSupply <= vTotalSupply(m, now)
  <2> DEFINE index == getNormalizedDebt(m, now)
  <2>1. index \in Nat /\ RAY <= index
    BY <1>1, NormalizedDebt DEF atPar
  <2>2. vTotalSupply(m, now) = rayMul(m.vSupply, index)
    BY DEF vTotalSupply
  <2> HIDE DEF index, m
  <2> QED
    BY <1>2, <2>1, <2>2, RayMulGrows, RayMulNat
<1>9. backing(a) = m.avail + vTotalSupply(m, now) + sumOver(d, Users) + outstanding(a)
  <2>1. DOMAIN d = Users /\ SumFunction(d) = sumOver(d, DOMAIN d)
    BY <1>2, SumIsSumFunction
  <2>2. backing(a) = m.avail + vTotalSupply(m, now) + SumFunction(d) + outstanding(a)
    BY DEF backing, stableDebts
  <2> HIDE DEF d, m
  <2> QED
    BY <2>1, <2>2
<1>10. claims(a) = m.lSupply
  BY <1>2, <1>6, <1>7 DEF claims
<1> HIDE DEF d, m
<1> QED
  BY <1>2, <1>3, <1>4, <1>5, <1>8, <1>9, <1>10

(* As long as no interest accrues, a reserve has what its depositors can   *)
(* claim, and the treasury with them, in liquidity, debts and flash loans  *)
(* in flight, whatever its users, their liquidators and the oracles do:    *)
(* every operation books what it pays out and takes in what it books.      *)
THEOREM Solvency == Spec /\ []InterestFree => []Solvent
<1>1. Init /\ Inv => Covered
  BY InitCovered
<1>2. Inv /\ Inv' /\ InterestFree /\ Covered /\ [Next]_vars => Covered'
  BY CoveredStep
<1>3. Inv /\ InterestFree /\ Covered => Solvent
  BY SolventWhenCovered
<1> QED
  BY Invariance, <1>1, <1>2, <1>3, PTL DEF Spec

(* The same whatever the admins configure meanwhile.                       *)
THEOREM ConfiguredSolvency == ConfiguredSpec /\ []InterestFree => []Solvent
<1>1. Init /\ Inv => Covered
  BY InitCovered
<1>2. Inv /\ Inv' /\ InterestFree /\ Covered /\ [Next \/ AdminStep]_vars => Covered'
  BY CoveredStep
<1>3. Inv /\ InterestFree /\ Covered => Solvent
  BY SolventWhenCovered
<1>4. ConfiguredInv => Inv
  BY DEF ConfiguredInv
<1> QED
  BY ConfiguredInvariance, <1>1, <1>2, <1>3, <1>4, PTL DEF ConfiguredSpec

-----------------------------------------------------------------------------
(* Reserves without interest stay without                                  *)

\* A strategy that asks for nothing.
gratis(st) == st.base = 0 /\ st.v1 = 0 /\ st.v2 = 0 /\ st.s1 = 0 /\ st.s2 = 0

\* The pool is deployed with such strategies, the oracle reports no market rate, and
\* flash loans cost nothing or do not happen.
FreeTerms ==
    /\ \A a \in Assets : gratis(InitialConfig[a].strategy) /\ InitialMarketRates[a] = 0
    /\ MarketRateValues \subseteq {0}
    /\ FLASHLOAN_PREMIUM_TOTAL = 0 \/ MaxFlashDepth = 0

\* A reserve that earns nothing and offers its loans for nothing.
calm(m) ==
    /\ atPar(m) /\ m.currentLiquidityRate = 0 /\ m.currentStableBorrowRate = 0
    /\ m.sAvg = 0

\* What is asked for, at any moment.
GratisNow == \A a \in Assets : gratis(config[a].strategy) /\ marketRates[a] = 0

freeFrame(f) == \A j \in DOMAIN f.loans : f.loans[j].premium = 0

PremiumsFree == \A i \in 1..Len(flash) : freeFrame(flash[i])

ReservesCalm == \A a \in Assets : calm(reserves[a])

Calm == ReservesCalm /\ GratisNow /\ PremiumsFree

\* Nothing, shared.
LEMMA RayDivZero ==
    ASSUME NEW b \in Nat, b > 0
    PROVE  rayDiv(0, b) = 0
<1>1. 0 * RAY = 0
  BY RayAssumption
<1>2. b \div 2 \in Nat /\ b \div 2 < b
  OBVIOUS
<1>3. (0 + b \div 2) \div b = 0
  BY <1>2
<1> QED
  BY <1>1, <1>3 DEF rayDiv

\* Nor does anything to the other side of a product.
LEMMA RayMulByZero ==
    ASSUME NEW b \in Nat
    PROVE  rayMul(b, 0) = 0
<1>1. b * 0 = 0 * b
  OBVIOUS
<1> QED
  BY <1>1, RayMulZero DEF rayMul

\* Debts without a rate pay none on average.
LEMMA OverallGratis ==
    ASSUME NEW sd \in Nat, NEW vd \in Nat
    PROVE  _getOverallBorrowRate(sd, vd, 0, 0) = 0
<1>1. /\ wadToRay(vd) \in Nat /\ wadToRay(sd) \in Nat /\ wadToRay(sd + vd) \in Nat
      /\ sd + vd # 0 => wadToRay(sd + vd) > 0
  BY WadToRayNat
<1>2. rayMul(wadToRay(vd), 0) = 0 /\ rayMul(wadToRay(sd), 0) = 0
  BY <1>1, RayMulByZero
<1>3. CASE sd + vd = 0
  BY <1>3 DEF _getOverallBorrowRate
<1>4. CASE sd + vd # 0
  <2>1. rayDiv(0, wadToRay(sd + vd)) = 0
    BY <1>1, <1>4, RayDivZero
  <2>2. 0 + 0 = 0
    OBVIOUS
  <2> QED
    BY <1>2, <1>4, <2>1, <2>2 DEF _getOverallBorrowRate
<1> QED
  BY <1>3, <1>4

\* A strategy that asks for nothing asks for nothing at any utilisation.
LEMMA GratisRates ==
    ASSUME NEW st \in Strategy, gratis(st), NEW avail \in Nat, NEW sd \in Nat,
           NEW vd \in Nat, NEW rf \in Nat, rf <= PERCENTAGE_FACTOR
    PROVE  LET r == calculateInterestRates(st, 0, avail, sd, vd, 0, rf)
           IN  r.liquidity = 0 /\ r.stable = 0
<1> DEFINE util     == utilizationRate(avail, sd + vd)
           excess   == rayDiv(util - st.optimal, RAY - st.optimal)
           part     == rayDiv(util, st.optimal)
           variable == IF util > st.optimal
                       THEN st.base + st.v1 + rayMul(st.v2, excess)
                       ELSE st.base + rayDiv(rayMul(util, st.v1), st.optimal)
           stable   == IF util > st.optimal
                       THEN 0 + st.s1 + rayMul(st.s2, excess)
                       ELSE 0 + rayMul(st.s1, part)
           overall  == _getOverallBorrowRate(sd, vd, variable, 0)
           liquidity == percentMul(rayMul(overall, util), PERCENTAGE_FACTOR - rf)
<1>1. util \in 0..RAY
  <2>1. sd + vd \in Nat
    OBVIOUS
  <2> QED
    BY <2>1, Utilization
<1>2. /\ st.optimal \in 1..RAY /\ RAY \in Nat
      /\ st.base = 0 /\ st.v1 = 0 /\ st.v2 = 0 /\ st.s1 = 0 /\ st.s2 = 0
  BY RayAssumption DEF Strategy, gratis
<1> HIDE DEF util
<1>3. variable = 0 /\ stable = 0
  <2>1. CASE util > st.optimal
    <3>1. util - st.optimal \in Nat /\ RAY - st.optimal \in Nat /\ RAY - st.optimal > 0
      BY <1>1, <1>2, <2>1
    <3>2. excess \in Nat
      BY <3>1, RayDivNat
    <3> HIDE DEF excess
    <3>3. rayMul(0, excess) = 0
      BY <3>2, RayMulZero
    <3> QED
      BY <1>2, <2>1, <3>3
  <2>2. CASE ~(util > st.optimal)
    <3>1. util \in Nat /\ st.optimal \in Nat /\ st.optimal > 0
      BY <1>1, <1>2
    <3>2. part \in Nat
      BY <3>1, RayDivNat
    <3> HIDE DEF part
    <3>3. rayMul(0, part) = 0 /\ rayMul(util, 0) = 0 /\ rayDiv(0, st.optimal) = 0
      BY <3>1, <3>2, RayMulZero, RayMulByZero, RayDivZero
    <3> QED
      BY <1>2, <2>2, <3>3
  <2> QED
    BY <2>1, <2>2
<1>4. overall = 0
  BY <1>3, OverallGratis
<1>5. liquidity = 0
  <2>1. rayMul(0, util) = 0 /\ PERCENTAGE_FACTOR - rf \in Nat
    BY <1>1, RayMulZero DEF PERCENTAGE_FACTOR
  <2> QED
    BY <1>4, <2>1, PercentMulZero
<1>6. LET r == calculateInterestRates(st, 0, avail, sd, vd, 0, rf)
      IN  r.liquidity = liquidity /\ r.stable = stable
  BY DEF calculateInterestRates, util
<1> HIDE DEF liquidity, stable
<1> QED
  BY <1>3, <1>5, <1>6

\* So new rates are none.
LEMMA CalmRates ==
    ASSUME Inv, GratisNow, NEW a \in Assets, NEW m, Good(m, now), calm(m),
           NEW added \in Nat, NEW taken \in Nat, ratesOK(m, a, added, taken),
           NEW n, n = withRates(m, a, added, taken)
    PROVE  calm(n) /\ Good(n, now) /\ (Accrued(m, now) => Accrued(n, now))
<1> DEFINE st == config[a].strategy
           rf == config[a].reserveFactor
           sd == sTotalSupply(m, now)
           vd == rayMul(m.vSupply, m.variableBorrowIndex)
           left == m.avail + added - taken
           r  == newRates(m, st, marketRates[a], rf, added, taken, now)
           r1 == r.liquidity
           r2 == r.stable
           r3 == r.variable
<1>1. /\ now \in Nat /\ rf \in Nat /\ st \in Strategy /\ gratis(st) /\ marketRates[a] = 0
      /\ m \in Market
  BY ReserveFacts DEF GratisNow, Good
<1>2. rf <= PERCENTAGE_FACTOR /\ left \in Nat
  <2>1. m.avail \in Nat
    BY <1>1 DEF Market
  <2> QED
    BY <2>1 DEF ratesOK, updateInterestRatesOK
<1>3. sd \in Nat
  BY <1>1, Balances, TreasuryAssumption
<1>4. vd \in Nat
  BY <1>1, RayMulNat DEF Market
<1>5. r = calculateInterestRates(st, 0, left, sd, vd, 0, rf)
  BY <1>1 DEF newRates, calm
<1> HIDE DEF sd, vd, left, rf, st
<1>6. r1 = 0 /\ r2 = 0
  BY <1>1, <1>2, <1>3, <1>4, <1>5, GratisRates
<1>7. n = [m EXCEPT !.currentLiquidityRate = r1, !.currentStableBorrowRate = r2,
                    !.currentVariableBorrowRate = r3]
  BY DEF withRates, updateInterestRates, rf, st
<1> HIDE DEF r1, r2, r3
<1>8. n.currentLiquidityRate = 0 /\ n.currentStableBorrowRate = 0 /\ n.sAvg = m.sAvg
  BY <1>1, <1>6, <1>7 DEF Market
<1>9. Good(n, now) /\ sameClock(m, n)
  BY RatesGood
<1> QED
  BY <1>8, <1>9 DEF calm, atPar, sameClock, Accrued

\* Liquidity, lTokens and variable debt do not touch what a reserve asks for.
LEMMA CalmTokens ==
    ASSUME NEW m \in Market, calm(m), NEW u, NEW w, NEW x, NEW index, NEW n,
           \/ n = lMint(m, u, x, index)
           \/ n = lBurn(m, u, x, index)
           \/ n = lTransfer(m, u, w, x, index)
           \/ n = vMint(m, u, x, index)
           \/ n = vBurn(m, u, x, index)
           \/ n = [m EXCEPT !.avail = x]
    PROVE  calm(n)
  BY DEF Market, calm, atPar, lMint, lBurn, lTransfer, vMint, vBurn

\* Nothing accrues.
LEMMA CalmAccrued ==
    ASSUME Inv, NEW a \in Assets, NEW m, Good(m, now), calm(m), NEW n, n = accrue(m, a)
    PROVE  calm(n) /\ Accrued(n, now) /\ Good(n, now)
<1> DEFINE rf == config[a].reserveFactor
           k  == _updateIndexes(m, now)
<1>1. now \in Nat /\ rf \in Nat /\ m \in Market
  BY ReserveFacts DEF Good
<1>2. atPar(n) /\ Accrued(n, now) /\ n.sAvg = m.sAvg
  BY <1>1, FlatAccrual, UpdateState DEF accrue, calm
<1>3. k.currentLiquidityRate = 0 /\ k.currentStableBorrowRate = 0 /\ k \in Market
  <2>1. k \in Market
    BY <1>1, UpdateIndexes DEF Accrued, Good
  <2> QED
    BY <1>1, <2>1 DEF _updateIndexes, Market, calm
<1>4. \/ n = k
      \/ \E x, index : n = lMint(k, Treasury, x, index)
  BY DEF accrue, updateState, _mintToTreasury, mintToTreasury
<1> HIDE DEF k
<1>5. n.currentLiquidityRate = 0 /\ n.currentStableBorrowRate = 0
  BY <1>3, <1>4 DEF Market, lMint
<1> QED
  BY <1>2, <1>5 DEF calm, Accrued

\* A loan at no rate does not raise the average.
LEMMA CalmMint ==
    ASSUME Inv, NEW m, Accrued(m, now), calm(m), NEW u \in Users, NEW amount \in Nat,
           NEW mode \in DebtModes, mintDebtOK(m, u, amount, mode),
           NEW n, n = mintDebt(m, u, amount, mode)
    PROVE  calm(n) /\ Accrued(n, now) /\ Good(n, now)
<1>1. now \in Nat /\ Good(m, now) /\ m \in Market
  BY PoolTyped DEF Accrued, Good
<1>2. Accrued(n, now)
  BY MintDebt
<1>3. CASE mode = "stable"
  <2> DEFINE previous == sTotalSupply(m, now)
             next     == previous + amount
             avg      == rayDiv(rayMul(m.sAvg, wadToRay(previous)) + rayMul(0, wadToRay(amount)),
                                wadToRay(next))
  <2>1. m.sAvg = 0 /\ m.currentStableBorrowRate = 0
    BY DEF calm
  <2>2. sMintOK(m, u, amount, 0, now) /\ n = sMint(m, u, amount, 0, now)
    BY <1>3, <2>1 DEF mintDebtOK, mintDebt
  <2>3. previous \in Nat /\ next \in Nat /\ next > 0
    BY <1>1, <2>2, Balances DEF sMintOK
  <2>4. wadToRay(previous) \in Nat /\ wadToRay(amount) \in Nat
        /\ wadToRay(next) \in Nat /\ wadToRay(next) > 0
    BY <2>3, WadToRayNat
  <2>5. rayMul(0, wadToRay(previous)) + rayMul(0, wadToRay(amount)) = 0
    BY <2>4, RayMulZero
  <2>6. avg = 0
    BY <2>1, <2>4, <2>5, RayDivZero
  <2>7. /\ n.sAvg = avg /\ n.currentLiquidityRate = m.currentLiquidityRate
        /\ n.currentStableBorrowRate = m.currentStableBorrowRate
        /\ n.liquidityIndex = m.liquidityIndex
        /\ n.variableBorrowIndex = m.variableBorrowIndex
    BY <1>1, <2>2 DEF sMint, Market
  <2> HIDE DEF avg
  <2> QED
    BY <1>2, <2>6, <2>7 DEF calm, atPar, Accrued
<1>4. CASE mode # "stable"
  <2>1. n = vMint(m, u, amount, m.variableBorrowIndex)
    BY <1>4 DEF mintDebt
  <2> QED
    BY <1>1, <1>2, <2>1, CalmTokens DEF Accrued
<1> QED
  BY <1>3, <1>4

\* Nor does its repayment: a stable debt repaid at a rate above the average leaves
\* an average of zero.
LEMMA CalmBurn ==
    ASSUME Inv, NEW m, Accrued(m, now), calm(m), NEW u \in Users, NEW amount \in Nat,
           NEW mode \in DebtModes, burnDebtOK(m, u, amount, mode),
           NEW n, n = burnDebt(m, u, amount, mode)
    PROVE  calm(n) /\ Accrued(n, now) /\ Good(n, now)
<1>1. now \in Nat /\ Good(m, now) /\ m \in Market
  BY PoolTyped DEF Accrued, Good
<1>2. Accrued(n, now)
  BY BurnDebt
<1>3. CASE mode = "stable"
  <2> DEFINE previous == sTotalSupply(m, now)
             first    == rayMul(m.sAvg, wadToRay(previous))
             second   == rayMul(m.sRate[u], wadToRay(amount))
             emptied  == previous <= amount \/ second >= first
             avg      == IF emptied THEN 0
                         ELSE rayDiv(first - second, wadToRay(previous - amount))
  <2>1. m.sAvg = 0 /\ m.sRate[u] \in Nat
    BY <1>1 DEF calm, Market
  <2>2. n = sBurn(m, u, amount, now)
    BY <1>3 DEF burnDebt
  <2>3. previous \in Nat
    BY <1>1, Balances
  <2>4. wadToRay(previous) \in Nat /\ wadToRay(amount) \in Nat
    BY <2>3, WadToRayNat
  <2>5. first = 0 /\ second \in Nat
    BY <2>1, <2>4, RayMulZero, RayMulNat
  <2>6. /\ n.sAvg = avg /\ n.currentLiquidityRate = m.currentLiquidityRate
        /\ n.currentStableBorrowRate = m.currentStableBorrowRate
        /\ n.liquidityIndex = m.liquidityIndex
        /\ n.variableBorrowIndex = m.variableBorrowIndex
    BY <1>1, <2>2 DEF sBurn, Market
  <2> HIDE DEF first, second
  <2>7. avg = 0
    BY <2>5
  <2> HIDE DEF avg
  <2> QED
    BY <1>2, <2>6, <2>7 DEF calm, atPar, Accrued
<1>4. CASE mode # "stable"
  <2>1. n = vBurn(m, u, amount, m.variableBorrowIndex)
    BY <1>4 DEF burnDebt
  <2> QED
    BY <1>1, <1>2, <2>1, CalmTokens DEF Accrued
<1> QED
  BY <1>3, <1>4

\* A liquidation burns both kinds.
LEMMA CalmLiquidating ==
    ASSUME Inv, NEW m, Accrued(m, now), calm(m), NEW u \in Users, NEW amount \in Nat,
           NEW variableDebt \in Nat, burnLiquidatedDebtOK(m, u, amount, variableDebt),
           NEW n, n = burnLiquidatedDebt(m, u, amount, variableDebt)
    PROVE  calm(n) /\ Good(n, now)
<1> DEFINE index == m.variableBorrowIndex
           k == vBurn(m, u, variableDebt, index)
           rest == amount - variableDebt
<1>1. "stable" \in DebtModes /\ "variable" \in DebtModes
  BY DEF DebtModes, InterestRateMode
<1>2. ASSUME NEW y \in Nat, vBurnOK(m, u, y, index), NEW j, j = vBurn(m, u, y, index)
      PROVE  calm(j) /\ Accrued(j, now) /\ Good(j, now)
  BY <1>1, <1>2, CalmBurn DEF burnDebtOK, burnDebt
<1>3. ASSUME NEW j, Accrued(j, now), calm(j), NEW y \in Nat, sBurnOK(j, u, y, now),
             NEW i, i = sBurn(j, u, y, now)
      PROVE  calm(i) /\ Good(i, now)
  BY <1>1, <1>3, CalmBurn DEF burnDebtOK, burnDebt
<1>4. CASE variableDebt >= amount
  BY <1>2, <1>4 DEF burnLiquidatedDebtOK, burnLiquidatedDebt
<1>5. CASE ~(variableDebt >= amount) /\ variableDebt > 0
  <2>1. /\ vBurnOK(m, u, variableDebt, index) /\ sBurnOK(m, u, rest, now)
        /\ n = sBurn(k, u, rest, now) /\ rest \in Nat
    BY <1>5 DEF burnLiquidatedDebtOK, burnLiquidatedDebt
  <2>2. calm(k) /\ Accrued(k, now)
    BY <1>2, <2>1
  <2>3. sameStable(m, k)
    BY DEF vBurn, sameStable, Market, Accrued, Good
  <2> HIDE DEF k, rest
  <2>4. sBurnOK(k, u, rest, now)
    BY <2>1, <2>3, StableUnmoved DEF sBurnOK
  <2> QED
    BY <1>3, <2>1, <2>2, <2>4
<1>6. CASE variableDebt = 0 /\ ~(variableDebt >= amount)
  <2>1. /\ rest \in Nat /\ n = sBurn(m, u, rest, now) /\ sBurnOK(m, u, rest, now)
    BY <1>6 DEF burnLiquidatedDebtOK, burnLiquidatedDebt
  <2> HIDE DEF rest
  <2> QED
    BY <1>3, <2>1
<1> QED
  BY <1>4, <1>5, <1>6

\* The premiums of a flash loan stay while its loops proceed.
LEMMA FreeOn ==
    ASSUME Inv, PremiumsFree, flash # <<>>, NEW f \in Frame, f.loans = innermost.loans,
           flash' = [flash EXCEPT ![Len(flash)] = f]
    PROVE  PremiumsFree'
<1>1. flash \in Seq(Frame) /\ Len(flash) \in Nat /\ Len(flash) >= 1
  BY Innermost
<1>2. freeFrame(f)
  BY <1>1 DEF PremiumsFree, freeFrame, innermost
<1>3. /\ Len(flash') = Len(flash)
      /\ \A i \in 1..Len(flash) : flash'[i] = IF i = Len(flash) THEN f ELSE flash[i]
  BY <1>1
<1> QED
  BY <1>2, <1>3 DEF PremiumsFree

\* A flash loan that is over is one less.
LEMMA FreePopped ==
    ASSUME Inv, PremiumsFree, flash # <<>>, flash' = SubSeq(flash, 1, Len(flash) - 1)
    PROVE  PremiumsFree'
<1>1. flash \in Seq(Frame) /\ Len(flash) \in Nat /\ Len(flash) >= 1
  BY Innermost
<1> DEFINE k == Len(flash) - 1
<1>2. k \in Int /\ k >= 0 /\ \A i \in 1..k : flash[i] \in Frame /\ i \in 1..Len(flash)
  BY <1>1
<1> HIDE DEF k
<1>3. /\ Len(flash') = IF 1 <= k THEN k - 1 + 1 ELSE 0
      /\ \A i \in 1..(k - 1 + 1) : flash'[i] = flash[1 + i - 1]
  BY <1>2, SubSeqProperties DEF k
<1>4. Len(flash') = k /\ \A i \in 1..k : flash'[i] = flash[i]
  BY <1>2, <1>3
<1> QED
  BY <1>2, <1>4 DEF PremiumsFree

\* The next turn of a loop.
LEMMA FreeNext ==
    ASSUME Inv, PremiumsFree, flash # <<>>, innermost.next < Len(innermost.loans),
           flash' = [flash EXCEPT ![Len(flash)] = [innermost EXCEPT !.next = @ + 1]]
    PROVE  PremiumsFree'
<1> DEFINE x == innermost.next + 1
           f == [innermost EXCEPT !.next = x]
<1>1. innermost \in Frame /\ x \in Nat
  BY TopFrame
<1>2. flash' = [flash EXCEPT ![Len(flash)] = f]
  OBVIOUS
<1> HIDE DEF x
<1>3. f \in Frame /\ f.loans = innermost.loans
  BY <1>1 DEF Frame
<1> HIDE DEF f
<1> QED
  BY <1>2, <1>3, FreeOn

\* The first turn of a loop.
LEMMA FreeFirst ==
    ASSUME Inv, PremiumsFree, flash # <<>>, NEW phase \in Phase,
           flash' = [flash EXCEPT ![Len(flash)] =
                       [innermost EXCEPT !.phase = phase, !.next = 1]]
    PROVE  PremiumsFree'
<1> DEFINE f == [innermost EXCEPT !.phase = phase, !.next = 1]
<1>1. innermost \in Frame
  BY TopFrame
<1>2. f \in Frame /\ f.loans = innermost.loans
  BY <1>1 DEF Frame
<1>3. flash' = [flash EXCEPT ![Len(flash)] = f]
  OBVIOUS
<1> HIDE DEF f
<1> QED
  BY <1>2, <1>3, FreeOn

\* A loan that is settled.
LEMMA FreeSettled ==
    ASSUME Inv, PremiumsFree, flash # <<>>, flash' = settled
    PROVE  PremiumsFree'
<1>1. CASE innermost.next < Len(innermost.loans)
  <2>1. flash' = [flash EXCEPT ![Len(flash)] = [innermost EXCEPT !.next = @ + 1]]
    BY <1>1 DEF settled, nextLoan
  <2> QED
    BY <1>1, <2>1, FreeNext
<1>2. CASE ~(innermost.next < Len(innermost.loans))
  <2>1. flash' = SubSeq(flash, 1, Len(flash) - 1)
    BY <1>2 DEF settled, nextLoan
  <2> QED
    BY <2>1, FreePopped
<1> QED
  BY <1>1, <1>2

\* A loan that is lent.
LEMMA FreeLent ==
    ASSUME Inv, PremiumsFree, lendFlashLoan
    PROVE  PremiumsFree'
<1>1. /\ flash # <<>>
      /\ flash' = nextLoan([flash EXCEPT ![Len(flash)] =
                              [innermost EXCEPT !.phase = "callback", !.next = 1]])
  BY DEF lendFlashLoan, inPhase
<1>2. CASE innermost.next < Len(innermost.loans)
  <2>1. flash' = [flash EXCEPT ![Len(flash)] = [innermost EXCEPT !.next = @ + 1]]
    BY <1>1, <1>2 DEF nextLoan
  <2> QED
    BY <1>1, <1>2, <2>1, FreeNext
<1>3. CASE ~(innermost.next < Len(innermost.loans))
  <2>1. flash' = [flash EXCEPT ![Len(flash)] =
                    [innermost EXCEPT !.phase = "callback", !.next = 1]]
    BY <1>1, <1>3 DEF nextLoan
  <2>2. "callback" \in Phase
    BY DEF Phase
  <2> QED
    BY <1>1, <2>1, <2>2, FreeFirst
<1> QED
  BY <1>2, <1>3

\* A flash loan that starts has no premiums, or does not start.
LEMMA FreeStarted ==
    ASSUME FreeTerms, Inv, PremiumsFree, NEW initiator \in Users, NEW receiver \in Users,
           NEW onBehalfOf \in Users, NEW loans \in LoansArgs,
           flashLoan(initiator, receiver, onBehalfOf, loans)
    PROVE  PremiumsFree'
<1> DEFINE loanOf(i) == [ asset |-> loans[i].asset, amount |-> loans[i].amount,
                          mode |-> loans[i].mode, premium |-> premiumOf(loans[i].amount) ]
           all == [i \in DOMAIN loans |-> loanOf(i)]
           f == [ initiator |-> initiator, receiver |-> receiver,
                  onBehalfOf |-> onBehalfOf, phase |-> "lending", next |-> 1,
                  loans |-> all ]
<1>1. flash' = Append(flash, f) /\ Len(flash) < MaxFlashDepth
  BY DEF flashLoan
<1>2. flash \in Seq(Frame) /\ Len(flash) \in Nat
  BY DEF Inv, TypeOK
<1>3. FLASHLOAN_PREMIUM_TOTAL = 0
  BY <1>1, <1>2, BoundsAssumption DEF FreeTerms
<1>4. PICK n \in 1..MaxLoans : loans \in [1..n -> LoanArgs]
  BY DEF LoansArgs
<1>5. ASSUME NEW i \in DOMAIN loans
      PROVE  all[i].premium = 0
  <2>1. loans[i].amount \in Nat
    BY <1>4, BoundsAssumption DEF LoanArgs
  <2>2. loans[i].amount * 0 = 0 /\ 0 \div 10000 = 0
    BY <2>1
  <2> QED
    BY <1>3, <2>2 DEF premiumOf
<1>6. DOMAIN all = DOMAIN loans /\ f.loans = all
  OBVIOUS
<1> HIDE DEF all, f
<1>7. freeFrame(f)
  BY <1>5, <1>6 DEF freeFrame
<1>8. /\ Len(flash') = Len(flash) + 1
      /\ \A i \in 1..Len(flash) : flash'[i] = flash[i]
      /\ flash'[Len(flash) + 1] = f
  BY <1>1, <1>2
<1>9. \A i \in 1..(Len(flash) + 1) : freeFrame(flash'[i])
  BY <1>2, <1>7, <1>8 DEF PremiumsFree
<1> QED
  BY <1>8, <1>9 DEF PremiumsFree

\* One reserve changes and stays calm.
LEMMA OneCalm ==
    ASSUME Inv, ReservesCalm, NEW asset \in Assets, NEW n, calm(n),
           reserves' = [reserves EXCEPT ![asset] = n]
    PROVE  ReservesCalm'
<1>1. reserves \in [Assets -> Market]
  BY DEF Inv, TypeOK
<1> QED
  BY <1>1 DEF ReservesCalm

\* What every operation starts with.
LEMMA CalmStart ==
    ASSUME Inv, ReservesCalm, NEW a \in Assets, NEW n, n = accrue(reserves[a], a)
    PROVE  calm(n) /\ Accrued(n, now) /\ Good(n, now) /\ now \in Nat
<1>1. Good(reserves[a], now) /\ now \in Nat
  BY ReserveFacts
<1>2. calm(reserves[a])
  BY DEF ReservesCalm
<1> QED
  BY <1>1, <1>2, CalmAccrued

\* deposit()
LEMMA DepositCalm ==
    ASSUME Inv, ReservesCalm, GratisNow, NEW sender \in Users, NEW asset \in Assets,
           NEW amount \in Nat, NEW u \in Users, deposit(sender, asset, amount, u)
    PROVE  ReservesCalm'
<1> DEFINE m1 == accrue(reserves[asset], asset)
           r  == withRates(m1, asset, amount, 0)
           x  == r.avail + amount
           k  == [r EXCEPT !.avail = x]
           n  == lMint(k, u, amount, k.liquidityIndex)
<1>1. ratesOK(m1, asset, amount, 0) /\ reserves' = [reserves EXCEPT ![asset] = n]
  BY DEF deposit
<1>2. calm(m1) /\ Good(m1, now) /\ now \in Nat /\ 0 \in Nat
  BY CalmStart
<1> HIDE DEF m1
<1>3. calm(r) /\ Good(r, now)
  BY <1>1, <1>2, CalmRates
<1>4. r \in Market /\ r.avail \in Nat
  BY <1>3 DEF Good, Market
<1> HIDE DEF r
<1>5. x \in Nat
  BY <1>4
<1>6. calm(k)
  BY <1>3, <1>4, CalmTokens
<1>7. k \in Market
  BY <1>2, <1>3, <1>4, <1>5, AvailGood
<1> HIDE DEF k
<1>8. calm(n)
  BY <1>6, <1>7, CalmTokens
<1> HIDE DEF n
<1> QED
  BY <1>1, <1>8, OneCalm

\* withdraw(), and a liquidation that burns the collateral.
LEMMA CalmPayingOut ==
    ASSUME Inv, GratisNow, NEW a \in Assets, NEW m, Good(m, now), calm(m), NEW u \in Users,
           NEW y \in Nat, NEW m1, m1 = accrue(m, a), NEW k, k = withRates(m1, a, 0, y),
           ratesOK(m1, a, 0, y), NEW n, n = lBurn(k, u, y, k.liquidityIndex)
    PROVE  calm(n)
<1>1. calm(m1) /\ Good(m1, now) /\ 0 \in Nat
  BY CalmAccrued
<1>2. calm(k) /\ Good(k, now)
  BY <1>1, CalmRates
<1>3. k \in Market
  BY <1>2 DEF Good
<1> QED
  BY <1>2, <1>3, CalmTokens

\* withdraw()
LEMMA WithdrawCalm ==
    ASSUME Inv, ReservesCalm, GratisNow, NEW sender \in Users, NEW asset \in Assets,
           NEW amount \in Nat, NEW to \in Users, withdraw(sender, asset, amount, to)
    PROVE  ReservesCalm'
<1> DEFINE m     == reserves[asset]
           taken == amountToWithdraw(sender, asset, amount)
           m1    == accrue(m, asset)
           k     == withRates(m1, asset, 0, taken)
           n     == lBurn(k, sender, taken, k.liquidityIndex)
<1>1. ratesOK(m1, asset, 0, taken) /\ reserves' = [reserves EXCEPT ![asset] = n]
  BY DEF withdraw, withdrawOK, reserveToWithdraw
<1>2. Good(m, now) /\ now \in Nat /\ calm(m)
  BY ReserveFacts DEF ReservesCalm
<1>3. taken \in Nat
  BY <1>2, Balances DEF amountToWithdraw
<1> HIDE DEF m, taken, m1, k, n
<1>4. calm(n)
  BY <1>1, <1>2, <1>3, CalmPayingOut DEF m1, k, n
<1> QED
  BY <1>1, <1>4, OneCalm

\* A transfer, a donation and a loan that is lent.
LEMMA TokensCalm ==
    ASSUME Inv, ReservesCalm, NEW asset \in Assets, NEW u, NEW w, NEW x, NEW index,
           \/ reserves' = [reserves EXCEPT ![asset] =
                             lTransfer(reserves[asset], u, w, x, index)]
           \/ reserves' = [reserves EXCEPT ![asset] = [reserves[asset] EXCEPT !.avail = x]]
    PROVE  ReservesCalm'
<1>1. reserves[asset] \in Market /\ calm(reserves[asset])
  BY DEF Inv, TypeOK, ReservesCalm
<1>2. calm(lTransfer(reserves[asset], u, w, x, index))
  BY <1>1, CalmTokens
<1>3. calm([reserves[asset] EXCEPT !.avail = x])
  BY <1>1, CalmTokens
<1> QED
  BY <1>2, <1>3, OneCalm, Zenon

\* borrow(), and a flash loan that becomes a debt.
LEMMA BorrowCalm ==
    ASSUME Inv, ReservesCalm, GratisNow, NEW user \in Users, NEW u \in Users,
           NEW asset \in Assets, NEW amount \in Nat, NEW mode \in DebtModes,
           NEW release \in BOOLEAN, _executeBorrow(user, u, asset, amount, mode, release)
    PROVE  ReservesCalm'
<1> DEFINE m1 == accrue(reserves[asset], asset)
           m2 == mintDebt(m1, u, amount, mode)
           released == IF release THEN amount ELSE 0
           r  == withRates(m2, asset, 0, released)
           x  == r.avail - released
           n  == [r EXCEPT !.avail = x]
<1>1. /\ mintDebtOK(m1, u, amount, mode) /\ ratesOK(m2, asset, 0, released)
      /\ reserves' = [reserves EXCEPT ![asset] = n]
  BY DEF _executeBorrow
<1>2. calm(m1) /\ Accrued(m1, now) /\ 0 \in Nat /\ released \in Nat
  BY CalmStart
<1> HIDE DEF m1, released
<1>3. calm(m2) /\ Good(m2, now)
  BY <1>1, <1>2, CalmMint
<1> HIDE DEF m2
<1>4. calm(r) /\ Good(r, now)
  BY <1>1, <1>2, <1>3, CalmRates
<1>5. r \in Market
  BY <1>4 DEF Good
<1> HIDE DEF r, x
<1>6. calm(n)
  BY <1>4, <1>5, CalmTokens
<1> HIDE DEF n
<1> QED
  BY <1>1, <1>6, OneCalm

\* repay()
LEMMA RepayCalm ==
    ASSUME Inv, ReservesCalm, GratisNow, NEW sender \in Users, NEW asset \in Assets,
           NEW amount \in Nat, NEW mode \in DebtModes, NEW u \in Users,
           repay(sender, asset, amount, mode, u)
    PROVE  ReservesCalm'
<1> DEFINE paid == min(amount, debtOf(asset, u, mode))
           m1 == accrue(reserves[asset], asset)
           m2 == burnDebt(m1, u, paid, mode)
           r  == withRates(m2, asset, paid, 0)
           x  == r.avail + paid
           n  == [r EXCEPT !.avail = x]
<1>1. /\ burnDebtOK(m1, u, paid, mode) /\ ratesOK(m2, asset, paid, 0)
      /\ reserves' = [reserves EXCEPT ![asset] = n]
  BY DEF repay, repayOK, reserveRepaid
<1>2. 0 \in Nat /\ paid \in Nat
  BY DebtsNat DEF min
<1>3. calm(m1) /\ Accrued(m1, now)
  BY CalmStart
<1> HIDE DEF m1, paid
<1>4. calm(m2) /\ Good(m2, now)
  BY <1>1, <1>2, <1>3, CalmBurn
<1> HIDE DEF m2
<1>5. calm(r) /\ Good(r, now)
  BY <1>1, <1>2, <1>4, CalmRates
<1>6. r \in Market
  BY <1>5 DEF Good
<1> HIDE DEF r, x
<1>7. calm(n)
  BY <1>5, <1>6, CalmTokens
<1> HIDE DEF n
<1> QED
  BY <1>1, <1>7, OneCalm

\* A debt burnt and minted again.
LEMMA RemintCalm ==
    ASSUME Inv, ReservesCalm, GratisNow, NEW asset \in Assets, NEW u \in Users,
           NEW debt \in Nat, NEW mode \in DebtModes, NEW newMode \in DebtModes,
           NEW m1, m1 = accrue(reserves[asset], asset), burnDebtOK(m1, u, debt, mode),
           NEW m2, m2 = burnDebt(m1, u, debt, mode), mintDebtOK(m2, u, debt, newMode),
           NEW m3, m3 = mintDebt(m2, u, debt, newMode), ratesOK(m3, asset, 0, 0),
           reserves' = [reserves EXCEPT ![asset] = withRates(m3, asset, 0, 0)]
    PROVE  ReservesCalm'
<1> DEFINE n == withRates(m3, asset, 0, 0)
<1>1. calm(m1) /\ Accrued(m1, now) /\ 0 \in Nat
  BY CalmStart
<1>2. calm(m2) /\ Accrued(m2, now)
  BY <1>1, CalmBurn
<1>3. calm(m3) /\ Good(m3, now)
  BY <1>2, CalmMint
<1>4. calm(n)
  BY <1>1, <1>3, CalmRates
<1>5. reserves' = [reserves EXCEPT ![asset] = n]
  OBVIOUS
<1> HIDE DEF n
<1> QED
  BY <1>4, <1>5, OneCalm

\* swapBorrowRateMode()
LEMMA SwapCalm ==
    ASSUME Inv, ReservesCalm, GratisNow, NEW u \in Users, NEW asset \in Assets,
           NEW mode \in DebtModes, swapBorrowRateMode(u, asset, mode)
    PROVE  ReservesCalm'
<1> DEFINE debt    == debtOf(asset, u, mode)
           newMode == IF mode = "stable" THEN "variable" ELSE "stable"
           m1 == accrue(reserves[asset], asset)
           m2 == burnDebt(m1, u, debt, mode)
           m3 == mintDebt(m2, u, debt, newMode)
<1>1. /\ burnDebtOK(m1, u, debt, mode) /\ mintDebtOK(m2, u, debt, newMode)
      /\ ratesOK(m3, asset, 0, 0)
      /\ reserves' = [reserves EXCEPT ![asset] = withRates(m3, asset, 0, 0)]
  BY DEF swapBorrowRateMode
<1>2. newMode \in DebtModes
  BY DEF DebtModes, InterestRateMode
<1>3. debt \in Nat
  BY DebtsNat
<1>4. m1 = accrue(reserves[asset], asset) /\ m2 = burnDebt(m1, u, debt, mode)
      /\ m3 = mintDebt(m2, u, debt, newMode)
  OBVIOUS
<1> HIDE DEF debt, newMode, m1, m2, m3
<1> QED
  BY <1>1, <1>2, <1>3, <1>4, RemintCalm

\* rebalanceStableBorrowRate()
LEMMA RebalancedCalm ==
    ASSUME Inv, ReservesCalm, GratisNow, NEW asset \in Assets, NEW u \in Users,
           rebalanceStableBorrowRate(asset, u)
    PROVE  ReservesCalm'
<1> DEFINE debt == stableDebtOf(asset, u)
           m1 == accrue(reserves[asset], asset)
           m2 == burnDebt(m1, u, debt, "stable")
           m3 == mintDebt(m2, u, debt, "stable")
<1>1. /\ burnDebtOK(m1, u, debt, "stable") /\ mintDebtOK(m2, u, debt, "stable")
      /\ ratesOK(m3, asset, 0, 0)
      /\ reserves' = [reserves EXCEPT ![asset] = withRates(m3, asset, 0, 0)]
  BY DEF rebalanceStableBorrowRate, burnDebt, burnDebtOK
<1>2. "stable" \in DebtModes
  BY DEF DebtModes, InterestRateMode
<1>3. debt \in Nat
  BY <1>2, DebtsNat
<1>4. m1 = accrue(reserves[asset], asset) /\ m2 = burnDebt(m1, u, debt, "stable")
      /\ m3 = mintDebt(m2, u, debt, "stable")
  OBVIOUS
<1> HIDE DEF debt, m1, m2, m3
<1> QED
  BY <1>1, <1>2, <1>3, <1>4, RemintCalm

\* liquidationCall(): the debt reserve, then the collateral reserve, which may be
\* the same.
LEMMA LiquidationCalm ==
    ASSUME Inv, ReservesCalm, GratisNow, NEW sender \in Users, NEW c \in Assets,
           NEW d \in Assets, NEW u \in Users, NEW cover \in Nat,
           NEW receiveLToken \in BOOLEAN,
           liquidationCall(sender, c, d, u, cover, receiveLToken)
    PROVE  ReservesCalm'
<1> DEFINE seized == liquidated(c, d, u, cover).collateral
           debt   == liquidated(c, d, u, cover).debt
           variable == variableDebtOf(d, u)
           m1 == accrue(reserves[d], d)
           m2 == burnLiquidatedDebt(m1, u, debt, variable)
           r  == withRates(m2, d, debt, 0)
           rs == [reserves EXCEPT ![d] = r]
           k  == seize(rs[c], c, sender, u, seized, receiveLToken)
           rs1 == [rs EXCEPT ![c] = k]
           x  == rs1[d].avail + debt
           n  == [rs1[d] EXCEPT !.avail = x]
<1>1. /\ burnLiquidatedDebtOK(m1, u, debt, variable) /\ ratesOK(m2, d, debt, 0)
      /\ seizeOK(rs[c], c, u, seized, receiveLToken)
      /\ priced(c) /\ priced(d)
      /\ reserves' = [rs1 EXCEPT ![d] = n]
  BY DEF liquidationCall, liquidationCallOK, validateLiquidationCall, debtReserveBurnt,
         reservesBurnt
<1>2. seized \in Nat /\ debt \in Nat /\ 0 \in Nat
  BY <1>1, LiquidatedNat
<1>3. variable \in Nat
  <2>1. "stable" \in DebtModes
    BY DEF DebtModes, InterestRateMode
  <2> QED
    BY <2>1, DebtsNat
<1>4. calm(m1) /\ Accrued(m1, now)
  BY CalmStart
<1> HIDE DEF seized, debt, variable, m1
<1>5. calm(m2) /\ Good(m2, now)
  BY <1>1, <1>2, <1>3, <1>4, CalmLiquidating
<1> HIDE DEF m2
<1>6. calm(r) /\ Good(r, now)
  BY <1>1, <1>2, <1>5, CalmRates
<1> HIDE DEF r
<1>7. rs \in [Assets -> Market] /\ \A a \in Assets : calm(rs[a]) /\ Good(rs[a], now)
  <2>1. reserves \in [Assets -> Market] /\ r \in Market
    BY <1>6 DEF Inv, TypeOK, Good
  <2>2. \A a \in Assets : calm(reserves[a]) /\ Good(reserves[a], now)
    BY ReserveFacts DEF ReservesCalm
  <2> QED
    BY <1>6, <2>1, <2>2
<1> HIDE DEF rs
<1>8. calm(k) /\ k \in Market
  <2> DEFINE j == rs[c]
  <2>1. calm(j) /\ Good(j, now) /\ j \in Market
    BY <1>7
  <2>2. k \in Market
    BY <1>1, <1>2, <2>1, Seized DEF Good
  <2>3. CASE receiveLToken
    <3>1. k = lTransfer(j, u, sender, seized, getNormalizedIncome(j, now))
      BY <2>3 DEF seize
    <3> HIDE DEF j, k
    <3> QED
      BY <2>1, <2>2, <3>1, CalmTokens
  <2>4. CASE ~receiveLToken
    <3> DEFINE j1 == accrue(j, c)
               i  == withRates(j1, c, 0, seized)
    <3>1. ratesOK(j1, c, 0, seized) /\ k = lBurn(i, u, seized, i.liquidityIndex)
      BY <1>1, <2>4 DEF seizeOK, seize
    <3> HIDE DEF j, j1, i, k
    <3>2. calm(k)
      BY <1>2, <2>1, <3>1, CalmPayingOut DEF j1, i
    <3> QED
      BY <2>2, <3>2
  <2> QED
    BY <2>3, <2>4
<1> HIDE DEF k
<1>9. rs1 \in [Assets -> Market] /\ \A a \in Assets : calm(rs1[a])
  BY <1>7, <1>8
<1> HIDE DEF rs1
<1>10. calm(n)
  <2>1. rs1[d] \in Market /\ calm(rs1[d])
    BY <1>9
  <2> HIDE DEF x
  <2> QED
    BY <2>1, CalmTokens
<1> HIDE DEF n
<1> QED
  BY <1>1, <1>9, <1>10 DEF ReservesCalm

\* A flash loan collected without a premium leaves the index alone.
LEMMA CollectCalm ==
    ASSUME Inv, Calm, collectFlashLoan
    PROVE  ReservesCalm'
<1> DEFINE ln == innermost.loans[innermost.next]
           d  == ln.asset
           premium == ln.premium
           back == ln.amount + premium
           m1 == accrue(reserves[d], d)
           m2 == cumulateToLiquidityIndex(m1, premium, now)
           r  == withRates(m2, d, back, 0)
           x  == r.avail + back
           n  == [r EXCEPT !.avail = x]
<1>1. /\ flash # <<>> /\ cumulateToLiquidityIndexOK(m1, premium, now)
      /\ ratesOK(m2, d, back, 0) /\ reserves' = [reserves EXCEPT ![d] = n]
  BY DEF collectFlashLoan, inPhase
<1>2. d \in Assets /\ ln.amount \in Nat /\ premium \in Nat
  BY <1>1, LoanTyped
<1>3. premium = 0
  <2>1. /\ flash \in Seq(Frame) /\ innermost = flash[Len(flash)] /\ innermost \in Frame
        /\ innermost.next \in 1..Len(innermost.loans)
    BY <1>1, TopFrame
  <2>2. Len(flash) \in 1..Len(flash)
    <3>1. Len(flash) \in Nat /\ Len(flash) >= 1
      BY <1>1, Innermost
    <3> QED
      BY <3>1
  <2>3. freeFrame(innermost)
    BY <2>1, <2>2 DEF Calm, PremiumsFree
  <2>4. innermost.next \in DOMAIN innermost.loans
    BY <2>1 DEF Frame
  <2> QED
    BY <2>3, <2>4 DEF freeFrame
<1>4. back \in Nat /\ 0 \in Nat
  BY <1>2
<1> HIDE DEF ln, d, premium, back
<1>5. calm(m1) /\ Accrued(m1, now) /\ Good(m1, now) /\ now \in Nat
  BY <1>2, CalmStart DEF Calm
<1> HIDE DEF m1
<1>6. calm(m2) /\ Good(m2, now)
  <2> DEFINE total == wadToRay(lTotalSupply(m1, now))
             index == cumulatedLiquidityIndex(m1, premium, now)
  <2>1. m1 \in Market /\ m1.liquidityIndex = RAY
    BY <1>5 DEF Good, calm, atPar
  <2>2. lTotalSupply(m1, now) \in Nat /\ lTotalSupply(m1, now) > 0
    BY <1>1, <1>5, Balances, TreasuryAssumption DEF cumulateToLiquidityIndexOK
  <2>3. total \in Nat /\ total > 0
    BY <2>2, WadToRayNat
  <2>4. wadToRay(premium) = 0
    BY <1>3, WadRayRatio DEF wadToRay
  <2>5. rayDiv(0, total) = 0
    BY <2>3, RayDivZero
  <2>6. index = rayMul(rayDiv(wadToRay(premium), total) + RAY, m1.liquidityIndex)
    BY DEF cumulatedLiquidityIndex
  <2>7. 0 + RAY = RAY /\ RAY \in Nat
    BY RayAssumption
  <2>8. index = rayMul(RAY, RAY)
    BY <2>1, <2>4, <2>5, <2>6, <2>7
  <2>9. index = RAY
    BY <2>7, <2>8, RayMulOne
  <2>10. m2 = [m1 EXCEPT !.liquidityIndex = index]
    BY DEF cumulateToLiquidityIndex
  <2>11. Good(m2, now)
    BY <1>1, <1>2, <1>5, Cumulate DEF Accrued
  <2> HIDE DEF index
  <2>12. calm(m2)
    BY <1>5, <2>1, <2>9, <2>10 DEF Market, calm, atPar
  <2> QED
    BY <2>11, <2>12
<1> HIDE DEF m2
<1>7. calm(r) /\ Good(r, now)
  BY <1>1, <1>2, <1>4, <1>6, CalmRates DEF Calm
<1>8. r \in Market
  BY <1>7 DEF Good
<1> HIDE DEF r, x
<1>9. calm(n)
  BY <1>7, <1>8, CalmTokens
<1> HIDE DEF n
<1> QED
  BY <1>1, <1>2, <1>9, OneCalm DEF Calm

\* What users do.
LEMMA UserCalm ==
    ASSUME Inv, ReservesCalm, GratisNow, UserStep
    PROVE  ReservesCalm' /\ flash' = flash /\ UNCHANGED environment
<1>1. PICK u \in Users, w \in Users, a \in Assets :
       \/ \E amount \in Amounts :
            \/ deposit(u, a, amount, w)
            \/ transfer(u, a, w, amount)
            \/ \E mode \in DebtModes : borrow(u, a, amount, mode, w)
       \/ \E amount \in AmountArgs :
            \/ withdraw(u, a, amount, w)
            \/ \E mode \in DebtModes : repay(u, a, amount, mode, w)
            \/ \E c \in Assets, receiveLToken \in BOOLEAN :
                 liquidationCall(u, c, a, w, amount, receiveLToken)
  BY DEF UserStep, UserStepOf
<1>2. Amounts \subseteq Nat /\ AmountArgs \subseteq Nat
  BY BoundsAssumption, UintAssumption DEF AmountArgs
<1>3. ASSUME NEW amount \in Amounts, deposit(u, a, amount, w)
      PROVE  ReservesCalm' /\ flash' = flash /\ UNCHANGED environment
  <2>1. flash' = flash /\ UNCHANGED environment
    BY <1>3 DEF deposit
  <2> QED
    BY <1>2, <1>3, <2>1, DepositCalm
<1>4. ASSUME NEW amount \in Amounts, transfer(u, a, w, amount)
      PROVE  ReservesCalm' /\ flash' = flash /\ UNCHANGED environment
  <2>1. /\ flash' = flash /\ UNCHANGED environment
        /\ reserves' = [reserves EXCEPT ![a] = lTransfer(reserves[a], u, w, amount,
                                                 getNormalizedIncome(reserves[a], now))]
    BY <1>4 DEF transfer
  <2> QED
    BY <2>1, TokensCalm
<1>5. ASSUME NEW amount \in Amounts, NEW mode \in DebtModes, borrow(u, a, amount, mode, w)
      PROVE  ReservesCalm' /\ flash' = flash /\ UNCHANGED environment
  <2>1. /\ flash' = flash /\ UNCHANGED environment
        /\ _executeBorrow(u, w, a, amount, mode, TRUE)
    BY <1>5 DEF borrow
  <2> QED
    BY <1>2, <2>1, BorrowCalm
<1>6. ASSUME NEW amount \in AmountArgs, withdraw(u, a, amount, w)
      PROVE  ReservesCalm' /\ flash' = flash /\ UNCHANGED environment
  <2>1. flash' = flash /\ UNCHANGED environment
    BY <1>6 DEF withdraw
  <2> QED
    BY <1>2, <1>6, <2>1, WithdrawCalm
<1>7. ASSUME NEW amount \in AmountArgs, NEW mode \in DebtModes,
             repay(u, a, amount, mode, w)
      PROVE  ReservesCalm' /\ flash' = flash /\ UNCHANGED environment
  <2>1. flash' = flash /\ UNCHANGED environment
    BY <1>7 DEF repay
  <2> QED
    BY <1>2, <1>7, <2>1, RepayCalm
<1>8. ASSUME NEW amount \in AmountArgs, NEW c \in Assets, NEW receiveLToken \in BOOLEAN,
             liquidationCall(u, c, a, w, amount, receiveLToken)
      PROVE  ReservesCalm' /\ flash' = flash /\ UNCHANGED environment
  <2>1. flash' = flash /\ UNCHANGED environment
    BY <1>8 DEF liquidationCall
  <2> QED
    BY <1>2, <1>8, <2>1, LiquidationCalm
<1> QED
  BY <1>1, <1>3, <1>4, <1>5, <1>6, <1>7, <1>8

\* What asks for interest is as it was.
LEMMA CalmKept ==
    ASSUME Calm, ReservesCalm', UNCHANGED environment, PremiumsFree'
    PROVE  Calm'
  BY DEF Calm, GratisNow, environment

\* The same flash loans have the same premiums.
LEMMA FreeKept ==
    ASSUME PremiumsFree, flash' = flash
    PROVE  PremiumsFree'
  BY DEF PremiumsFree

\* What users do to their positions.
LEMMA PositionCalm ==
    ASSUME Inv, Calm, PositionStep
    PROVE  Calm'
<1>1. ReservesCalm /\ GratisNow /\ PremiumsFree
  BY DEF Calm
<1>2. PICK u \in Users, a \in Assets :
       \/ rebalanceStableBorrowRate(a, u)
       \/ \E flag \in BOOLEAN : setUserUseReserveAsCollateral(u, a, flag)
       \/ \E mode \in DebtModes : swapBorrowRateMode(u, a, mode)
       \/ \E mode \in DebtModes, w \in Users \ {u}, amount \in Delegations :
            approveDelegation(u, a, mode, w, amount)
       \/ \E amount \in Donations : donate(u, a, amount)
  BY DEF PositionStep, PositionStepOf
<1>3. flash' = flash /\ UNCHANGED environment
  BY <1>2 DEF rebalanceStableBorrowRate, setUserUseReserveAsCollateral, swapBorrowRateMode,
              approveDelegation, donate
<1>4. ReservesCalm'
  <2>1. CASE rebalanceStableBorrowRate(a, u)
    BY <1>1, <2>1, RebalancedCalm
  <2>2. CASE \/ \E flag \in BOOLEAN : setUserUseReserveAsCollateral(u, a, flag)
             \/ \E mode \in DebtModes, w \in Users \ {u}, amount \in Delegations :
                  approveDelegation(u, a, mode, w, amount)
    <3>1. reserves' = reserves
      BY <2>2 DEF setUserUseReserveAsCollateral, approveDelegation
    <3> QED
      BY <1>1, <3>1 DEF ReservesCalm
  <2>3. CASE \E mode \in DebtModes : swapBorrowRateMode(u, a, mode)
    BY <1>1, <2>3, SwapCalm
  <2>4. CASE \E amount \in Donations : donate(u, a, amount)
    <3>1. PICK amount \in Donations :
            reserves' = [reserves EXCEPT ![a] = [reserves[a] EXCEPT !.avail = @ + amount]]
      BY <2>4 DEF donate
    <3> DEFINE x == reserves[a].avail + amount
    <3>2. reserves' = [reserves EXCEPT ![a] = [reserves[a] EXCEPT !.avail = x]]
      BY <3>1
    <3> HIDE DEF x
    <3> QED
      BY <1>1, <3>2, TokensCalm
  <2> QED
    BY <1>2, <2>1, <2>2, <2>3, <2>4
<1> QED
  BY <1>1, <1>3, <1>4, CalmKept, FreeKept

\* Flash loans.
LEMMA FlashCalm ==
    ASSUME FreeTerms, Inv, Calm, FlashStep
    PROVE  Calm'
<1>1. ReservesCalm /\ GratisNow /\ PremiumsFree
  BY DEF Calm
<1>2. CASE \E u \in Users, r \in Users, w \in Users, loans \in LoansArgs :
             flashLoan(u, r, w, loans)
  <2>1. PICK u \in Users, r \in Users, w \in Users, loans \in LoansArgs :
          flashLoan(u, r, w, loans)
    BY <1>2
  <2>2. UNCHANGED environment /\ ReservesCalm'
    BY <1>1, <2>1 DEF flashLoan, ReservesCalm
  <2>3. PremiumsFree'
    BY <1>1, <2>1, FreeStarted
  <2> QED
    BY <2>2, <2>3, CalmKept
<1>3. CASE lendFlashLoan
  <2> DEFINE ln == innermost.loans[innermost.next]
             d  == ln.asset
             x  == reserves[d].avail - ln.amount
  <2>1. /\ flash # <<>> /\ UNCHANGED environment
        /\ reserves' = [reserves EXCEPT ![d] = [reserves[d] EXCEPT !.avail = x]]
    BY <1>3 DEF lendFlashLoan, inPhase
  <2>2. d \in Assets
    BY <2>1, LoanTyped
  <2> HIDE DEF d, x
  <2>3. ReservesCalm'
    BY <1>1, <2>1, <2>2, TokensCalm
  <2>4. PremiumsFree'
    BY <1>1, <1>3, FreeLent
  <2> QED
    BY <2>1, <2>3, <2>4, CalmKept
<1>4. CASE executeOperationReturns
  <2>1. /\ flash # <<>> /\ UNCHANGED environment /\ reserves' = reserves
        /\ flash' = [flash EXCEPT ![Len(flash)] =
                       [innermost EXCEPT !.phase = "settling", !.next = 1]]
    BY <1>4 DEF executeOperationReturns, inPhase
  <2>2. "settling" \in Phase
    BY DEF Phase
  <2>3. PremiumsFree'
    BY <1>1, <2>1, <2>2, FreeFirst
  <2>4. ReservesCalm'
    BY <1>1, <2>1 DEF ReservesCalm
  <2> QED
    BY <2>1, <2>3, <2>4, CalmKept
<1>5. CASE collectFlashLoan
  <2>1. flash # <<>> /\ UNCHANGED environment /\ flash' = settled
    BY <1>5 DEF collectFlashLoan, inPhase
  <2> QED
    BY <1>1, <1>5, <2>1, CollectCalm, FreeSettled, CalmKept
<1>6. CASE borrowFlashLoan
  <2> DEFINE ln   == innermost.loans[innermost.next]
             d    == ln.asset
             lent == ln.amount
             mode == ln.mode
  <2>1. /\ flash # <<>> /\ flash' = settled /\ UNCHANGED environment /\ mode # "none"
        /\ _executeBorrow(innermost.initiator, innermost.onBehalfOf, d, lent, mode, FALSE)
    BY <1>6 DEF borrowFlashLoan, inPhase
  <2>2. /\ d \in Assets /\ lent \in Nat /\ mode \in DebtModes
        /\ innermost.initiator \in Users /\ innermost.onBehalfOf \in Users
    BY <2>1, LoanTyped DEF DebtModes
  <2> HIDE DEF d, lent, mode
  <2>3. ReservesCalm'
    BY <1>1, <2>1, <2>2, BorrowCalm
  <2> QED
    BY <1>1, <2>1, <2>3, FreeSettled, CalmKept
<1> QED
  BY <1>2, <1>3, <1>4, <1>5, <1>6 DEF FlashStep, FlashStepOf

\* Time and the oracles.
LEMMA EnvironmentCalm ==
    ASSUME FreeTerms, Inv, Calm, EnvironmentStep
    PROVE  Calm'
<1>1. ReservesCalm /\ GratisNow /\ PremiumsFree
  BY DEF Calm
<1>2. config' = config /\ flash' = flash /\ reserves' = reserves
  BY DEF EnvironmentStep, Tick, setAssetPrice, setMarketBorrowRate
<1>3. \A a \in Assets : marketRates'[a] = 0
  <2>1. marketRates \in [Assets -> Nat] /\ \A a \in Assets : marketRates[a] = 0
    BY <1>1 DEF Inv, TypeOK, GratisNow
  <2>2. CASE \E a \in Assets, rate \in MarketRateValues : setMarketBorrowRate(a, rate)
    <3>1. PICK a \in Assets, rate \in MarketRateValues :
            marketRates' = [marketRates EXCEPT ![a] = rate]
      BY <2>2 DEF setMarketBorrowRate
    <3>2. rate = 0
      BY DEF FreeTerms
    <3> QED
      BY <2>1, <3>1, <3>2
  <2>3. CASE marketRates' = marketRates
    BY <2>1, <2>3
  <2> QED
    BY <2>2, <2>3 DEF EnvironmentStep, Tick, setAssetPrice
<1>4. GratisNow'
  BY <1>1, <1>2, <1>3 DEF GratisNow
<1>5. ReservesCalm'
  BY <1>1, <1>2 DEF ReservesCalm
<1> QED
  BY <1>1, <1>2, <1>4, <1>5, FreeKept DEF Calm

\* The state the pool is deployed in.
LEMMA CalmInit ==
    ASSUME FreeTerms, Init
    PROVE  Calm
<1>1. \A a \in Assets : reserves[a] = init
  BY DEF Init
<1>2. calm(init)
  BY DEF calm, atPar, init
<1>3. flash = <<>> /\ config = InitialConfig /\ marketRates = InitialMarketRates
  BY DEF Init
<1>4. PremiumsFree
  BY <1>3 DEF PremiumsFree
<1> QED
  BY <1>1, <1>2, <1>3, <1>4 DEF Calm, ReservesCalm, GratisNow, FreeTerms

\* Steps of the pool.
LEMMA CalmStep ==
    ASSUME FreeTerms, Inv, Calm, [Next]_vars
    PROVE  Calm'
<1>1. CASE UNCHANGED vars
  BY <1>1 DEF vars, Calm, ReservesCalm, GratisNow, PremiumsFree
<1>2. CASE UserStep
  BY <1>2, UserCalm, FreeKept, CalmKept DEF Calm
<1> QED
  BY <1>1, <1>2, PositionCalm, FlashCalm, EnvironmentCalm DEF Next

\* Steps of admins who may only choose strategies without interest.
LEMMA AdminCalm ==
    ASSUME Inv, Calm, AdminStep, \A st \in Strategies : gratis(st)
    PROVE  Calm'
<1>1. UNCHANGED others
  BY AdminTyped
<1>2. \A a \in Assets : gratis(config'[a].strategy)
  <2>1. config \in [Assets -> ReserveConfiguration]
    BY DEF Inv, TypeOK
  <2>2. \A a \in Assets : gratis(config[a].strategy)
    BY DEF Calm, GratisNow
  <2>3. ASSUME NEW a \in Assets, NEW k, gratis(k.strategy), setConfiguration(a, k)
        PROVE  \A b \in Assets : gratis(config'[b].strategy)
    BY <2>1, <2>2, <2>3 DEF setConfiguration
  <2>4. CASE \E val \in BOOLEAN : setPoolPause(val)
    BY <2>2, <2>4 DEF setPoolPause
  <2>5. ASSUME NEW a \in Assets, NEW st \in Strategies,
               setReserveInterestRateStrategyAddress(a, st)
        PROVE  \A b \in Assets : gratis(config'[b].strategy)
    <3>1. config[a] \in ReserveConfiguration /\ gratis(st)
      BY <2>1
    <3> DEFINE k == [config[a] EXCEPT !.strategy = st]
    <3>2. setConfiguration(a, k)
      BY <2>5 DEF setReserveInterestRateStrategyAddress
    <3>3. k.strategy = st
      BY <3>1 DEF ReserveConfiguration
    <3> HIDE DEF k
    <3> QED
      BY <2>3, <3>1, <3>2, <3>3
  <2>6. ASSUME NEW a \in Assets,
               \E k : k.strategy = config[a].strategy /\ setConfiguration(a, k)
        PROVE  \A b \in Assets : gratis(config'[b].strategy)
    BY <2>2, <2>3, <2>6
  <2>7. ASSUME NEW a \in Assets, NEW flag \in BOOLEAN
        PROVE  /\ [config[a] EXCEPT !.borrowingEnabled = flag].strategy = config[a].strategy
               /\ [config[a] EXCEPT !.borrowingEnabled = TRUE,
                                    !.stableRateBorrowingEnabled = flag].strategy
                    = config[a].strategy
               /\ [config[a] EXCEPT !.stableRateBorrowingEnabled = flag].strategy
                    = config[a].strategy
               /\ [config[a] EXCEPT !.active = flag].strategy = config[a].strategy
               /\ [config[a] EXCEPT !.frozen = flag].strategy = config[a].strategy
    BY <2>1 DEF ReserveConfiguration
  <2>8. ASSUME NEW a \in Assets, NEW x
        PROVE  [config[a] EXCEPT !.reserveFactor = x].strategy = config[a].strategy
    BY <2>1 DEF ReserveConfiguration
  <2>9. ASSUME NEW a \in Assets,
               \/ \E flag \in BOOLEAN :
                    enableBorrowingOnReserve(a, flag) \/ setReserveStableRate(a, flag)
               \/ disableBorrowingOnReserve(a)
               \/ activateReserve(a) \/ deactivateReserve(a)
               \/ freezeReserve(a) \/ unfreezeReserve(a)
        PROVE  \E k : k.strategy = config[a].strategy /\ setConfiguration(a, k)
    <3>1. ASSUME NEW flag \in BOOLEAN, enableBorrowingOnReserve(a, flag)
          PROVE  \E k : k.strategy = config[a].strategy /\ setConfiguration(a, k)
      BY <2>7, <3>1 DEF enableBorrowingOnReserve
    <3>2. ASSUME NEW flag \in BOOLEAN, setReserveStableRate(a, flag)
          PROVE  \E k : k.strategy = config[a].strategy /\ setConfiguration(a, k)
      BY <2>7, <3>2 DEF setReserveStableRate
    <3>3. CASE disableBorrowingOnReserve(a)
      BY <2>7, <3>3 DEF disableBorrowingOnReserve
    <3>4. CASE activateReserve(a) \/ deactivateReserve(a)
      BY <2>7, <3>4 DEF activateReserve, deactivateReserve
    <3>5. CASE freezeReserve(a) \/ unfreezeReserve(a)
      BY <2>7, <3>5 DEF freezeReserve, unfreezeReserve
    <3> QED
      BY <2>9, <3>1, <3>2, <3>3, <3>4, <3>5
  <2>10. ASSUME NEW a \in Assets,
                \/ \E p \in CollateralParameters :
                     configureReserveAsCollateral(a, p[1], p[2], p[3])
                \/ \E factor \in ReserveFactors : setReserveFactor(a, factor)
         PROVE  \E k : k.strategy = config[a].strategy /\ setConfiguration(a, k)
    <3>1. CASE \E p \in CollateralParameters :
                 configureReserveAsCollateral(a, p[1], p[2], p[3])
      <4>1. PICK p \in CollateralParameters :
              configureReserveAsCollateral(a, p[1], p[2], p[3])
        BY <3>1
      <4> DEFINE k == [config[a] EXCEPT !.ltv = p[1], !.liquidationThreshold = p[2],
                                        !.liquidationBonus = p[3]]
      <4>2. setConfiguration(a, k)
        BY <4>1 DEF configureReserveAsCollateral
      <4>3. config[a] \in ReserveConfiguration
        BY <2>1
      <4>4. k.strategy = config[a].strategy
        BY <4>3 DEF ReserveConfiguration
      <4> HIDE DEF k
      <4> QED
        BY <4>2, <4>4
    <3>2. CASE \E factor \in ReserveFactors : setReserveFactor(a, factor)
      BY <2>8, <3>2 DEF setReserveFactor
    <3> QED
      BY <2>10, <3>1, <3>2
  <2> QED
    BY <2>4, <2>5, <2>6, <2>9, <2>10 DEF AdminStep
<1> QED
  BY <1>1, <1>2 DEF Calm, ReservesCalm, GratisNow, PremiumsFree, others

-----------------------------------------------------------------------------
(* Solvency without interest                                               *)

\* A reserve without interest is one that solvency is stated for.
LEMMA CalmFree ==
    ASSUME Calm
    PROVE  InterestFree
  BY DEF Calm, ReservesCalm, calm, atPar, InterestFree

\* A pool whose reserves are listed without interest pays out what it owes: with
\* strategies of zero rates, no market rate, and flash loans too small for a
\* premium, the aTokens of a reserve are covered by its tokens, the debts it is
\* owed and the flash loans out of it, whatever its users do.
THEOREM SolventWithoutInterest ==
    ASSUME FreeTerms
    PROVE  Spec => []Solvent
<1>1. Init => Calm
  BY CalmInit
<1>2. Inv /\ Calm /\ [Next]_vars => Calm'
  BY CalmStep
<1>3. Calm => InterestFree
  BY CalmFree
<1> QED
  BY <1>1, <1>2, <1>3, Invariance, Solvency, PTL DEF Spec

\* The same with admins who change every setting, strategies for ones of zero
\* rates only.
THEOREM ConfiguredSolventWithoutInterest ==
    ASSUME FreeTerms, \A st \in Strategies : gratis(st)
    PROVE  ConfiguredSpec => []Solvent
<1>1. Init => Calm
  BY CalmInit
<1>2. Inv /\ Calm /\ [Next \/ AdminStep]_vars => Calm'
  BY CalmStep, AdminCalm
<1>3. Calm => InterestFree
  BY CalmFree
<1> QED
  BY <1>1, <1>2, <1>3, ConfiguredInvariance, ConfiguredSolvency, PTL DEF ConfiguredSpec, ConfiguredInv

=============================================================================
