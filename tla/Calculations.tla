---------------------------- MODULE Calculations ----------------------------
(***************************************************************************)
(* The reference calculations of the scenario tests: calculations.ts and   *)
(* math.ts of test-suites/test-palmy/helpers/utils. From what is read of a *)
(* reserve and of a user before an action they derive what must be read    *)
(* after it, without looking at the contracts.                             *)
(*                                                                         *)
(* The arithmetic is BigNumber's as scenario.spec.ts configures it:        *)
(* unbounded integers, and divisions cut to the integer towards zero.      *)
(* before and user are the ReserveData and UserReserveData read before the *)
(* action, params the entry of the reserve in reservesParams.              *)
(***************************************************************************)
EXTENDS WadRayMath

truncDiv(a, b) ==
    LET abs(x) == IF x < 0 THEN -x ELSE x
        quotient == abs(a) \div abs(b)
    IN  IF (a < 0) = (b < 0) THEN quotient ELSE -quotient

bnRayMul(a, b) == truncDiv(RAY \div 2 + a * b, RAY)

bnRayDiv(a, b) == truncDiv(truncDiv(b, 2) + a * RAY, b)

bnPercentMul(a, b) == truncDiv(PERCENTAGE_FACTOR \div 2 + a * b, PERCENTAGE_FACTOR)

bnWadToRay(a) == a * WAD_RAY_RATIO

-----------------------------------------------------------------------------
(* Interest                                                                *)

calcLinearInterest(rate, current, last) ==
    truncDiv(rate * (current - last), SECONDS_PER_YEAR) + RAY

calcCompoundedInterest(rate, current, last) ==
    LET time == current - last
        expMinusTwo == IF time > 2 THEN time - 2 ELSE 0
        ratePerSecond  == truncDiv(rate, SECONDS_PER_YEAR)
        basePowerTwo   == bnRayMul(ratePerSecond, ratePerSecond)
        basePowerThree == bnRayMul(basePowerTwo, ratePerSecond)
        secondTerm == truncDiv(time * (time - 1) * basePowerTwo, 2)
        thirdTerm  == truncDiv(time * (time - 1) * expMinusTwo * basePowerThree, 6)
    IN  IF time = 0 THEN RAY
        ELSE RAY + ratePerSecond * time + secondTerm + thirdTerm

calcExpectedReserveNormalizedIncome(d, current) ==
    IF d.liquidityRate = 0
    THEN d.liquidityIndex
    ELSE bnRayMul(calcLinearInterest(d.liquidityRate, current, d.lastUpdateTimestamp),
                  d.liquidityIndex)

calcExpectedReserveNormalizedDebt(rate, index, last, current) ==
    IF rate = 0 THEN index ELSE bnRayMul(calcCompoundedInterest(rate, current, last), index)

calcExpectedLiquidityIndex(d, timestamp) ==
    IF d.utilizationRate = 0
    THEN d.liquidityIndex
    ELSE bnRayMul(calcLinearInterest(d.liquidityRate, timestamp, d.lastUpdateTimestamp),
                  d.liquidityIndex)

calcExpectedVariableBorrowIndex(d, timestamp) ==
    IF d.totalVariableDebt = 0
    THEN d.variableBorrowIndex
    ELSE bnRayMul(calcCompoundedInterest(d.variableBorrowRate, timestamp,
                                         d.lastUpdateTimestamp),
                  d.variableBorrowIndex)

calcExpectedTotalStableDebt(principal, averageRate, last, current) ==
    bnRayMul(calcCompoundedInterest(averageRate, current, last), principal)

totalStableDebtAt(d, current) ==
    calcExpectedTotalStableDebt(d.principalStableDebt, d.averageStableBorrowRate,
                                d.totalStableDebtLastUpdated, current)

-----------------------------------------------------------------------------
(* Balances of a user                                                      *)

calcExpectedLTokenBalance(d, user, current) ==
    bnRayMul(user.scaledLTokenBalance, calcExpectedReserveNormalizedIncome(d, current))

calcExpectedScaledLTokenBalance(user, index, added, taken) ==
    user.scaledLTokenBalance + bnRayDiv(added, index) - bnRayDiv(taken, index)

calcExpectedVariableDebtTokenBalance(d, user, current) ==
    bnRayMul(user.scaledVariableDebt,
             calcExpectedReserveNormalizedDebt(d.variableBorrowRate, d.variableBorrowIndex,
                                               d.lastUpdateTimestamp, current))

calcExpectedStableDebtTokenBalance(principal, rate, last, current) ==
    IF rate = 0 \/ current = last \/ last = 0
    THEN principal
    ELSE bnRayMul(principal, calcCompoundedInterest(rate, current, last))

stableDebtAt(user, current) ==
    calcExpectedStableDebtTokenBalance(user.principalStableDebt, user.stableBorrowRate,
                                       user.stableRateLastUpdated, current)

-----------------------------------------------------------------------------
(* Rates                                                                   *)

calcExpectedUtilizationRate(stableDebt, variableDebt, totalLiquidity) ==
    IF stableDebt = 0 /\ variableDebt = 0
    THEN 0
    ELSE bnRayDiv(stableDebt + variableDebt, totalLiquidity)

calcExpectedOverallBorrowRate(stableDebt, variableDebt, variableRate, averageRate) ==
    IF stableDebt + variableDebt = 0
    THEN 0
    ELSE bnRayDiv(bnRayMul(bnWadToRay(variableDebt), variableRate)
                    + bnRayMul(bnWadToRay(stableDebt), averageRate),
                  bnWadToRay(stableDebt + variableDebt))

calcExpectedInterestRates(params, market, util, stableDebt, variableDebt, averageRate) ==
    LET st == params.strategy
        ratio == bnRayDiv(util - st.optimal, RAY - st.optimal)
        stable == IF util > st.optimal
                  THEN market + st.s1 + bnRayMul(st.s2, ratio)
                  ELSE market + bnRayMul(st.s1, bnRayDiv(util, st.optimal))
        variable == IF util > st.optimal
                    THEN st.base + st.v1 + bnRayMul(st.v2, ratio)
                    ELSE st.base + bnRayMul(bnRayDiv(util, st.optimal), st.v1)
        overall == calcExpectedOverallBorrowRate(stableDebt, variableDebt, variable,
                                                 averageRate)
    IN  [ liquidity |-> bnPercentMul(bnRayMul(overall, util),
                                     PERCENTAGE_FACTOR - params.reserveFactor),
          stable    |-> stable,
          variable  |-> variable ]

calcExpectedAverageStableBorrowRate(averageRate, total, changed, rate) ==
    IF total + changed = 0
    THEN 0
    ELSE truncDiv(averageRate * total + rate * changed, total + changed)

\* The total is in wads, what is added to it in rays.
calcExpectedAverageStableBorrowRateRebalance(averageRate, total, changed, rate) ==
    LET weighted == bnRayMul(averageRate, total) + bnRayMul(rate, bnWadToRay(changed))
    IN  IF total + bnWadToRay(changed) = 0
        THEN 0
        ELSE bnRayDiv(weighted, total + bnWadToRay(changed))

calcExpectedUserStableRate(balance, rate, amount, newRate) ==
    truncDiv(balance * rate + amount * newRate, balance + amount)
=============================================================================
