---------------------------- MODULE ExpectedData ----------------------------
(***************************************************************************)
(* calculations.ts: what the scenario tests expect to read of the reserve  *)
(* and of the user after each action. Every operator is the function of    *)
(* the same name; txTimestamp is the time of the action's block, current   *)
(* the time of the block at which the data is read afterwards.             *)
(*                                                                         *)
(* A field a function does not assign keeps its value here, where the code *)
(* leaves it undefined; getReserveData's accessory fields, which are never *)
(* compared, are the only ones.                                            *)
(***************************************************************************)
EXTENDS Calculations

\* Every function accrues both indexes first.
accruedIndexes(before, txTimestamp) ==
    [before EXCEPT
       !.liquidityIndex      = calcExpectedLiquidityIndex(before, txTimestamp),
       !.variableBorrowIndex = calcExpectedVariableBorrowIndex(before, txTimestamp)]

\* ... and ends with the utilisation of the totals in d and the rates it gives.
withUtilizationRate(d) ==
    [d EXCEPT !.utilizationRate =
        calcExpectedUtilizationRate(d.totalStableDebt, d.totalVariableDebt,
                                    d.totalLiquidity)]

withInterestRates(d, rates) ==
    [d EXCEPT !.liquidityRate      = rates.liquidity,
              !.stableBorrowRate   = rates.stable,
              !.variableBorrowRate = rates.variable]

withRatesOfUtilization(d, params) ==
    withInterestRates(d,
      calcExpectedInterestRates(params, d.marketStableRate, d.utilizationRate,
                                d.totalStableDebt, d.totalVariableDebt,
                                d.averageStableBorrowRate))

withExpectedRates(d, params) == withRatesOfUtilization(withUtilizationRate(d), params)

withTotalLiquidity(d) ==
    [d EXCEPT !.totalLiquidity =
        d.availableLiquidity + d.totalStableDebt + d.totalVariableDebt]

withScaledDebt(d, scaledVariableDebt) ==
    [d EXCEPT !.scaledVariableDebt = scaledVariableDebt,
              !.totalVariableDebt  = bnRayMul(scaledVariableDebt, d.variableBorrowIndex)]

withStableDebt(d, totalStableDebt, averageRate) ==
    [d EXCEPT !.principalStableDebt     = totalStableDebt,
              !.totalStableDebt         = totalStableDebt,
              !.averageStableBorrowRate = averageRate]

amountOrAll(amount, all) == IF amount = MaxUint THEN all ELSE amount

-----------------------------------------------------------------------------
(* The reserve                                                             *)

calcExpectedReserveDataAfterDeposit(amountDeposited, before, params, txTimestamp) ==
    LET d == accruedIndexes(before, txTimestamp)
        accrued == withScaledDebt(d, before.scaledVariableDebt)
    IN  withExpectedRates(
          [accrued EXCEPT
             !.totalLiquidity     = @ + amountDeposited,
             !.availableLiquidity = @ + amountDeposited,
             !.totalStableDebt    = totalStableDebtAt(before, txTimestamp)],
          params)

calcExpectedReserveDataAfterWithdraw(amountWithdrawn, before, user, params, txTimestamp) ==
    LET d == accruedIndexes(before, txTimestamp)
        accrued == withScaledDebt(d, before.scaledVariableDebt)
        amount == amountOrAll(amountWithdrawn,
                              calcExpectedLTokenBalance(before, user, txTimestamp))
    IN  withExpectedRates(
          withTotalLiquidity(
            [accrued EXCEPT
               !.availableLiquidity = @ - amount,
               !.totalStableDebt    = totalStableDebtAt(before, txTimestamp)]),
          params)

\* The totals of d, as they are right after a loan, read at the current time.
totalsAtCurrent(d, mode, before, txTimestamp, current) ==
    withUtilizationRate(
      withTotalLiquidity(
        [d EXCEPT
           !.totalStableDebt =
             IF mode = "stable"
             THEN calcExpectedTotalStableDebt(d.principalStableDebt,
                                              d.averageStableBorrowRate,
                                              txTimestamp, current)
             ELSE totalStableDebtAt(before, current),
           !.totalVariableDebt =
             bnRayMul(d.scaledVariableDebt,
                      calcExpectedReserveNormalizedDebt(
                        d.variableBorrowRate, d.variableBorrowIndex,
                        txTimestamp, current))]))

\* The rates are those right after the transaction.
calcExpectedReserveDataAfterBorrow(amountBorrowed, mode, before, params, txTimestamp, current) ==
    LET d == [accruedIndexes(before, txTimestamp) EXCEPT
                !.availableLiquidity  = @ - amountBorrowed,
                !.lastUpdateTimestamp = txTimestamp]
        stableDebtUntilTx == totalStableDebtAt(before, txTimestamp)
        stableBorrowed ==
          withScaledDebt(
            withStableDebt(d, stableDebtUntilTx + amountBorrowed,
                           calcExpectedAverageStableBorrowRate(
                             before.averageStableBorrowRate, stableDebtUntilTx,
                             amountBorrowed, before.stableBorrowRate)),
            before.scaledVariableDebt)
        variableBorrowed ==
          withScaledDebt(
            [d EXCEPT !.totalStableDebt =
               calcExpectedStableDebtTokenBalance(
                 before.principalStableDebt, before.averageStableBorrowRate,
                 before.totalStableDebtLastUpdated, txTimestamp)],
            before.scaledVariableDebt + bnRayDiv(amountBorrowed, d.variableBorrowIndex))
    IN  totalsAtCurrent(
          withExpectedRates(
            withTotalLiquidity(IF mode = "stable" THEN stableBorrowed
                                                  ELSE variableBorrowed),
            params),
          mode, before, txTimestamp, current)

\* A total or an average rate that would turn negative is an accumulation
\* error: both are erased.
stableDebtRepaid(d, expectedDebt, repaid, before, user) ==
    LET averageRate == calcExpectedAverageStableBorrowRate(
                         before.averageStableBorrowRate, expectedDebt, -repaid,
                         user.stableBorrowRate)
    IN  IF expectedDebt < repaid \/ averageRate < 0
        THEN withStableDebt(d, 0, 0)
        ELSE withStableDebt(d, expectedDebt - repaid, averageRate)

\* Mutant: what is repaid at the variable rate does not leave the scaled debt.
repaidWithoutBurn(amountRepaid, mode, before, user, params, txTimestamp) ==
    LET d == accruedIndexes(before, txTimestamp)
        repaid == amountOrAll(amountRepaid,
                    IF mode = "stable"
                    THEN stableDebtAt(user, txTimestamp)
                    ELSE calcExpectedVariableDebtTokenBalance(before, user, txTimestamp))
        burnt == withScaledDebt(d, before.scaledVariableDebt)
    IN  withExpectedRates(
          withTotalLiquidity([burnt EXCEPT !.availableLiquidity = @ + repaid]), params)

calcExpectedReserveDataAfterRepay(amountRepaid, mode, before, user, params, txTimestamp) ==
    LET d == accruedIndexes(before, txTimestamp)
        repaid == amountOrAll(amountRepaid,
                    IF mode = "stable"
                    THEN stableDebtAt(user, txTimestamp)
                    ELSE calcExpectedVariableDebtTokenBalance(before, user, txTimestamp))
        burnt ==
          IF mode = "stable"
          THEN withScaledDebt(
                 stableDebtRepaid(d, totalStableDebtAt(before, txTimestamp), repaid,
                                  before, user),
                 before.scaledVariableDebt)
          ELSE withScaledDebt(
                 d, before.scaledVariableDebt - bnRayDiv(repaid, d.variableBorrowIndex))
    IN  withExpectedRates(
          withTotalLiquidity([burnt EXCEPT !.availableLiquidity = @ + repaid]), params)

calcExpectedReserveDataAfterSwapRateMode(before, user, mode, params, txTimestamp) ==
    LET d == accruedIndexes(before, txTimestamp)
        variableDebt == calcExpectedVariableDebtTokenBalance(before, user, txTimestamp)
        stableDebt   == stableDebtAt(user, txTimestamp)
        untilTx      == totalStableDebtAt(before, txTimestamp)
        toVariable ==
          withStableDebt(
            withScaledDebt(d, before.scaledVariableDebt
                                + bnRayDiv(stableDebt, d.variableBorrowIndex)),
            untilTx - stableDebt,
            calcExpectedAverageStableBorrowRate(before.averageStableBorrowRate, untilTx,
                                                -stableDebt, user.stableBorrowRate))
        toStable ==
          withStableDebt(
            withScaledDebt(d, before.scaledVariableDebt
                                - bnRayDiv(variableDebt, d.variableBorrowIndex)),
            untilTx + variableDebt,
            calcExpectedAverageStableBorrowRate(before.averageStableBorrowRate,
                                                before.totalStableDebt, variableDebt,
                                                before.stableBorrowRate))
    IN  withExpectedRates(
          withTotalLiquidity(IF mode = "stable" THEN toVariable ELSE toStable), params)

\* The user's debt leaves the average at its old rate and joins it at the new.
calcExpectedReserveDataAfterStableRateRebalance(before, user, params, txTimestamp) ==
    LET d == accruedIndexes(before, txTimestamp)
        userStableDebt == stableDebtAt(user, txTimestamp)
        total == totalStableDebtAt(before, txTimestamp)
        avgRateBefore ==
          calcExpectedAverageStableBorrowRateRebalance(
            before.averageStableBorrowRate, total, -userStableDebt, user.stableBorrowRate)
        averageRate ==
          calcExpectedAverageStableBorrowRateRebalance(
            avgRateBefore, total - userStableDebt, userStableDebt, before.stableBorrowRate)
    IN  withExpectedRates(
          withTotalLiquidity(
            withStableDebt(withScaledDebt(d, before.scaledVariableDebt), total, averageRate)),
          params)

-----------------------------------------------------------------------------
(* The user: reserve is the reserve's data before, expected after          *)

\* The principal is assigned twice, last to the variable debt.
calcExpectedUserDataAfterDeposit(amountDeposited, reserve, expected, before, txTimestamp) ==
    LET variableDebt == calcExpectedVariableDebtTokenBalance(reserve, before, txTimestamp)
    IN  [before EXCEPT
           !.liquidityRate       = expected.liquidityRate,
           !.scaledLTokenBalance = calcExpectedScaledLTokenBalance(
                                     before, expected.liquidityIndex, amountDeposited, 0),
           !.currentLTokenBalance =
              calcExpectedLTokenBalance(reserve, before, txTimestamp) + amountDeposited,
           !.usageAsCollateralEnabled = before.currentLTokenBalance = 0 \/ @,
           !.walletBalance       = @ - amountDeposited,
           !.currentStableDebt   = stableDebtAt(before, txTimestamp),
           !.currentVariableDebt = variableDebt,
           !.principalStableDebt = variableDebt]

calcExpectedUserDataAfterWithdraw(amountWithdrawn, reserve, expected, before, txTimestamp) ==
    LET lTokenBalance == calcExpectedLTokenBalance(reserve, before, txTimestamp)
        amount == amountOrAll(amountWithdrawn, lTokenBalance)
    IN  [before EXCEPT
           !.scaledLTokenBalance = calcExpectedScaledLTokenBalance(
                                     before, expected.liquidityIndex, 0, amount),
           !.currentLTokenBalance = lTokenBalance - amount,
           !.currentStableDebt   = stableDebtAt(before, txTimestamp),
           !.currentVariableDebt =
              calcExpectedVariableDebtTokenBalance(reserve, before, txTimestamp),
           !.liquidityRate       = expected.liquidityRate,
           !.usageAsCollateralEnabled =
              \/ before.currentLTokenBalance = 0
              \/ lTokenBalance # amount /\ @,
           !.walletBalance       = @ + amount]

\* A variable loan is added to the scaled debt of the whole reserve.
calcExpectedUserDataAfterBorrow(amountBorrowed, mode, reserve, expected, before, txTimestamp, current) ==
    LET untilTx == stableDebtAt(before, txTimestamp)
        stableRate == calcExpectedUserStableRate(untilTx, before.stableBorrowRate,
                                                 amountBorrowed, reserve.stableBorrowRate)
        stableBorrowed ==
          [before EXCEPT
             !.principalStableDebt   = untilTx + amountBorrowed,
             !.stableRateLastUpdated = txTimestamp,
             !.stableBorrowRate      = stableRate,
             !.currentStableDebt     = calcExpectedStableDebtTokenBalance(
                                         untilTx + amountBorrowed, stableRate,
                                         txTimestamp, current)]
        variableBorrowed ==
          [before EXCEPT
             !.scaledVariableDebt =
               reserve.scaledVariableDebt
                 + bnRayDiv(amountBorrowed, expected.variableBorrowIndex),
             !.currentStableDebt = stableDebtAt(before, current)]
        borrowed == IF mode = "stable" THEN stableBorrowed ELSE variableBorrowed
    IN  [borrowed EXCEPT
           !.currentVariableDebt =
              calcExpectedVariableDebtTokenBalance(expected, borrowed, current),
           !.liquidityRate        = expected.liquidityRate,
           !.currentLTokenBalance = calcExpectedLTokenBalance(expected, before, current),
           !.walletBalance        = @ + amountBorrowed]

\* After a variable repayment the current and the principal stable debt are
\* each assigned the other's value.
calcExpectedUserDataAfterRepay(totalRepaid, mode, reserve, expected, before, sameUser, txTimestamp, current) ==
    LET variableDebt == calcExpectedVariableDebtTokenBalance(reserve, before, current)
        stableDebt   == stableDebtAt(before, current)
        repaid == amountOrAll(totalRepaid,
                              IF mode = "stable" THEN stableDebt ELSE variableDebt)
        stableRepaid ==
          [before EXCEPT
             !.currentVariableDebt   = variableDebt,
             !.principalStableDebt   = stableDebt - repaid,
             !.currentStableDebt     = stableDebt - repaid,
             !.stableBorrowRate      = IF stableDebt = repaid THEN 0 ELSE @,
             !.stableRateLastUpdated = IF stableDebt = repaid THEN 0 ELSE txTimestamp]
        scaledDebt == before.scaledVariableDebt
                        - bnRayDiv(repaid, expected.variableBorrowIndex)
        variableRepaid ==
          [before EXCEPT
             !.currentStableDebt   = before.principalStableDebt,
             !.principalStableDebt = stableDebt,
             !.scaledVariableDebt  = scaledDebt,
             !.currentVariableDebt = bnRayMul(scaledDebt, expected.variableBorrowIndex)]
    IN  [IF mode = "stable" THEN stableRepaid ELSE variableRepaid EXCEPT
           !.liquidityRate        = expected.liquidityRate,
           !.currentLTokenBalance = calcExpectedLTokenBalance(reserve, before, txTimestamp),
           !.walletBalance        = IF sameUser THEN @ - repaid ELSE @]

calcExpectedUserDataAfterSetUseAsCollateral(useAsCollateral, before) ==
    [before EXCEPT !.usageAsCollateralEnabled = useAsCollateral]

calcExpectedUserDataAfterSwapRateMode(reserve, expected, before, mode, txTimestamp) ==
    LET stableDebt   == stableDebtAt(before, txTimestamp)
        variableDebt == calcExpectedVariableDebtTokenBalance(reserve, before, txTimestamp)
        scaledDebt == before.scaledVariableDebt
                        + bnRayDiv(stableDebt, expected.variableBorrowIndex)
        toVariable ==
          [before EXCEPT
             !.currentStableDebt = 0, !.principalStableDebt = 0,
             !.stableBorrowRate = 0, !.stableRateLastUpdated = 0,
             !.scaledVariableDebt = scaledDebt,
             !.currentVariableDebt = bnRayMul(scaledDebt, expected.variableBorrowIndex)]
        toStable ==
          [before EXCEPT
             !.principalStableDebt = before.currentStableDebt + variableDebt,
             !.currentStableDebt   = @ + variableDebt,
             !.stableBorrowRate    = calcExpectedUserStableRate(
                                       stableDebt, before.stableBorrowRate,
                                       variableDebt, reserve.stableBorrowRate),
             !.stableRateLastUpdated = txTimestamp,
             !.currentVariableDebt = 0, !.scaledVariableDebt = 0]
    IN  [IF mode = "stable" THEN toVariable ELSE toStable EXCEPT
           !.liquidityRate        = expected.liquidityRate,
           !.currentLTokenBalance = calcExpectedLTokenBalance(reserve, before, txTimestamp)]

\* The user's rate becomes the reserve's average, as for the only borrower.
calcExpectedUserDataAfterStableRateRebalance(reserve, expected, before, txTimestamp) ==
    [before EXCEPT
       !.principalStableDebt   = stableDebtAt(before, txTimestamp),
       !.currentStableDebt     = stableDebtAt(before, txTimestamp),
       !.currentVariableDebt   =
          calcExpectedVariableDebtTokenBalance(reserve, before, txTimestamp),
       !.stableRateLastUpdated = txTimestamp,
       !.stableBorrowRate      = expected.averageStableBorrowRate,
       !.liquidityRate         = expected.liquidityRate,
       !.currentLTokenBalance  = calcExpectedLTokenBalance(reserve, before, txTimestamp)]
=============================================================================
