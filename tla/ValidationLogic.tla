--------------------------- MODULE ValidationLogic ---------------------------
(***************************************************************************)
(* ValidationLogic.sol: the conditions under which an operation of the     *)
(* pool does not revert. They read the state before the operation.         *)
(***************************************************************************)
EXTENDS GenericLogic

REBALANCE_UP_LIQUIDITY_RATE_THRESHOLD == 4000

REBALANCE_UP_USAGE_RATIO_THRESHOLD == (RAY * 95) \div 100

\* Mutant: a frozen reserve takes deposits.
depositIfActive(asset, amount) ==
    /\ amount # 0
    /\ config[asset].active

validateDeposit(asset, amount) ==
    /\ amount # 0
    /\ config[asset].active
    /\ ~config[asset].frozen

\* Mutant: a frozen reserve holds its depositors.
withdrawIfNotFrozen(asset, user, amount, userBalance) ==
    /\ amount # 0
    /\ amount <= userBalance
    /\ config[asset].active /\ ~config[asset].frozen
    /\ balanceDecreaseAllowed(asset, user, amount)

validateWithdraw(asset, user, amount, userBalance) ==
    /\ amount # 0
    /\ amount <= userBalance
    /\ config[asset].active
    /\ balanceDecreaseAllowed(asset, user, amount)

\* No stable loan in a currency the user has as collateral, unless the loan
\* exceeds that collateral.
notCollateralCurrency(asset, user, debt) ==
    \/ asset \notin usersConfig[user].collateral
    \/ config[asset].ltv = 0
    \/ debt > lBalanceOf(reserves[asset], user, now)

validateBorrow(asset, user, amount, mode) ==
    LET data   == calculateUserAccountData(reserves, user)
        needed == percentDiv(data.debt + toETH(asset, amount), data.ltv)
        m      == reserves[asset]
    IN  /\ priced(asset) /\ accountPriced(user)
        /\ config[asset].active
        /\ ~config[asset].frozen
        /\ amount # 0
        /\ config[asset].borrowingEnabled
        /\ mode \in DebtModes
        /\ data.collateral > 0
        /\ data.healthFactor > HEALTH_FACTOR_LIQUIDATION_THRESHOLD
        /\ data.ltv # 0
        /\ needed <= data.collateral
        /\ mode = "stable" =>
             /\ config[asset].stableRateBorrowingEnabled
             /\ notCollateralCurrency(asset, user, amount + sBalanceOf(m, user, now))
             /\ amount <= percentMul(m.avail, MAX_STABLE_RATE_BORROW_SIZE_PERCENT)

\* Mutant: repaying needs borrowing to be enabled.
repayIfBorrowingEnabled(asset, sender, amount, mode, onBehalfOf, stableDebt, variableDebt) ==
    /\ config[asset].active /\ config[asset].borrowingEnabled
    /\ amount > 0
    /\ \/ stableDebt > 0 /\ mode = "stable"
       \/ variableDebt > 0 /\ mode = "variable"
    /\ amount # MaxUint \/ sender = onBehalfOf

validateRepay(asset, sender, amount, mode, onBehalfOf, stableDebt, variableDebt) ==
    /\ config[asset].active
    /\ amount > 0
    /\ \/ stableDebt > 0 /\ mode = "stable"
       \/ variableDebt > 0 /\ mode = "variable"
    /\ amount # MaxUint \/ sender = onBehalfOf

validateSwapRateMode(asset, user, stableDebt, variableDebt, mode) ==
    /\ config[asset].active
    /\ ~config[asset].frozen
    /\ \/ mode = "stable" /\ stableDebt > 0
       \/ /\ mode = "variable" /\ variableDebt > 0
          /\ config[asset].stableRateBorrowingEnabled
          /\ notCollateralCurrency(asset, user, stableDebt + variableDebt)

validateRebalanceStableBorrowRate(asset) ==
    LET m         == reserves[asset]
        totalDebt == wadToRay(sTotalSupply(m, now) + vTotalSupply(m, now))
        usage     == utilizationRate(wadToRay(m.avail), totalDebt)
        maxRate   == getMaxVariableBorrowRate(config[asset].strategy)
    IN  /\ config[asset].active
        /\ usage >= REBALANCE_UP_USAGE_RATIO_THRESHOLD
        /\ m.currentLiquidityRate
             <= percentMul(maxRate, REBALANCE_UP_LIQUIDITY_RATE_THRESHOLD)

validateSetUseReserveAsCollateral(asset, user, useAsCollateral) ==
    LET underlyingBalance == lBalanceOf(reserves[asset], user, now)
    IN  /\ underlyingBalance > 0
        /\ useAsCollateral \/ balanceDecreaseAllowed(asset, user, underlyingBalance)

validateLiquidationCall(collateralAsset, debtAsset, user, stableDebt, variableDebt) ==
    /\ config[collateralAsset].active /\ config[debtAsset].active
    /\ accountPriced(user) /\ priced(collateralAsset) /\ priced(debtAsset)
    /\ collateralAsset \in collateralOf(user)
    /\ stableDebt > 0 \/ variableDebt > 0
    /\ healthFactor(reserves, user) < HEALTH_FACTOR_LIQUIDATION_THRESHOLD

\* Mutant: the balances before the transfer are validated.
transferValidatedBefore(rs, from) ==
    /\ accountPriced(from)
    /\ healthFactor(reserves, from) >= HEALTH_FACTOR_LIQUIDATION_THRESHOLD

\* rs are the reserves after the balances have moved.
validateTransfer(rs, from) ==
    /\ accountPriced(from)
    /\ healthFactor(rs, from) >= HEALTH_FACTOR_LIQUIDATION_THRESHOLD
=============================================================================
