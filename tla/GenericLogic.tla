---------------------------- MODULE GenericLogic ----------------------------
(***************************************************************************)
(* GenericLogic.sol: the value of an account's collateral and debt and its *)
(* health factor. The reserves rs are a parameter because a transfer of    *)
(* lTokens is validated after the balances have moved.                     *)
(***************************************************************************)
EXTENDS LendingPoolStorage

\* 1 ether
HEALTH_FACTOR_LIQUIDATION_THRESHOLD == WAD

\* getAssetPrice() reverts when a price is stale or neither the adapter nor the
\* fallback oracle has one; it never answers zero.
priced(asset) == prices[asset] # 0

\* The account data of a user ask for the price of every reserve with a flag.
accountPriced(user) ==
    \A a \in usersConfig[user].collateral \cup usersConfig[user].borrowing : priced(a)

\* Value of an amount of asset in the oracle's currency, rounded down.
toETH(asset, amount) == (prices[asset] * amount) \div config[asset].tokenUnit

calculateHealthFactorFromBalances(collateral, debt, threshold) ==
    IF debt = 0 THEN MaxUint ELSE wadDiv(percentMul(collateral, threshold), debt)

\* The reserves that count as the user's collateral.
collateralOf(user) ==
    {a \in usersConfig[user].collateral : config[a].liquidationThreshold # 0}

calculateUserAccountData(rs, user) ==
    LET value(a)      == toETH(a, lBalanceOf(rs[a], user, now))
        owed(a)       == toETH(a, sBalanceOf(rs[a], user, now)
                                    + vBalanceOf(rs[a], user, now))
        weightLtv(a)  == value(a) * config[a].ltv
        weightLt(a)   == value(a) * config[a].liquidationThreshold
        counted       == collateralOf(user)
        collateralETH == MapThenSumSet(value, counted)
        debtETH       == MapThenSumSet(owed, usersConfig[user].borrowing)
        average(w(_)) == IF collateralETH > 0
                         THEN MapThenSumSet(w, counted) \div collateralETH
                         ELSE 0
    IN  [ collateral |-> collateralETH,
          debt       |-> debtETH,
          ltv        |-> average(weightLtv),
          threshold  |-> average(weightLt),
          healthFactor |-> calculateHealthFactorFromBalances(
                               collateralETH, debtETH, average(weightLt)) ]

healthFactor(rs, user) == calculateUserAccountData(rs, user).healthFactor

\* The user stays healthy with amount less of asset as collateral; a subtraction
\* that would underflow reverts like an answer of false.
healthyWithout(asset, user, amount) ==
    LET data      == calculateUserAccountData(reserves, user)
        decrease  == toETH(asset, amount)
        remaining == data.collateral - decrease
        weighted  == data.collateral * data.threshold
                       - decrease * config[asset].liquidationThreshold
    IN  \/ data.debt = 0
        \/ /\ remaining > 0
           /\ weighted >= 0
           /\ calculateHealthFactorFromBalances(remaining, data.debt,
                                                weighted \div remaining)
                >= HEALTH_FACTOR_LIQUIDATION_THRESHOLD

\* Mutant: the account is valued before looking for a debt.
valuedFirst(asset, user, amount) ==
    /\ accountPriced(user)
    /\ \/ usersConfig[user].borrowing = {}
       \/ asset \notin usersConfig[user].collateral
       \/ config[asset].liquidationThreshold = 0
       \/ healthyWithout(asset, user, amount)

\* Prices are asked for only if there may be a debt that asset is collateral of.
balanceDecreaseAllowed(asset, user, amount) ==
    \/ usersConfig[user].borrowing = {}
    \/ asset \notin usersConfig[user].collateral
    \/ config[asset].liquidationThreshold = 0
    \/ accountPriced(user) /\ healthyWithout(asset, user, amount)
=============================================================================
