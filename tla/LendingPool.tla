----------------------------- MODULE LendingPool -----------------------------
(***************************************************************************)
(* LendingPool.sol and LendingPoolCollateralManager.sol: one action per    *)
(* operation of the pool, plus the operations of the tokens that users     *)
(* call directly and the environment (time, oracles, plain transfers).     *)
(*                                                                         *)
(* A transaction is atomic, and one that reverts changes nothing, so a     *)
(* call is one action whose guard is the conjunction of everything the     *)
(* call requires. The exception is flashLoan(), which calls back the       *)
(* receiver between lending and collecting: while the callback runs any    *)
(* operation may be called, a second flash loan included. A flash loan     *)
(* that cannot be settled reverts as a whole: in the model it is a loan    *)
(* that never settles, and the state it started from has its other         *)
(* continuations anyway.                                                   *)
(***************************************************************************)
EXTENDS ValidationLogic

CONSTANTS
    Amounts,          \* amounts that users pass, besides type(uint256).max
    Delegations,      \* allowances that delegators approve
    Donations,        \* amounts sent to an lToken without depositing them
    PriceValues,      \* prices the oracle may report of each asset, 0 for an outage
    MarketRateValues, \* rates the lending rate oracle may report
    InitialConfig,    \* configuration the pool is deployed with
    InitialWallet,    \* initial balances of the underlying assets
    InitialPrices,
    InitialMarketRates,
    MaxTime,          \* bound on block.timestamp
    MaxFlashDepth,    \* bound on nested flash loans
    MaxLoans          \* bound on the number of assets of a flash loan

ASSUME BoundsAssumption ==
    /\ Amounts \subseteq Nat /\ Delegations \subseteq Nat /\ Donations \subseteq Nat
    /\ PriceValues \in [Assets -> SUBSET Nat] /\ MarketRateValues \subseteq Nat
    /\ MaxTime \in Nat /\ MaxFlashDepth \in Nat /\ MaxLoans \in Nat

ASSUME InitialAssumption ==
    /\ InitialConfig \in [Assets -> ReserveConfiguration]
    /\ InitialWallet \in [Assets -> [Users -> Nat]]
    /\ InitialPrices \in [Assets -> Nat \ {0}]
    /\ InitialMarketRates \in [Assets -> Nat]

\* 50%
LIQUIDATION_CLOSE_FACTOR_PERCENT == 5000

AmountArgs == Amounts \cup {MaxUint}

Init ==
    /\ reserves = [a \in Assets |-> init]
    /\ config = InitialConfig
    /\ usersConfig = [u \in Users |-> [collateral |-> {}, borrowing |-> {}]]
    /\ paused = FALSE
    /\ borrowAllowances =
         [a \in Assets |-> [d \in DebtModes |-> [u \in Users |-> [w \in Users |-> 0]]]]
    /\ wallet = InitialWallet
    /\ prices = InitialPrices
    /\ marketRates = InitialMarketRates
    /\ flash = <<>>
    /\ now = 1

-----------------------------------------------------------------------------
(* Shorthands: a reserve accrued to now, and with its rates recalculated.  *)

\* The innermost flash loan is in this phase.
inPhase(phase) == flash # <<>> /\ flash[Len(flash)].phase = phase

\* A call can start between transactions, or from a flash loan's callback.
callable == flash = <<>> \/ inPhase("callback")

\* Mutant: the pause is not looked at.
pausedOrNot == callable

\* whenNotPaused
whenNotPaused == ~paused /\ callable

accrueOK(m, asset) == updateStateOK(m, config[asset].reserveFactor, now)

accrue(m, asset) == updateState(m, config[asset].reserveFactor, now)

ratesOK(m, asset, added, taken) ==
    updateInterestRatesOK(m, config[asset].strategy, marketRates[asset],
                          config[asset].reserveFactor, added, taken, now)

withRates(m, asset, added, taken) ==
    updateInterestRates(m, config[asset].strategy, marketRates[asset],
                        config[asset].reserveFactor, added, taken, now)

min(a, b) == IF a < b THEN a ELSE b

environment == <<config, paused, prices, marketRates, now>>

-----------------------------------------------------------------------------
(* Deposits and withdrawals                                                *)

deposit(sender, asset, amount, onBehalfOf) ==
    LET m1 == accrue(reserves[asset], asset)
        m2 == [withRates(m1, asset, amount, 0) EXCEPT !.avail = @ + amount]
        isFirstDeposit == m2.l[onBehalfOf] = 0
    IN  /\ whenNotPaused
        /\ validateDeposit(asset, amount)
        /\ accrueOK(reserves[asset], asset)
        /\ ratesOK(m1, asset, amount, 0)
        /\ amount <= wallet[asset][sender]
        /\ lMintOK(amount, m2.liquidityIndex)
        /\ reserves' = [reserves EXCEPT ![asset] =
                          lMint(m2, onBehalfOf, amount, m2.liquidityIndex)]
        /\ wallet' = [wallet EXCEPT ![asset][sender] = @ - amount]
        /\ usersConfig' = IF isFirstDeposit
                          THEN setUsingAsCollateral(usersConfig, onBehalfOf, asset, TRUE)
                          ELSE usersConfig
        /\ UNCHANGED <<environment, borrowAllowances, flash>>

\* type(uint256).max withdraws the whole balance.
amountToWithdraw(sender, asset, amount) ==
    IF amount = MaxUint THEN lBalanceOf(reserves[asset], sender, now) ELSE amount

\* The reserve when withdraw() comes to burn the lTokens.
reserveToWithdraw(asset, amount) ==
    withRates(accrue(reserves[asset], asset), asset, 0, amount)

withdrawOK(sender, asset, amount) ==
    LET taken == amountToWithdraw(sender, asset, amount)
        m     == reserveToWithdraw(asset, taken)
    IN  /\ whenNotPaused
        /\ validateWithdraw(asset, sender, taken, lBalanceOf(reserves[asset], sender, now))
        /\ accrueOK(reserves[asset], asset)
        /\ ratesOK(accrue(reserves[asset], asset), asset, 0, taken)
        /\ lBurnOK(m, sender, taken, m.liquidityIndex)

withdraw(sender, asset, amount, to) ==
    LET taken == amountToWithdraw(sender, asset, amount)
        m     == reserveToWithdraw(asset, taken)
    IN  /\ withdrawOK(sender, asset, amount)
        /\ reserves' = [reserves EXCEPT ![asset] =
                          lBurn(m, sender, taken, m.liquidityIndex)]
        /\ wallet' = [wallet EXCEPT ![asset][to] = @ + taken]
        /\ usersConfig' = IF taken = lBalanceOf(reserves[asset], sender, now)
                          THEN setUsingAsCollateral(usersConfig, sender, asset, FALSE)
                          ELSE usersConfig
        /\ UNCHANGED <<environment, borrowAllowances, flash>>

\* LToken.transfer: the balances move, then finalizeTransfer() validates the
\* sender's health on them and updates the collateral flags.
transfer(from, asset, to, amount) ==
    LET m      == reserves[asset]
        index  == getNormalizedIncome(m, now)
        moved  == [reserves EXCEPT ![asset] = lTransfer(m, from, to, amount, index)]
        fromBalanceBefore == lBalanceOf(m, from, now)
        toBalanceBefore   == lBalanceOf(m, to, now)
        uc1 == IF fromBalanceBefore = amount
               THEN setUsingAsCollateral(usersConfig, from, asset, FALSE)
               ELSE usersConfig
        uc2 == IF toBalanceBefore = 0 /\ amount # 0
               THEN setUsingAsCollateral(uc1, to, asset, TRUE)
               ELSE uc1
    IN  /\ whenNotPaused
        /\ lTransferOK(m, from, amount, index)
        /\ validateTransfer(moved, from)
        /\ from # to => amount <= fromBalanceBefore
        /\ reserves' = moved
        /\ usersConfig' = IF from # to THEN uc2 ELSE usersConfig
        /\ UNCHANGED <<environment, borrowAllowances, wallet, flash>>

setUserUseReserveAsCollateral(user, asset, useAsCollateral) ==
    /\ whenNotPaused
    /\ validateSetUseReserveAsCollateral(asset, user, useAsCollateral)
    /\ usersConfig' = setUsingAsCollateral(usersConfig, user, asset, useAsCollateral)
    /\ UNCHANGED <<environment, reserves, borrowAllowances, wallet, flash>>

-----------------------------------------------------------------------------
(* Borrowing and repaying                                                  *)

\* DebtTokenBase.approveDelegation
approveDelegation(delegator, asset, mode, delegatee, amount) ==
    /\ callable
    /\ borrowAllowances' =
         [borrowAllowances EXCEPT ![asset][mode][delegator][delegatee] = amount]
    /\ UNCHANGED <<environment, reserves, usersConfig, wallet, flash>>

\* Mints the debt on an accrued market: the stable one at the stable rate the
\* reserve has before its rates are recalculated.
mintDebtOK(m, onBehalfOf, amount, mode) ==
    IF mode = "stable"
    THEN sMintOK(m, onBehalfOf, amount, m.currentStableBorrowRate, now)
    ELSE vMintOK(amount, m.variableBorrowIndex)

mintDebt(m, onBehalfOf, amount, mode) ==
    IF mode = "stable"
    THEN sMint(m, onBehalfOf, amount, m.currentStableBorrowRate, now)
    ELSE vMint(m, onBehalfOf, amount, m.variableBorrowIndex)

\* Mutant: the allowance of the stable debt token serves for both.
stableBorrowAllowance(asset, mode, fromUser, toUser) ==
    borrowAllowances[asset]["stable"][fromUser][toUser]

\* DebtTokenBase.borrowAllowance
borrowAllowance(asset, mode, fromUser, toUser) ==
    borrowAllowances[asset][mode][fromUser][toUser]

_executeBorrow(user, onBehalfOf, asset, amount, mode, releaseUnderlying) ==
    LET m1 == accrue(reserves[asset], asset)
        m2 == mintDebt(m1, onBehalfOf, amount, mode)
        released == IF releaseUnderlying THEN amount ELSE 0
        m3 == [withRates(m2, asset, 0, released) EXCEPT !.avail = @ - released]
        isFirstBorrowing == IF mode = "stable"
                            THEN sBalanceOf(m1, onBehalfOf, now) = 0
                            ELSE m1.v[onBehalfOf] = 0
        allowance == borrowAllowance(asset, mode, onBehalfOf, user)
    IN  /\ validateBorrow(asset, onBehalfOf, amount, mode)
        /\ accrueOK(reserves[asset], asset)
        /\ user # onBehalfOf => amount <= allowance
        /\ mintDebtOK(m1, onBehalfOf, amount, mode)
        /\ ratesOK(m2, asset, 0, released)
        /\ reserves' = [reserves EXCEPT ![asset] = m3]
        /\ usersConfig' = IF isFirstBorrowing
                          THEN setBorrowing(usersConfig, onBehalfOf, asset, TRUE)
                          ELSE usersConfig
        /\ borrowAllowances' =
             IF user # onBehalfOf
             THEN [borrowAllowances EXCEPT ![asset][mode][onBehalfOf][user] =
                     allowance - amount]
             ELSE borrowAllowances
        /\ wallet' = [wallet EXCEPT ![asset][user] = @ + released]

borrow(sender, asset, amount, mode, onBehalfOf) ==
    /\ whenNotPaused
    /\ _executeBorrow(sender, onBehalfOf, asset, amount, mode, TRUE)
    /\ UNCHANGED <<environment, flash>>

burnDebtOK(m, user, amount, mode) ==
    IF mode = "stable"
    THEN sBurnOK(m, user, amount, now)
    ELSE vBurnOK(m, user, amount, m.variableBorrowIndex)

burnDebt(m, user, amount, mode) ==
    IF mode = "stable"
    THEN sBurn(m, user, amount, now)
    ELSE vBurn(m, user, amount, m.variableBorrowIndex)

stableDebtOf(asset, user) == sBalanceOf(reserves[asset], user, now)

variableDebtOf(asset, user) == vBalanceOf(reserves[asset], user, now)

debtOf(asset, user, mode) ==
    IF mode = "stable" THEN stableDebtOf(asset, user) ELSE variableDebtOf(asset, user)

\* The reserve when repay() recalculates its rates.
reserveRepaid(asset, onBehalfOf, paybackAmount, mode) ==
    burnDebt(accrue(reserves[asset], asset), onBehalfOf, paybackAmount, mode)

\* Mutant: the debt is burnt whether or not the payer has the funds.
repayUnfundedOK(sender, asset, amount, mode, onBehalfOf) ==
    LET paybackAmount == min(amount, debtOf(asset, onBehalfOf, mode))
    IN  /\ whenNotPaused
        /\ validateRepay(asset, sender, amount, mode, onBehalfOf,
                         stableDebtOf(asset, onBehalfOf),
                         variableDebtOf(asset, onBehalfOf))
        /\ accrueOK(reserves[asset], asset)
        /\ burnDebtOK(accrue(reserves[asset], asset), onBehalfOf, paybackAmount, mode)
        /\ ratesOK(reserveRepaid(asset, onBehalfOf, paybackAmount, mode),
                   asset, paybackAmount, 0)

repayOK(sender, asset, amount, mode, onBehalfOf) ==
    LET paybackAmount == min(amount, debtOf(asset, onBehalfOf, mode))
    IN  /\ whenNotPaused
        /\ validateRepay(asset, sender, amount, mode, onBehalfOf,
                         stableDebtOf(asset, onBehalfOf),
                         variableDebtOf(asset, onBehalfOf))
        /\ accrueOK(reserves[asset], asset)
        /\ burnDebtOK(accrue(reserves[asset], asset), onBehalfOf, paybackAmount, mode)
        /\ ratesOK(reserveRepaid(asset, onBehalfOf, paybackAmount, mode),
                   asset, paybackAmount, 0)
        /\ paybackAmount <= wallet[asset][sender]

\* Mutant: only the variable debt is compared.
variableRepaid(asset, user, paybackAmount) ==
    variableDebtOf(asset, user) = paybackAmount

\* Nothing is left of either debt, going by the balances before the accrual.
allRepaid(asset, user, paybackAmount) ==
    stableDebtOf(asset, user) + variableDebtOf(asset, user) = paybackAmount

repay(sender, asset, amount, mode, onBehalfOf) ==
    LET paybackAmount == min(amount, debtOf(asset, onBehalfOf, mode))
        m == withRates(reserveRepaid(asset, onBehalfOf, paybackAmount, mode),
                       asset, paybackAmount, 0)
    IN  /\ repayOK(sender, asset, amount, mode, onBehalfOf)
        /\ reserves' = [reserves EXCEPT ![asset] =
                          [m EXCEPT !.avail = @ + paybackAmount]]
        /\ wallet' = [wallet EXCEPT ![asset][sender] = @ - paybackAmount]
        /\ usersConfig' = IF allRepaid(asset, onBehalfOf, paybackAmount)
                          THEN setBorrowing(usersConfig, onBehalfOf, asset, FALSE)
                          ELSE usersConfig
        /\ UNCHANGED <<environment, borrowAllowances, flash>>

swapBorrowRateMode(user, asset, mode) ==
    LET debt    == debtOf(asset, user, mode)
        newMode == IF mode = "stable" THEN "variable" ELSE "stable"
        m1 == accrue(reserves[asset], asset)
        m2 == burnDebt(m1, user, debt, mode)
        m3 == mintDebt(m2, user, debt, newMode)
    IN  /\ whenNotPaused
        /\ validateSwapRateMode(asset, user, stableDebtOf(asset, user),
                                variableDebtOf(asset, user), mode)
        /\ accrueOK(reserves[asset], asset)
        /\ burnDebtOK(m1, user, debt, mode)
        /\ mintDebtOK(m2, user, debt, newMode)
        /\ ratesOK(m3, asset, 0, 0)
        /\ reserves' = [reserves EXCEPT ![asset] = withRates(m3, asset, 0, 0)]
        /\ UNCHANGED <<environment, usersConfig, borrowAllowances, wallet, flash>>

rebalanceStableBorrowRate(asset, user) ==
    LET stableDebt == stableDebtOf(asset, user)
        m1 == accrue(reserves[asset], asset)
        m2 == sBurn(m1, user, stableDebt, now)
        m3 == mintDebt(m2, user, stableDebt, "stable")
    IN  /\ whenNotPaused
        /\ validateRebalanceStableBorrowRate(asset)
        /\ accrueOK(reserves[asset], asset)
        /\ sBurnOK(m1, user, stableDebt, now)
        /\ mintDebtOK(m2, user, stableDebt, "stable")
        /\ ratesOK(m3, asset, 0, 0)
        /\ reserves' = [reserves EXCEPT ![asset] = withRates(m3, asset, 0, 0)]
        /\ UNCHANGED <<environment, usersConfig, borrowAllowances, wallet, flash>>

-----------------------------------------------------------------------------
(* Liquidation                                                             *)

\* Mutant: more collateral than there is may be seized.
collateralWithoutCap(collateralAsset, debtAsset, debtToCover, userCollateralBalance) ==
    [ collateral |->
        percentMul(prices[debtAsset] * debtToCover * config[collateralAsset].tokenUnit,
                   config[collateralAsset].liquidationBonus)
          \div (prices[collateralAsset] * config[debtAsset].tokenUnit),
      debt |-> debtToCover ]

\* Collateral seized for debtToCover, and the debt that much collateral pays.
_calculateAvailableCollateralToLiquidate(collateralAsset, debtAsset, debtToCover, balance) ==
    LET bonus == config[collateralAsset].liquidationBonus
        collateralUnit == config[collateralAsset].tokenUnit
        debtUnit == config[debtAsset].tokenUnit
        maxCollateral ==
          percentMul(prices[debtAsset] * debtToCover * collateralUnit, bonus)
            \div (prices[collateralAsset] * debtUnit)
        debtNeeded ==
          percentDiv((prices[collateralAsset] * balance * debtUnit)
                       \div (prices[debtAsset] * collateralUnit), bonus)
    IN  IF maxCollateral > balance
        THEN [collateral |-> balance, debt |-> debtNeeded]
        ELSE [collateral |-> maxCollateral, debt |-> debtToCover]

\* Variable debt is burnt first, stable debt for the rest.
burnLiquidatedDebtOK(m, user, amount, variableDebt) ==
    IF variableDebt >= amount
    THEN vBurnOK(m, user, amount, m.variableBorrowIndex)
    ELSE /\ variableDebt > 0 => vBurnOK(m, user, variableDebt, m.variableBorrowIndex)
         /\ sBurnOK(m, user, amount - variableDebt, now)

\* Mutant: the whole variable debt is burnt, whatever was paid.
burnWholeVariableDebt(m, user, amount, variableDebt) ==
    IF variableDebt >= amount
    THEN vBurn(m, user, variableDebt, m.variableBorrowIndex)
    ELSE sBurn(m, user, amount - variableDebt, now)

burnLiquidatedDebt(m, user, amount, variableDebt) ==
    IF variableDebt >= amount
    THEN vBurn(m, user, amount, m.variableBorrowIndex)
    ELSE LET m1 == IF variableDebt > 0
                   THEN vBurn(m, user, variableDebt, m.variableBorrowIndex)
                   ELSE m
         IN  sBurn(m1, user, amount - variableDebt, now)

\* What a call with debtToCover seizes and repays: never more than the close
\* factor allows, nor than the collateral pays for.
liquidated(collateralAsset, debtAsset, user, debtToCover) ==
    LET debt      == stableDebtOf(debtAsset, user) + variableDebtOf(debtAsset, user)
        wanted    == min(debtToCover, percentMul(debt, LIQUIDATION_CLOSE_FACTOR_PERCENT))
        available == _calculateAvailableCollateralToLiquidate(
                       collateralAsset, debtAsset, wanted,
                       lBalanceOf(reserves[collateralAsset], user, now))
    IN  [available EXCEPT !.debt = min(@, wanted)]

\* The debt reserve with the debt burnt, then all reserves with its new rates.
debtReserveBurnt(debtAsset, user, debt) ==
    burnLiquidatedDebt(accrue(reserves[debtAsset], debtAsset), user, debt,
                       variableDebtOf(debtAsset, user))

reservesBurnt(debtAsset, user, debt) ==
    [reserves EXCEPT ![debtAsset] =
       withRates(debtReserveBurnt(debtAsset, user, debt), debtAsset, debt, 0)]

\* The collateral reserve c, possibly the debt reserve, gives the collateral.
seizeOK(c, collateralAsset, user, collateral, receiveLToken) ==
    LET accrued == accrue(c, collateralAsset)
        m       == withRates(accrued, collateralAsset, 0, collateral)
    IN  IF receiveLToken
        THEN lTransferOK(c, user, collateral, getNormalizedIncome(c, now))
        ELSE /\ accrueOK(c, collateralAsset)
             /\ ratesOK(accrued, collateralAsset, 0, collateral)
             /\ lBurnOK(m, user, collateral, m.liquidityIndex)

seize(c, collateralAsset, sender, user, collateral, receiveLToken) ==
    LET m == withRates(accrue(c, collateralAsset), collateralAsset, 0, collateral)
    IN  IF receiveLToken
        THEN lTransfer(c, user, sender, collateral, getNormalizedIncome(c, now))
        ELSE lBurn(m, user, collateral, m.liquidityIndex)

\* The liquidator's wallet before it pays the debt.
walletSeized(sender, collateralAsset, collateral, receiveLToken) ==
    IF receiveLToken
    THEN wallet
    ELSE [wallet EXCEPT ![collateralAsset][sender] = @ + collateral]

liquidationCallOK(sender, collateralAsset, debtAsset, user, debtToCover, receiveLToken) ==
    LET amounts == liquidated(collateralAsset, debtAsset, user, debtToCover)
        rs      == reservesBurnt(debtAsset, user, amounts.debt)
    IN  /\ whenNotPaused
        /\ validateLiquidationCall(collateralAsset, debtAsset, user,
                                   stableDebtOf(debtAsset, user),
                                   variableDebtOf(debtAsset, user))
        /\ ~receiveLToken => amounts.collateral <= reserves[collateralAsset].avail
        /\ accrueOK(reserves[debtAsset], debtAsset)
        /\ burnLiquidatedDebtOK(accrue(reserves[debtAsset], debtAsset), user,
                                amounts.debt, variableDebtOf(debtAsset, user))
        /\ ratesOK(debtReserveBurnt(debtAsset, user, amounts.debt), debtAsset,
                   amounts.debt, 0)
        /\ seizeOK(rs[collateralAsset], collateralAsset, user,
                   amounts.collateral, receiveLToken)
        /\ amounts.debt <= walletSeized(sender, collateralAsset, amounts.collateral,
                                        receiveLToken)[debtAsset][sender]

liquidationCall(sender, collateralAsset, debtAsset, user, debtToCover, receiveLToken) ==
    LET amounts == liquidated(collateralAsset, debtAsset, user, debtToCover)
        rs  == reservesBurnt(debtAsset, user, amounts.debt)
        rs1 == [rs EXCEPT ![collateralAsset] =
                  seize(@, collateralAsset, sender, user, amounts.collateral, receiveLToken)]
        uc1 == IF receiveLToken /\ lBalanceOf(rs[collateralAsset], sender, now) = 0
               THEN setUsingAsCollateral(usersConfig, sender, collateralAsset, TRUE)
               ELSE usersConfig
        allSeized == amounts.collateral = lBalanceOf(reserves[collateralAsset], user, now)
    IN  /\ liquidationCallOK(sender, collateralAsset, debtAsset, user, debtToCover,
                             receiveLToken)
        /\ reserves' = [rs1 EXCEPT ![debtAsset] =
                          [rs1[debtAsset] EXCEPT !.avail = @ + amounts.debt]]
        /\ wallet' = [walletSeized(sender, collateralAsset, amounts.collateral, receiveLToken)
                        EXCEPT ![debtAsset][sender] = @ - amounts.debt]
        /\ usersConfig' = IF allSeized
                          THEN setUsingAsCollateral(uc1, user, collateralAsset, FALSE)
                          ELSE uc1
        /\ UNCHANGED <<environment, borrowAllowances, flash>>

-----------------------------------------------------------------------------
(* Flash loans                                                             *)

premiumOf(amount) == (amount * FLASHLOAN_PREMIUM_TOTAL) \div 10000

\* validateFlashloan() passes and the loops over the loans begin.
flashLoan(initiator, receiver, onBehalfOf, loans) ==
    /\ whenNotPaused
    /\ Len(flash) < MaxFlashDepth
    /\ flash' = Append(flash,
                  [ initiator |-> initiator, receiver |-> receiver,
                    onBehalfOf |-> onBehalfOf, phase |-> "lending", next |-> 1,
                    loans |-> [i \in DOMAIN loans |->
                       [ asset |-> loans[i].asset, amount |-> loans[i].amount,
                         mode |-> loans[i].mode,
                         premium |-> premiumOf(loans[i].amount) ] ] ])
    /\ UNCHANGED <<environment, reserves, usersConfig, borrowAllowances, wallet>>

innermost == flash[Len(flash)]

\* The innermost flash loan after the loan it is at: on to the next one, or to
\* what follows the loop.
nextLoan(afterwards) ==
    IF innermost.next < Len(innermost.loans)
    THEN [flash EXCEPT ![Len(flash)] = [innermost EXCEPT !.next = @ + 1]]
    ELSE afterwards

\* One turn of the lending loop; after the last the receiver is called back.
lendFlashLoan ==
    LET ln == innermost.loans[innermost.next]
    IN  /\ inPhase("lending")
        /\ ln.amount <= reserves[ln.asset].avail
        /\ reserves' = [reserves EXCEPT ![ln.asset] =
                          [reserves[ln.asset] EXCEPT !.avail = @ - ln.amount]]
        /\ wallet' = [wallet EXCEPT ![ln.asset][innermost.receiver] = @ + ln.amount]
        /\ flash' = nextLoan([flash EXCEPT ![Len(flash)] =
                               [innermost EXCEPT !.phase = "callback", !.next = 1]])
        /\ UNCHANGED <<environment, usersConfig, borrowAllowances>>

\* Mutant: only the last loan is settled.
settleLastLoan ==
    /\ inPhase("callback")
    /\ flash' = [flash EXCEPT ![Len(flash)] =
                   [innermost EXCEPT !.phase = "settling", !.next = Len(innermost.loans)]]
    /\ UNCHANGED <<environment, reserves, usersConfig, borrowAllowances, wallet>>

\* executeOperation() returned true: the loop that settles the loans starts.
executeOperationReturns ==
    /\ inPhase("callback")
    /\ flash' = [flash EXCEPT ![Len(flash)] =
                   [innermost EXCEPT !.phase = "settling", !.next = 1]]
    /\ UNCHANGED <<environment, reserves, usersConfig, borrowAllowances, wallet>>

\* After the last loan is settled the call returns to whoever made it.
settled == nextLoan(SubSeq(flash, 1, Len(flash) - 1))

\* Mode NONE: the premium goes to the depositors, the receiver pays back.
collectFlashLoan ==
    LET ln == innermost.loans[innermost.next]
        a  == ln.asset
        amountPlusPremium == ln.amount + ln.premium
        m1 == accrue(reserves[a], a)
        m2 == cumulateToLiquidityIndex(m1, ln.premium, now)
        m3 == [withRates(m2, a, amountPlusPremium, 0) EXCEPT
                 !.avail = @ + amountPlusPremium]
    IN  /\ inPhase("settling")
        /\ ln.mode = "none"
        /\ accrueOK(reserves[a], a)
        /\ cumulateToLiquidityIndexOK(m1, ln.premium, now)
        /\ ratesOK(m2, a, amountPlusPremium, 0)
        /\ amountPlusPremium <= wallet[a][innermost.receiver]
        /\ reserves' = [reserves EXCEPT ![a] = m3]
        /\ wallet' = [wallet EXCEPT ![a][innermost.receiver] = @ - amountPlusPremium]
        /\ flash' = settled
        /\ UNCHANGED <<environment, usersConfig, borrowAllowances>>

\* The other modes: the loan becomes a debt of onBehalfOf, without a premium.
borrowFlashLoan ==
    LET ln == innermost.loans[innermost.next]
    IN  /\ inPhase("settling")
        /\ ln.mode # "none"
        /\ _executeBorrow(innermost.initiator, innermost.onBehalfOf, ln.asset,
                          ln.amount, ln.mode, FALSE)
        /\ flash' = settled
        /\ UNCHANGED environment

-----------------------------------------------------------------------------
(* The environment                                                         *)

\* A plain transfer of the underlying to the lToken contract.
donate(sender, asset, amount) ==
    /\ callable
    /\ amount <= wallet[asset][sender]
    /\ reserves' = [reserves EXCEPT ![asset] = [reserves[asset] EXCEPT !.avail = @ + amount]]
    /\ wallet' = [wallet EXCEPT ![asset][sender] = @ - amount]
    /\ UNCHANGED <<environment, usersConfig, borrowAllowances, flash>>

\* block.timestamp is constant during a transaction.
Tick ==
    /\ flash = <<>>
    /\ now < MaxTime
    /\ now' = now + 1
    /\ UNCHANGED <<config, paused, prices, marketRates, reserves, usersConfig,
                   borrowAllowances, wallet, flash>>

setAssetPrice(asset, price) ==
    /\ flash = <<>>
    /\ prices' = [prices EXCEPT ![asset] = price]
    /\ UNCHANGED <<config, paused, marketRates, now, reserves, usersConfig,
                   borrowAllowances, wallet, flash>>

setMarketBorrowRate(asset, rate) ==
    /\ flash = <<>>
    /\ marketRates' = [marketRates EXCEPT ![asset] = rate]
    /\ UNCHANGED <<config, paused, prices, now, reserves, usersConfig,
                   borrowAllowances, wallet, flash>>

-----------------------------------------------------------------------------

LoanArgs == [asset : Assets, amount : Amounts, mode : InterestRateMode]

LoansArgs == UNION {[1..n -> LoanArgs] : n \in 1..MaxLoans}

\* type(uint256).max stands for the whole balance in withdraw and repay, and is
\* cut to the close factor in liquidationCall; elsewhere it always reverts.
UserStepOf(callers) ==
    \E u \in callers, w \in Users, a \in Assets :
       \/ \E amount \in Amounts :
            \/ deposit(u, a, amount, w)
            \/ transfer(u, a, w, amount)
            \/ \E mode \in DebtModes : borrow(u, a, amount, mode, w)
       \/ \E amount \in AmountArgs :
            \/ withdraw(u, a, amount, w)
            \/ \E mode \in DebtModes : repay(u, a, amount, mode, w)
            \/ \E c \in Assets, receiveLToken \in BOOLEAN :
                 liquidationCall(u, c, a, w, amount, receiveLToken)

\* Anybody rebalances anybody's stable rate.
PositionStepOf(callers) ==
    \/ \E u \in Users, a \in Assets : rebalanceStableBorrowRate(a, u)
    \/ \E u \in callers, a \in Assets :
          \/ \E flag \in BOOLEAN : setUserUseReserveAsCollateral(u, a, flag)
          \/ \E mode \in DebtModes : swapBorrowRateMode(u, a, mode)
          \* an allowance to oneself is never read
          \/ \E mode \in DebtModes, w \in Users \ {u}, amount \in Delegations :
               approveDelegation(u, a, mode, w, amount)
          \/ \E amount \in Donations : donate(u, a, amount)

\* The receiver is a contract of a caller, with an executeOperation().
FlashStepOf(callers) ==
    \/ \E u \in callers, r \in callers, w \in Users, loans \in LoansArgs :
         flashLoan(u, r, w, loans)
    \/ lendFlashLoan
    \/ executeOperationReturns
    \/ collectFlashLoan
    \/ borrowFlashLoan

UserStep == UserStepOf(Users)

PositionStep == PositionStepOf(Users)

FlashStep == FlashStepOf(Users)

EnvironmentStep ==
    \/ Tick
    \/ \E a \in Assets : \E price \in PriceValues[a] : setAssetPrice(a, price)
    \/ \E a \in Assets, rate \in MarketRateValues : setMarketBorrowRate(a, rate)

Next == UserStep \/ PositionStep \/ FlashStep \/ EnvironmentStep

Spec == Init /\ [][Next]_vars
=============================================================================
