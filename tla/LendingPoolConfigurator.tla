----------------------- MODULE LendingPoolConfigurator -----------------------
(***************************************************************************)
(* LendingPoolConfigurator.sol: the pool admin reconfigures a live reserve *)
(* and the emergency admin pauses the pool, while users keep calling it.   *)
(* The admins are not flash loan receivers: they act between transactions. *)
(* Initialising reserves and upgrading tokens is not modelled here.        *)
(***************************************************************************)
EXTENDS LendingPoolProperties

CONSTANTS
    CollateralParameters,  \* <<ltv, threshold, bonus>> the pool admin may try
    ReserveFactors,        \* reserve factors the pool admin may set
    Strategies             \* interest rate strategies the pool admin may set

ASSUME AdminAssumption ==
    /\ CollateralParameters \subseteq Nat \X Nat \X Nat
    /\ ReserveFactors \subseteq Nat
    /\ Strategies \subseteq Strategy

\* MAX_VALID_... of ReserveConfiguration: the fields are 16 bits wide.
MAX_VALID == 65535

setConfiguration(asset, c) ==
    /\ flash = <<>>
    /\ config' = [config EXCEPT ![asset] = c]
    /\ UNCHANGED <<reserves, usersConfig, paused, borrowAllowances, wallet,
                   prices, marketRates, flash, now>>

_checkNoLiquidity(asset) ==
    reserves[asset].avail = 0 /\ reserves[asset].currentLiquidityRate = 0

enableBorrowingOnReserve(asset, stableBorrowRateEnabled) ==
    setConfiguration(asset,
      [config[asset] EXCEPT !.borrowingEnabled = TRUE,
                            !.stableRateBorrowingEnabled = stableBorrowRateEnabled])

disableBorrowingOnReserve(asset) ==
    setConfiguration(asset, [config[asset] EXCEPT !.borrowingEnabled = FALSE])

\* Mutant: the bonus may exceed what the threshold leaves.
collateralParametersUncovered(asset, ltv, liquidationThreshold, liquidationBonus) ==
    /\ ltv <= liquidationThreshold
    /\ liquidationThreshold # 0 /\ liquidationBonus > PERCENTAGE_FACTOR

collateralParametersOK(asset, ltv, liquidationThreshold, liquidationBonus) ==
    /\ ltv <= liquidationThreshold
    /\ IF liquidationThreshold # 0
       THEN /\ liquidationBonus > PERCENTAGE_FACTOR
            /\ percentMul(liquidationThreshold, liquidationBonus) <= PERCENTAGE_FACTOR
       ELSE liquidationBonus = 0 /\ _checkNoLiquidity(asset)
    /\ ltv <= MAX_VALID /\ liquidationThreshold <= MAX_VALID
    /\ liquidationBonus <= MAX_VALID

configureReserveAsCollateral(asset, ltv, liquidationThreshold, liquidationBonus) ==
    /\ collateralParametersOK(asset, ltv, liquidationThreshold, liquidationBonus)
    /\ setConfiguration(asset,
         [config[asset] EXCEPT !.ltv = ltv,
                               !.liquidationThreshold = liquidationThreshold,
                               !.liquidationBonus = liquidationBonus])

\* enableReserveStableRate and disableReserveStableRate
setReserveStableRate(asset, enabled) ==
    setConfiguration(asset, [config[asset] EXCEPT !.stableRateBorrowingEnabled = enabled])

activateReserve(asset) ==
    setConfiguration(asset, [config[asset] EXCEPT !.active = TRUE])

deactivateReserve(asset) ==
    /\ _checkNoLiquidity(asset)
    /\ setConfiguration(asset, [config[asset] EXCEPT !.active = FALSE])

freezeReserve(asset) ==
    setConfiguration(asset, [config[asset] EXCEPT !.frozen = TRUE])

unfreezeReserve(asset) ==
    setConfiguration(asset, [config[asset] EXCEPT !.frozen = FALSE])

\* The new factor applies to interest that has accrued before, too: the
\* reserve is not updated.
setReserveFactor(asset, reserveFactor) ==
    /\ reserveFactor <= MAX_VALID
    /\ setConfiguration(asset, [config[asset] EXCEPT !.reserveFactor = reserveFactor])

\* The rates keep their values until the next operation on the reserve.
setReserveInterestRateStrategyAddress(asset, strategy) ==
    setConfiguration(asset, [config[asset] EXCEPT !.strategy = strategy])

setPoolPause(val) ==
    /\ flash = <<>>
    /\ paused' = val
    /\ UNCHANGED <<reserves, config, usersConfig, borrowAllowances, wallet,
                   prices, marketRates, flash, now>>

AdminStep ==
    \/ \E a \in Assets :
         \/ \E flag \in BOOLEAN :
              enableBorrowingOnReserve(a, flag) \/ setReserveStableRate(a, flag)
         \/ disableBorrowingOnReserve(a)
         \/ \E p \in CollateralParameters :
              configureReserveAsCollateral(a, p[1], p[2], p[3])
         \/ activateReserve(a) \/ deactivateReserve(a)
         \/ freezeReserve(a) \/ unfreezeReserve(a)
         \/ \E factor \in ReserveFactors : setReserveFactor(a, factor)
         \/ \E st \in Strategies : setReserveInterestRateStrategyAddress(a, st)
    \/ \E val \in BOOLEAN : setPoolPause(val)

ConfiguredSpec == Init /\ [][Next \/ AdminStep]_vars

-----------------------------------------------------------------------------

(* "A frozen reserve doesn't allow any new deposit, borrow or rate swap":  *)
(* while a reserve is frozen no operation, not even the settlement of a    *)
(* flash loan or the rebalancing of a stable rate, mints lTokens (other    *)
(* than the treasury's share of accrued interest) or increases a debt.     *)
FrozenOnlyShrinks ==
    [][\A a \in Assets : config[a].frozen =>
         /\ reserves'[a].lSupply <= accrue(reserves[a], a).lSupply
         /\ \A u \in Users :
              /\ reserves'[a].v[u] <= reserves[a].v[u]
              /\ now' = now => sBalanceOf(reserves'[a], u, now)
                                 <= sBalanceOf(reserves[a], u, now)]_vars

(* setPoolPause(true) "pauses all the actions of the protocol, including   *)
(* lToken transfers": while the pool is paused no balance of a reserve's   *)
(* tokens and no flag of a user changes.                                   *)
PausedStandsStill ==
    [][paused =>
         /\ usersConfig' = usersConfig
         /\ \A a \in Assets : /\ reserves'[a].l = reserves[a].l
                              /\ reserves'[a].v = reserves[a].v
                              /\ reserves'[a].s = reserves[a].s]_vars

\* What liquidators may take of the user's collateral, without the bonus.
seizable(user) ==
    LET worth(c) == (toETH(c, lBalanceOf(reserves[c], user, now)) * PERCENTAGE_FACTOR)
                      \div config[c].liquidationBonus
    IN  MapThenSumSet(worth, collateralOf(user))

(* configureReserveAsCollateral() only accepts parameters with which "at   *)
(* the moment a loan is taken there is enough collateral available to      *)
(* cover the liquidation bonus": whenever a variable debt grows and the    *)
(* reserve pays it out, the collateral covers all debts of the borrower    *)
(* and the bonus on them, up to the rounding of the loan itself, however   *)
(* the parameters were changed before.                                     *)
BonusCovered ==
    [][\A u \in Users :
         (\E a \in Assets : /\ reserves'[a].v[u] > reserves[a].v[u]
                            /\ reserves'[a].avail < reserves[a].avail)
           => calculateUserAccountData(reserves, u)'.debt <= seizable(u)' + Dust]_vars

(* "the reserve is being disabled as collateral. To do so, we need to      *)
(* ensure no liquidity is deposited": a reserve that is deactivated or     *)
(* disabled as collateral has no depositors.                               *)
DisabledOnlyEmpty ==
    [][\A a \in Assets :
         \/ config[a].active /\ ~config'[a].active
         \/ config[a].liquidationThreshold # 0 /\ config'[a].liquidationThreshold = 0
         => reserves[a].lSupply = 0]_vars
=============================================================================
