----------------------- MODULE LendingPoolProperties -----------------------
(***************************************************************************)
(* What makes the lending pool correct.                                    *)
(***************************************************************************)
EXTENDS LendingPool

CONSTANT
    Dust  \* rounding tolerated in one step, in units of the asset

ASSUME DustAssumption == Dust \in Nat

-----------------------------------------------------------------------------
(* State kept in two places stays consistent                               *)

(* A user who owes anything of an asset, principal or scaled, has the      *)
(* borrowing flag of that asset. calculateUserAccountData() only looks at  *)
(* the debt of flagged reserves, so an unflagged debt would be ignored by  *)
(* every health check; repay() clears the flag from amounts computed       *)
(* before the accrual.                                                     *)
BorrowingFlagged ==
    \A u \in Users, a \in Assets :
       reserves[a].s[u] > 0 \/ reserves[a].v[u] > 0 => a \in usersConfig[u].borrowing

(* The timestamps of a reserve are ordered: a user's stable debt, the      *)
(* stable supply, the reserve, the block. ReserveLogic, MathUtils and      *)
(* StableDebtToken subtract them with SafeMath, so a single inversion      *)
(* would make every operation on the reserve revert from then on.          *)
TimestampsOrdered ==
    \A a \in Assets :
       LET m == reserves[a]
       IN  /\ \A u \in Users : m.sTs[u] <= m.sSupplyTs
           /\ m.sSupplyTs <= m.lastUpdateTimestamp
           /\ m.lastUpdateTimestamp <= now

(* The scaled supplies of the lToken and of the variable debt token are    *)
(* the sums of the users' scaled balances, although the treasury's share   *)
(* is minted on the side and transfers round.                              *)
SuppliesAddUp ==
    \A a \in Assets :
       /\ reserves[a].lSupply = SumFunction(reserves[a].l)
       /\ reserves[a].vSupply = SumFunction(reserves[a].v)

(* "TotalSupply is the sum of all users' balances" of the stable debt      *)
(* token, up to Dust units of rounding, although it compounds at the       *)
(* average rate.                                                           *)
StableSupplyIsSum ==
    \A a \in Assets :
       LET balances == [u \in Users |-> sBalanceOf(reserves[a], u, now)]
       IN  sTotalSupply(reserves[a], now) - SumFunction(balances) \in -Dust..Dust

-----------------------------------------------------------------------------
(* Accrual                                                                 *)

(* An index starts at one ray and no operation ever lowers it: not the     *)
(* accrual, not the premium of a flash loan.                               *)
IndexesMonotone ==
    [][\A a \in Assets :
         /\ RAY <= reserves[a].liquidityIndex
         /\ RAY <= reserves[a].variableBorrowIndex
         /\ reserves[a].liquidityIndex <= reserves'[a].liquidityIndex
         /\ reserves[a].variableBorrowIndex <= reserves'[a].variableBorrowIndex]_vars

(* The balance that LToken.balanceOf() shows to a depositor whose scaled   *)
(* balance does not change never shrinks, whatever others do: time, rate   *)
(* changes, and accruals that are booked later than they were shown.       *)
DepositsNeverShrink ==
    [][\A a \in Assets, u \in Users :
         reserves[a].l[u] > 0 /\ reserves'[a].l[u] = reserves[a].l[u] =>
           lBalanceOf(reserves[a], u, now) <= lBalanceOf(reserves'[a], u, now')]_vars

(* The debt that VariableDebtToken.balanceOf() shows never shrinks while   *)
(* the scaled debt stays: interest shown to a borrower is really booked by *)
(* the next updateState().                                                 *)
DebtNeverForgiven ==
    [][\A a \in Assets, u \in Users :
         reserves[a].v[u] > 0 /\ reserves'[a].v[u] = reserves[a].v[u] =>
           vBalanceOf(reserves[a], u, now) <= vBalanceOf(reserves'[a], u, now')]_vars

\* Loan j of the flash loan f is lent and not settled.
isOut(f, j) ==
    \/ f.phase = "lending" /\ j < f.next
    \/ f.phase = "callback"
    \/ f.phase = "settling" /\ j >= f.next

\* What the flash loan f still has to bring back of an asset, and what all do.
owedBy(f, asset) ==
    SumFunction([j \in DOMAIN f.loans |->
                   IF isOut(f, j) /\ f.loans[j].asset = asset
                   THEN f.loans[j].amount ELSE 0])

outstanding(asset) == SumFunction([i \in DOMAIN flash |-> owedBy(flash[i], asset)])

\* The depositors' claims and the treasury's share that the next accrual mints.
claims(asset) ==
    LET m == reserves[asset]
    IN  lTotalSupply(m, now) + amountToMint(m, config[asset].reserveFactor, now)

\* The stable debts one by one: the stable supply is only an approximation.
backing(asset) ==
    LET m == reserves[asset]
        stableDebts == [u \in Users |-> sBalanceOf(m, u, now)]
    IN  m.avail + vTotalSupply(m, now) + SumFunction(stableDebts) + outstanding(asset)

(* The claims of the depositors are covered by the liquidity, the debts    *)
(* and the flash loans in flight, at every moment, callbacks included.     *)
(* Exact while no interest accrues.                                        *)
Solvent == \A a \in Assets : claims(a) <= backing(a)

(* With interest, claims and debts round on their own; no operation, no    *)
(* accrual and no lapse of time adds more than Dust units to what the      *)
(* claims exceed the backing by.                                           *)
DustPerStep ==
    [][\A a \in Assets :
         claims(a)' - backing(a)' <= claims(a) - backing(a) + Dust]_vars

-----------------------------------------------------------------------------
(* Health                                                                  *)

healthy(user) == healthFactor(reserves, user) >= HEALTH_FACTOR_LIQUIDATION_THRESHOLD

\* The collateral of the user, each asset at its own liquidation threshold, pays for
\* the debt up to Dust units of the oracle's currency.
supported(user) ==
    LET data      == calculateUserAccountData(reserves, user)
        weight(a) == toETH(a, lBalanceOf(reserves[a], user, now))
                       * config[a].liquidationThreshold
    IN  data.debt * PERCENTAGE_FACTOR
          <= MapThenSumSet(weight, collateralOf(user)) + Dust * PERCENTAGE_FACTOR

(* While no time passes and prices and configuration stay, no operation of  *)
(* anybody takes away the support of a debt: an account that is healthy, or *)
(* was when its collateral was last decreased, keeps collateral that pays   *)
(* for the debt at the thresholds of its own assets. It may still become    *)
(* liquidatable, as calculateUserAccountData() rounds the average threshold *)
(* down to a basis point and whoever adds collateral with another threshold *)
(* changes what is rounded away; but it never lacks more than that.         *)
HealthPreserved ==
    [][now' = now /\ prices' = prices /\ config' = config
         => \A u \in Users : healthy(u) \/ supported(u) => supported(u)']_vars

\* More is owed of asset a in this mode than was before, with interest.
debtGrows(a, u, mode) ==
    IF mode = "stable"
    THEN reserves'[a].s[u] > stableDebtOf(a, u)
    ELSE reserves'[a].v[u] > reserves[a].v[u]

\* The loan of asset a that is settled in this step was taken by w.
settledBy(w, a, mode) ==
    /\ flash # <<>> /\ flash' # flash
    /\ innermost.initiator = w
    /\ LET ln == innermost.loans[innermost.next] IN ln.asset = a /\ ln.mode = mode

\* The ways in which u takes on a debt, or has allowed w to.
Consent(a, u, mode) ==
    LET spent(w) == borrowAllowances[a][mode][u][w] - borrowAllowances'[a][mode][u][w]
    IN  \/ wallet'[a][u] > wallet[a][u]
        \/ settledBy(u, a, mode)
        \/ mode = "stable" /\ reserves'[a].v[u] < reserves[a].v[u]
        \/ mode # "stable" /\ reserves'[a].s[u] < reserves[a].s[u]
        \/ \E w \in Users :
             /\ spent(w) > 0
             /\ \/ wallet'[a][w] - wallet[a][w] = spent(w)
                \/ /\ settledBy(w, a, mode)
                   /\ innermost.loans[innermost.next].amount = spent(w)

(* Debt is taken by its owner or within what the owner delegated: a debt   *)
(* of either kind grows by more than its interest only when the owner      *)
(* receives the asset, swaps a debt of the other kind, or an allowance of  *)
(* the owner for that kind shrinks by what its delegatee receives; and     *)
(* when a flash loan becomes a debt, when the owner or such a delegatee    *)
(* took the loan.                                                          *)
DebtConsented ==
    [][\A a \in Assets, u \in Users, mode \in DebtModes :
         debtGrows(a, u, mode) => Consent(a, u, mode)]_vars

-----------------------------------------------------------------------------
(* Nobody is locked in                                                     *)

(* A depositor without debt can withdraw everything with                   *)
(* type(uint256).max whenever the reserve is active and holds that much:   *)
(* no rounding, accrual, supply bookkeeping or outage of the oracle makes  *)
(* withdraw() revert.                                                      *)
DebtFreeCanExit ==
    \A u \in Users, a \in Assets :
       LET balance == lBalanceOf(reserves[a], u, now)
       IN  /\ whenNotPaused /\ config[a].active
           /\ usersConfig[u].borrowing = {}
           /\ 0 < balance /\ balance <= reserves[a].avail
           => withdrawOK(u, a, MaxUint)

(* A borrower with the funds can repay the whole debt of a kind with       *)
(* type(uint256).max, as the comment of repay() promises, with or without  *)
(* prices.                                                                 *)
WholeDebtRepayable ==
    \A u \in Users, a \in Assets, mode \in DebtModes :
       LET debt == IF mode = "stable" THEN sBalanceOf(reserves[a], u, now)
                                      ELSE vBalanceOf(reserves[a], u, now)
       IN  /\ whenNotPaused /\ config[a].active
           /\ 0 < debt /\ debt <= wallet[a][u]
           => repayOK(u, a, MaxUint, mode, u)

(* An unhealthy account can be liquidated by whoever holds enough of the   *)
(* debt asset, against any collateral worth at least one unit of the debt, *)
(* as long as its reserves have prices: no rounding or ordering inside     *)
(* liquidationCall() makes it revert.                                      *)
UnhealthyLiquidatable ==
    \A u \in Users, w \in Users, d \in Assets :
      \A c \in collateralOf(u) :
        LET m == reserves[d]
            debt == sBalanceOf(m, u, now) + vBalanceOf(m, u, now)
            worth == prices[c] * lBalanceOf(reserves[c], u, now)
                       * config[d].tokenUnit
        IN  /\ whenNotPaused /\ config[c].active /\ config[d].active
            /\ accountPriced(u) /\ ~healthy(u)
            /\ 0 < debt /\ debt <= wallet[d][w]
            /\ percentMul(prices[d] * config[c].tokenUnit, config[c].liquidationBonus)
                 <= worth
            => liquidationCallOK(w, c, d, u, MaxUint, TRUE)
=============================================================================
