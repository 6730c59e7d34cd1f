---------------------------- MODULE ReserveLogic ----------------------------
(***************************************************************************)
(* ReserveLogic.sol: accrual of interest on a reserve, minting of the      *)
(* treasury's share, and recalculation of the rates after an operation.    *)
(*                                                                         *)
(* The operators take and return a market, the state of one reserve        *)
(* together with its three tokens; "now" is block.timestamp.               *)
(***************************************************************************)
EXTENDS Tokenization, InterestRateStrategy, FiniteSets

CONSTANTS
    Users,     \* accounts
    Treasury   \* RESERVE_TREASURY_ADDRESS of every lToken

ASSUME TreasuryAssumption == Treasury \in Users

\* An address has 160 bits.
ASSUME UsersAssumption == IsFiniteSet(Users)

Market ==
    [ liquidityIndex            : Nat,
      variableBorrowIndex       : Nat,
      currentLiquidityRate      : Nat,
      currentVariableBorrowRate : Nat,
      currentStableBorrowRate   : Nat,
      lastUpdateTimestamp       : Nat,
      l : [Users -> Nat], lSupply : Nat, avail : Nat,
      v : [Users -> Nat], vSupply : Nat,
      s : [Users -> Nat], sRate : [Users -> Nat], sTs : [Users -> Nat],
      sSupply : Nat, sAvg : Nat, sSupplyTs : Nat ]

\* A reserve just initialised, with no token minted yet.
init ==
    LET zero == [u \in Users |-> 0]
    IN  [ liquidityIndex            |-> RAY,
          variableBorrowIndex       |-> RAY,
          currentLiquidityRate      |-> 0,
          currentVariableBorrowRate |-> 0,
          currentStableBorrowRate   |-> 0,
          lastUpdateTimestamp       |-> 0,
          l |-> zero, lSupply |-> 0, avail |-> 0,
          v |-> zero, vSupply |-> 0,
          s |-> zero, sRate |-> zero, sTs |-> zero,
          sSupply |-> 0, sAvg |-> 0, sSupplyTs |-> 0 ]

-----------------------------------------------------------------------------
(* Views                                                                   *)

getNormalizedIncome(m, now) ==
    IF m.lastUpdateTimestamp = now
    THEN m.liquidityIndex
    ELSE rayMul(calculateLinearInterest(m.currentLiquidityRate,
                                        m.lastUpdateTimestamp, now),
                m.liquidityIndex)

getNormalizedDebt(m, now) ==
    IF m.lastUpdateTimestamp = now
    THEN m.variableBorrowIndex
    ELSE rayMul(calculateCompoundedInterest(m.currentVariableBorrowRate,
                                            m.lastUpdateTimestamp, now),
                m.variableBorrowIndex)

lBalanceOf(m, user, now) == rayMul(m.l[user], getNormalizedIncome(m, now))

lTotalSupply(m, now) == rayMul(m.lSupply, getNormalizedIncome(m, now))

vBalanceOf(m, user, now) == rayMul(m.v[user], getNormalizedDebt(m, now))

vTotalSupply(m, now) == rayMul(m.vSupply, getNormalizedDebt(m, now))

-----------------------------------------------------------------------------
(* updateState: accrue both indexes, then mint the treasury's share        *)

\* Mutant: income is booked only while there is variable debt.
liquidityIndexOfVariableDebt(m, now) ==
    IF m.currentLiquidityRate > 0 /\ m.vSupply # 0
    THEN rayMul(calculateLinearInterest(m.currentLiquidityRate,
                                        m.lastUpdateTimestamp, now),
                m.liquidityIndex)
    ELSE m.liquidityIndex

\* Mutant: the interest of the last period replaces the index.
liquidityIndexOfLastPeriod(m, now) ==
    IF m.currentLiquidityRate > 0
    THEN calculateLinearInterest(m.currentLiquidityRate, m.lastUpdateTimestamp, now)
    ELSE m.liquidityIndex

\* The stored indexes move only while the reserve earns income, and the
\* variable one only while there is variable debt; the timestamp always does.
newLiquidityIndex(m, now) ==
    IF m.currentLiquidityRate > 0
    THEN rayMul(calculateLinearInterest(m.currentLiquidityRate,
                                        m.lastUpdateTimestamp, now),
                m.liquidityIndex)
    ELSE m.liquidityIndex

\* Mutant: the index grows at the stable rate.
variableBorrowIndexAtStableRate(m, now) ==
    IF m.currentLiquidityRate > 0 /\ m.vSupply # 0
    THEN rayMul(calculateCompoundedInterest(m.currentStableBorrowRate,
                                            m.lastUpdateTimestamp, now),
                m.variableBorrowIndex)
    ELSE m.variableBorrowIndex

newVariableBorrowIndex(m, now) ==
    IF m.currentLiquidityRate > 0 /\ m.vSupply # 0
    THEN rayMul(calculateCompoundedInterest(m.currentVariableBorrowRate,
                                            m.lastUpdateTimestamp, now),
                m.variableBorrowIndex)
    ELSE m.variableBorrowIndex

\* Mutant: a reserve without income is not stamped.
updateIndexesOfIncome(m, now) ==
    [m EXCEPT !.liquidityIndex      = newLiquidityIndex(m, now),
              !.variableBorrowIndex = newVariableBorrowIndex(m, now),
              !.lastUpdateTimestamp = IF m.currentLiquidityRate > 0 THEN now ELSE @]

_updateIndexes(m, now) ==
    [m EXCEPT !.liquidityIndex      = newLiquidityIndex(m, now),
              !.variableBorrowIndex = newVariableBorrowIndex(m, now),
              !.lastUpdateTimestamp = now]

\* Debt at the last update of the reserve, and debt now.
previousDebt(m) ==
    rayMul(m.vSupply, m.variableBorrowIndex)
      + rayMul(m.sSupply, calculateCompoundedInterest(m.sAvg, m.sSupplyTs,
                                                      m.lastUpdateTimestamp))

currentDebt(m, now) ==
    rayMul(m.vSupply, newVariableBorrowIndex(m, now)) + sTotalSupply(m, now)

\* Mutant: the treasury gets the depositors' share.
depositorsShare(m, reserveFactor, now) ==
    percentMul(currentDebt(m, now) - previousDebt(m), PERCENTAGE_FACTOR - reserveFactor)

amountToMint(m, reserveFactor, now) ==
    percentMul(currentDebt(m, now) - previousDebt(m), reserveFactor)

_mintToTreasury(m, reserveFactor, now) ==
    LET updated == _updateIndexes(m, now)
    IN  IF reserveFactor = 0
        THEN updated
        ELSE mintToTreasury(updated, Treasury, amountToMint(m, reserveFactor, now),
                            newLiquidityIndex(m, now))

\* SafeMath subtractions of timestamps and debts, and the width of the indexes.
updateStateOK(m, reserveFactor, now) ==
    /\ m.lastUpdateTimestamp <= now
    /\ newLiquidityIndex(m, now) <= MaxUint128
    /\ newVariableBorrowIndex(m, now) <= MaxUint128
    /\ reserveFactor # 0 => /\ m.sSupplyTs <= m.lastUpdateTimestamp
                            /\ previousDebt(m) <= currentDebt(m, now)

updateState(m, reserveFactor, now) == _mintToTreasury(m, reserveFactor, now)

-----------------------------------------------------------------------------

\* Mutant: the index becomes the income's share.
shareOfIncome(m, amount, now) ==
    rayMul(rayDiv(wadToRay(amount), wadToRay(lTotalSupply(m, now))), m.liquidityIndex)

\* A fixed income, such as the premium of a flash loan, shared by all depositors.
cumulatedLiquidityIndex(m, amount, now) ==
    rayMul(rayDiv(wadToRay(amount), wadToRay(lTotalSupply(m, now))) + RAY,
           m.liquidityIndex)

cumulateToLiquidityIndexOK(m, amount, now) ==
    /\ lTotalSupply(m, now) # 0
    /\ cumulatedLiquidityIndex(m, amount, now) <= MaxUint128

cumulateToLiquidityIndex(m, amount, now) ==
    [m EXCEPT !.liquidityIndex = cumulatedLiquidityIndex(m, amount, now)]

\* The rates once liquidityAdded has come in and liquidityTaken has gone out.
newRates(m, strategy, marketRate, factor, added, taken, now) ==
    calculateInterestRates(strategy, marketRate,
                           m.avail + added - taken,
                           sTotalSupply(m, now),
                           rayMul(m.vSupply, m.variableBorrowIndex),
                           m.sAvg, factor)

updateInterestRatesOK(m, strategy, marketRate, factor, added, taken, now) ==
    /\ taken <= m.avail + added
    /\ factor <= PERCENTAGE_FACTOR
    /\ LET r == newRates(m, strategy, marketRate, factor, added, taken, now)
       IN  /\ r.liquidity <= MaxUint128
           /\ r.stable    <= MaxUint128
           /\ r.variable  <= MaxUint128

updateInterestRates(m, strategy, marketRate, factor, added, taken, now) ==
    LET r == newRates(m, strategy, marketRate, factor, added, taken, now)
    IN  [m EXCEPT !.currentLiquidityRate      = r.liquidity,
                  !.currentStableBorrowRate   = r.stable,
                  !.currentVariableBorrowRate = r.variable]
=============================================================================
