------------------------ MODULE InterestRateStrategy ------------------------
(***************************************************************************)
(* DefaultReserveInterestRateStrategy.sol: the borrow rates as a piecewise *)
(* linear function of the utilisation of a reserve, with a kink at the     *)
(* optimal utilisation, and the liquidity rate depositors earn.            *)
(*                                                                         *)
(* A strategy is the record of the contract's immutables.                  *)
(***************************************************************************)
EXTENDS WadRayMath

Strategy ==
    [ optimal : 1..RAY,  \* OPTIMAL_UTILIZATION_RATE
      base    : Nat,     \* _baseVariableBorrowRate
      v1      : Nat,     \* _variableRateSlope1
      v2      : Nat,     \* _variableRateSlope2
      s1      : Nat,     \* _stableRateSlope1
      s2      : Nat ]    \* _stableRateSlope2

getMaxVariableBorrowRate(st) == st.base + st.v1 + st.v2

\* Average of the borrow rates weighted by the debt at each of them.
_getOverallBorrowRate(stableDebt, variableDebt, variableRate, avgStableRate) ==
    LET totalDebt == stableDebt + variableDebt
        weighted  == rayMul(wadToRay(variableDebt), variableRate)
                       + rayMul(wadToRay(stableDebt), avgStableRate)
    IN  IF totalDebt = 0 THEN 0 ELSE rayDiv(weighted, wadToRay(totalDebt))

utilizationRate(availableLiquidity, totalDebt) ==
    IF totalDebt = 0 THEN 0 ELSE rayDiv(totalDebt, availableLiquidity + totalDebt)

\* marketRate is what the lending rate oracle answers for the reserve.
calculateInterestRates(st, marketRate, avail, stableDebt, variableDebt, avgRate, factor) ==
    LET util     == utilizationRate(avail, stableDebt + variableDebt)
        excess   == rayDiv(util - st.optimal, RAY - st.optimal)
        variable == IF util > st.optimal
                    THEN st.base + st.v1 + rayMul(st.v2, excess)
                    ELSE st.base + rayDiv(rayMul(util, st.v1), st.optimal)
        stable   == IF util > st.optimal
                    THEN marketRate + st.s1 + rayMul(st.s2, excess)
                    ELSE marketRate + rayMul(st.s1, rayDiv(util, st.optimal))
        overall  == _getOverallBorrowRate(stableDebt, variableDebt, variable,
                                          avgRate)
    IN  [ liquidity |-> percentMul(rayMul(overall, util),
                                   PERCENTAGE_FACTOR - factor),
          stable    |-> stable,
          variable  |-> variable ]
=============================================================================
