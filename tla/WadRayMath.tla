----------------------------- MODULE WadRayMath -----------------------------
(***************************************************************************)
(* Fixed-point arithmetic of the protocol: WadRayMath.sol,                 *)
(* PercentageMath.sol and MathUtils.sol.                                   *)
(*                                                                         *)
(* Every multiplication and division rounds half up. The scale of a ray    *)
(* and of a wad and the length of a year are parameters: the code fixes    *)
(* them at 10^27, 10^18 and 365 days, the model checker uses small ones    *)
(* and the proofs hold for all of them. A division by zero reverts in the  *)
(* code, so the callers' guards exclude it. The revert on overflow of a    *)
(* uint256 is not modelled: amounts are bounded by the supply of the       *)
(* underlying token, far below it.                                         *)
(***************************************************************************)
EXTENDS Integers

CONSTANTS
    RAY,               \* 1e27 in the code
    WAD,               \* 1e18 in the code
    SECONDS_PER_YEAR,  \* 365 days in the code
    MaxUint,           \* type(uint256).max, the "everything" amount
    MaxUint128         \* type(uint128).max, the width of indexes and rates

\* A ray is even (halfRAY is exact) and a whole number of wads.
ASSUME RayAssumption == RAY \in Nat /\ RAY > 0 /\ 2 * (RAY \div 2) = RAY

ASSUME WadAssumption == WAD \in Nat /\ WAD > 0 /\ WAD <= RAY

ASSUME YearAssumption == SECONDS_PER_YEAR \in Nat /\ SECONDS_PER_YEAR > 0

ASSUME UintAssumption ==
    /\ MaxUint \in Nat /\ MaxUint128 \in Nat
    /\ RAY <= MaxUint128 /\ MaxUint128 < MaxUint

WAD_RAY_RATIO == RAY \div WAD

PERCENTAGE_FACTOR == 10000

rayMul(a, b) == (a * b + RAY \div 2) \div RAY

\* Mutant: rounds up.
rayDivUp(a, b) == (a * RAY + b - 1) \div b

rayDiv(a, b) == (a * RAY + b \div 2) \div b

wadDiv(a, b) == (a * WAD + b \div 2) \div b

wadToRay(a) == a * WAD_RAY_RATIO

percentMul(value, percentage) ==
    (value * percentage + PERCENTAGE_FACTOR \div 2) \div PERCENTAGE_FACTOR

percentDiv(value, percentage) ==
    (value * PERCENTAGE_FACTOR + percentage \div 2) \div percentage

-----------------------------------------------------------------------------
(* MathUtils: interest accrued between two timestamps, from <= to.         *)

calculateLinearInterest(rate, from, to) ==
    (rate * (to - from)) \div SECONDS_PER_YEAR + RAY

\* The first four terms of the binomial expansion of (1 + rate/year)^exp.
calculateCompoundedInterest(rate, from, to) ==
    LET exp            == to - from
        expMinusOne    == exp - 1
        expMinusTwo    == IF exp > 2 THEN exp - 2 ELSE 0
        ratePerSecond  == rate \div SECONDS_PER_YEAR
        basePowerTwo   == rayMul(ratePerSecond, ratePerSecond)
        basePowerThree == rayMul(basePowerTwo, ratePerSecond)
    IN  IF exp = 0
        THEN RAY
        ELSE RAY + ratePerSecond * exp
                 + (exp * expMinusOne * basePowerTwo) \div 2
                 + (exp * expMinusOne * expMinusTwo * basePowerThree) \div 6
=============================================================================
