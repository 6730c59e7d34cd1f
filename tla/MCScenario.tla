------------------------------ MODULE MCScenario ------------------------------
(***************************************************************************)
(* Small instances of the scenario tests: users u1 and u2, the borrowed    *)
(* asset a1 (the DAI of the stories) and the collateral a2 (their WETH).   *)
(* A RAY is ten thousand and amounts are smaller than it, as they are in   *)
(* the contracts, so that roundings stay within the tolerated difference.  *)
(***************************************************************************)
EXTENDS Scenario, TLC

CONSTANTS u1, u2, t, a1, a2

Kinked ==
    [optimal |-> 5000, base |-> 500, v1 |-> 1000, v2 |-> 2000, s1 |-> 500, s2 |-> 2000]

Standard ==
    [ltv |-> 7500, liquidationThreshold |-> 8000, liquidationBonus |-> 10500,
     tokenUnit |-> 1, active |-> TRUE, frozen |-> FALSE, borrowingEnabled |-> TRUE,
     stableRateBorrowingEnabled |-> TRUE, reserveFactor |-> 1000,
     strategy |-> Kinked]

ScenarioConfig == [a \in Assets |-> Standard]

ScenarioWallet ==
    [a \in Assets |-> IF a = a1 THEN (u1 :> 1000 @@ u2 :> 8000 @@ t :> 0)
                                ELSE (u1 :> 16000 @@ u2 :> 0 @@ t :> 0)]

NoValues == {}

FixedPrices == [a \in Assets |-> {}]

OnePrice == [a \in Assets |-> 1]

LowRate == [a \in Assets |-> 1000]

\* Deposits of the collateral by the borrowers and of the asset by the lender.
Deposits ==
    {[name |-> "deposit", reserve |-> a1, user |-> u2, amount |-> 4000, onBehalfOf |-> u2],
     [name |-> "deposit", reserve |-> a2, user |-> u1, amount |-> 16000, onBehalfOf |-> u1]}

Withdrawals ==
    [name : {"withdraw"}, reserve : {a1}, user : {u2}, amount : {2000, MaxUint}]

Borrows ==
    [name : {"borrow"}, reserve : {a1}, user : {u1}, amount : {2000},
     mode : DebtModes, onBehalfOf : {u1}, timeTravel : {0, 1}]

Repayments ==
    [name : {"repay"}, reserve : {a1}, user : {u1}, amount : {500, MaxUint},
     mode : DebtModes, onBehalfOf : {u1}]

Swaps ==
    [name : {"swapBorrowRateMode"}, reserve : {a1}, user : {u1}, mode : DebtModes]

Rebalances == [name : {"rebalanceStableBorrowRate"}, reserve : {a1}, user : {u1},
               target : {u1}]

Switches ==
    [name : {"setUseAsCollateral"}, reserve : {a1}, user : {u2},
     useAsCollateral : BOOLEAN]

\* u1 lets u2 borrow on its behalf at the variable rate.
Delegated ==
    {[name |-> "delegateBorrowAllowance", reserve |-> a1, user |-> u1, toUser |-> u2,
      mode |-> "variable", amount |-> 1000],
     [name |-> "borrow", reserve |-> a1, user |-> u2, amount |-> 1000,
      mode |-> "variable", onBehalfOf |-> u1, timeTravel |-> 0]}

AllActions == Deposits \cup Withdrawals \cup Borrows \cup Repayments \cup Swaps
                \cup Rebalances \cup Switches \cup Delegated
===============================================================================
