---------------------------- MODULE MCLendingPool ----------------------------
(***************************************************************************)
(* Small instances of the lending pool. A ray is 1000 units, a wad 100,    *)
(* and a year one time unit, so that a step of time accrues interest that  *)
(* is visible on balances of a few units.                                  *)
(***************************************************************************)
EXTENDS LendingPoolProperties, TLC

CONSTANTS u1, u2, a1, a2, a3

\* A strategy with a kink at 50%, and one that never charges interest.
Kinked ==
    [optimal |-> 500, base |-> 200, v1 |-> 200, v2 |-> 400, s1 |-> 200, s2 |-> 400]

Free == [optimal |-> 500, base |-> 0, v1 |-> 0, v2 |-> 0, s1 |-> 0, s2 |-> 0]

Standard ==
    [ltv |-> 7500, liquidationThreshold |-> 8000, liquidationBonus |-> 10500,
     tokenUnit |-> 1, active |-> TRUE, frozen |-> FALSE, borrowingEnabled |-> TRUE,
     stableRateBorrowingEnabled |-> TRUE, reserveFactor |-> 1000,
     strategy |-> Kinked]

NoValues == {}

\* The collateral asset is worth twice the borrowed one.
InterestPrices == [a \in Assets |-> IF a = a1 THEN 1 ELSE 2]

OnePrice == [a \in Assets |-> 1]

LowRate == [a \in Assets |-> 100]

NoRate == [a \in Assets |-> 0]

FixedPrices == [a \in Assets |-> {}]

\* Interest: u1 borrows a1 against a2, u2 and the treasury supply a1.
InterestConfig ==
    [a \in Assets |-> IF a = a1 THEN Standard
                      ELSE [Standard EXCEPT !.borrowingEnabled = FALSE]]

InterestWallet ==
    [a \in Assets |-> IF a = a1 THEN (u1 :> 0 @@ u2 :> 8)
                                ELSE (u1 :> 4 @@ u2 :> 0)]

\* The user leaves every deposit as collateral.
allCollateral(u) ==
    \A a \in Assets : reserves[a].l[u] # 0 => a \in usersConfig[u].collateral

\* u1 only borrows a1, u2 only lends it, and deposits stay collateral: what other
\* states lead to is not explored.
Roles ==
    /\ usersConfig[u2].borrowing = {}
    /\ reserves[a1].l[u1] = 0
    /\ reserves[a2].l[u2] = 0 /\ wallet[a2][u2] = 0
    /\ \A u \in Users : allCollateral(u)

\* Both users borrow a1 at stable rates, and years go by once both have.
StableWallet ==
    [a \in Assets |-> IF a = a1 THEN (u1 :> 0 @@ u2 :> 12)
                                ELSE (u1 :> 4 @@ u2 :> 4)]

StableRoles ==
    /\ reserves[a1].vSupply = 0 /\ reserves[a1].l[u1] = 0
    /\ \A u \in Users : reserves[a2].l[u] # 0 => a2 \in usersConfig[u].collateral
    /\ now = 1 \/ \A u \in Users : reserves[a1].s[u] > 0

\* Liquidation: two interest-free reserves with different thresholds, bonuses
\* and decimals, and prices that move.
LiquidationConfig ==
    [a \in Assets |->
       IF a = a1
       THEN [Standard EXCEPT !.strategy = Free]
       ELSE [Standard EXCEPT !.strategy = Free, !.ltv = 5000, !.tokenUnit = 2,
                             !.liquidationThreshold = 6000, !.liquidationBonus = 12000]]

LiquidationWallet ==
    [a \in Assets |-> IF a = a1 THEN (u1 :> 4 @@ u2 :> 0)
                                ELSE (u1 :> 0 @@ u2 :> 8)]

DebtPriceMoves == [a \in Assets |-> IF a = a1 THEN {} ELSE {1, 2}]

\* u1 borrows a2 against a1 only, u2 lends and liquidates.
LiquidationRoles ==
    /\ usersConfig[u2].borrowing = {} /\ allCollateral(u2)
    /\ reserves[a2].l[u1] = 0
    /\ reserves[a1].v[u1] = 0 /\ reserves[a1].s[u1] = 0

\* Health: u1 borrows a2, most of all against a1, and u2 may add a little of a3 with
\* another threshold. Two units of a1 are worth 20000, of a2 16000 and of a3 2, so that
\* a basis point of the collateral is worth more than a deposit of a3 supports.
OneBorrower ==
    /\ usersConfig[u2].borrowing = {} /\ allCollateral(u2)
    /\ wallet[a3][u1] = 0

HealthConfig ==
    LET lent == [LiquidationConfig[a1] EXCEPT !.stableRateBorrowingEnabled = FALSE]
    IN  (a1 :> [LiquidationConfig[a1] EXCEPT !.ltv = 8000, !.borrowingEnabled = FALSE])
        @@ (a2 :> lent)
        @@ (a3 :> [LiquidationConfig[a2] EXCEPT !.borrowingEnabled = FALSE])

HealthWallet ==
    (a1 :> (u1 :> 4 @@ u2 :> 0)) @@ (a2 :> (u1 :> 0 @@ u2 :> 4))
    @@ (a3 :> (u1 :> 0 @@ u2 :> 2))

HealthPrices == a1 :> 10000 @@ a2 :> 8000 @@ a3 :> 2

\* Flash loans of one interest-free reserve.
FlashConfig ==
    [a \in Assets |-> [Standard EXCEPT !.strategy = Free,
                                       !.stableRateBorrowingEnabled = FALSE]]

FlashWallet == [a \in Assets |-> (u1 :> 5 @@ u2 :> 0)]

\* Only flash loans that u1 takes for itself are followed, and u2 only holds
\* lTokens.
FlashRoles ==
    /\ \A i \in DOMAIN flash :
         flash[i].initiator = u1 /\ flash[i].receiver = u1 /\ flash[i].onBehalfOf = u1
    /\ usersConfig[u2].borrowing = {} /\ wallet[a1][u2] = 0
    /\ reserves[a1].lSupply <= 8

\* Flash loans nested in each other's callbacks, or of two loans in one call; u2 holds
\* lTokens during single loans only.
NestedRoles ==
    /\ FlashRoles /\ reserves[a1].lSupply <= 4
    /\ \/ reserves[a1].l[u2] = 0
       \/ Len(flash) <= 1 /\ \A i \in DOMAIN flash : Len(flash[i].loans) = 1
==============================================================================
