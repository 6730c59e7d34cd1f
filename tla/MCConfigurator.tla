--------------------------- MODULE MCConfigurator ---------------------------
(***************************************************************************)
(* Small instances of the pool together with its administration.           *)
(***************************************************************************)
EXTENDS LendingPoolConfigurator, TLC

CONSTANTS u1, u2, a1, a2

Kinked ==
    [optimal |-> 500, base |-> 200, v1 |-> 200, v2 |-> 400, s1 |-> 200, s2 |-> 400]

Standard ==
    [ltv |-> 7500, liquidationThreshold |-> 8000, liquidationBonus |-> 10500,
     tokenUnit |-> 1, active |-> TRUE, frozen |-> FALSE, borrowingEnabled |-> TRUE,
     stableRateBorrowingEnabled |-> TRUE, reserveFactor |-> 1000,
     strategy |-> Kinked]

OneReserve == [a \in Assets |-> Standard]

NoValues == {}

OnePrice == [a \in Assets |-> 1]

LowRate == [a \in Assets |-> 100]

FixedPrices == [a \in Assets |-> {}]

\* The price of a1 is missing at times.
Outages == [a \in Assets |-> {0, 1}]

Wallet == [a \in Assets |-> (u1 :> 8 @@ u2 :> 0)]

LargeWallet == [a \in Assets |-> (u1 :> 12 @@ u2 :> 0)]

\* u1 borrows a1 against a2, u2 lends a1.
TwoWallets ==
    [a \in Assets |-> IF a = a1 THEN (u1 :> 0 @@ u2 :> 4) ELSE (u1 :> 8 @@ u2 :> 0)]

\* The second and the third are refused: the bonus exceeds what the threshold
\* leaves, the loan to value exceeds the threshold.
Parameters == {<<5000, 6000, 12000>>, <<8000, 8000, 15000>>, <<7500, 6000, 12000>>}

Disabled == {<<0, 0, 0>>}

\* One user deposits, as collateral, and borrows, the other is only the treasury,
\* and at most one setting at a time differs from the deployed ones, or the price
\* is missing.
AdminRoles ==
    /\ usersConfig[u2] = [collateral |-> {}, borrowing |-> {}]
    /\ \A a \in Assets : reserves[a].l[u1] # 0 => a \in usersConfig[u1].collateral
    /\ \A a \in Assets :
         /\ wallet[a][u2] = 0 /\ reserves[a].lSupply <= 14
         /\ Cardinality({f \in DOMAIN Standard : config[a][f] # Standard[f]}
                          \ {"liquidationThreshold", "liquidationBonus"})
              + (IF paused THEN 1 ELSE 0) + (IF priced(a) THEN 0 ELSE 1) <= 1

KinkedOnly == {Kinked}

TwoStrategies == {Kinked, [Kinked EXCEPT !.v1 = 600]}
=============================================================================
