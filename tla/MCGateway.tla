------------------------------- MODULE MCGateway -------------------------------
(***************************************************************************)
(* An instance of the gateway: two users, one of whom may take loans       *)
(* through the gateway on the credit it delegates to it.                   *)
(***************************************************************************)
EXTENDS MCLendingPool, WETHGateway

CONSTANTS g, pool, other

GatewayConfig == [a \in Assets |-> Standard]

\* The gateway has the unit of native currency it had at first, and no more than a
\* deposit of the rest; u1 allows it to spend while u1 has a deposit; and no
\* currency has come from another contract or gone there.
BetweenCalls ==
    /\ eth[g] = 1 /\ wallet[a1][g] + reserves[a1].l[g] <= 4
    /\ eth[u1] + eth[u2] + wallet[a1][g] + reserves[a1].avail = 12
    /\ reserves[a1].l[u1] = 0 =>
         /\ lAllowances[u1] = 0
         /\ \A d \in DebtModes : borrowAllowances[a1][d][u1][g] = 0

\* u1 deposits as collateral and borrows, and delegates credit to the gateway
\* only; u2 deposits or repays for u1. Both hold their WETH unwrapped, but for a
\* unit of u2's.
GatewayRoles ==
    /\ allCollateral(u1)
    /\ reserves[a1].l[u2] = 0 /\ lAllowances[u2] = 0
    /\ wallet[a1][u1] = 0 /\ wallet[a1][u2] = 1
    /\ usersConfig[u2].borrowing = {}
    /\ \A d \in DebtModes, u \in Users, w \in Users :
         <<u, w>> # <<u1, g>> => borrowAllowances[a1][d][u][w] = 0
    /\ call = idle => BetweenCalls
    /\ call # idle /\ call.pool = other => calls = 1

GatewayWallet == [a \in Assets |-> (u1 :> 0 @@ u2 :> 1 @@ g :> 0)]

GatewayRates == [a \in Assets |-> 300]

\* A unit was at the gateway's address before it was deployed.
Eth == u1 :> 8 @@ u2 :> 4 @@ g :> 1
=============================================================================
