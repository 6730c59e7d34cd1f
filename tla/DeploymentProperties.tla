------------------------- MODULE DeploymentProperties -------------------------
(***************************************************************************)
(* What the deployment must not do and must achieve, stated over the       *)
(* scripts, their file and the chain of Deployment.                        *)
(***************************************************************************)
EXTENDS Deployment

-----------------------------------------------------------------------------
\* The types of addresses and references, and of the steps of a script: a script deploys and calls
\* contracts, the proxies are created and changed by the provider alone.
Contracts == Ids \ Proxies
Accounts  == {"deployer", "emergencyAdmin", "StableAndVariableTokensHelper",
              "LTokensAndRatesHelper"}
Names     == Ids \cup Accounts \cup ReserveAssets
Addresses == Names \X Nat
Fields    == {"owner", "library", "provider", "addressesProvider", "pool", "poolConfigurator",
              "POOL_ADMIN", "EMERGENCY_ADMIN", "PRICE_ORACLE", "LENDING_RATE_ORACLE",
              "LENDING_POOL_COLLATERAL_MANAGER", "DATA_PROVIDER", "borrowRate", "source",
              "sybil", "priceAggregator", "fallbackOracle", "lendingPool", "priceOracle"}
AllFields == Fields \cup Proxies \cup {"implementation"}
Refs(of)  == of \X Addresses

Items ==
  [do : {"save"}, ids : SUBSET Contracts]
    \cup [do : {"deploy", "register"}, id : Contracts]
    \cup [do : {"set", "authorize"}, on : Contracts, field : Fields, to : SUBSET Names,
           by : Accounts]
    \cup [do : {"initialize"}, on : Contracts, fields : SUBSET (Fields \X Names), by : Accounts]
    \cup [do : {"setImpl"}, impl : {"LendingPoolImpl", "LendingPoolTmpImpl", "LendingPoolV4Impl",
                                    "LendingPoolConfiguratorImpl"}]
    \cup [do : {"insertProxy"}, id : Proxies]
    \cup [do : {"batchInitReserve", "collect"}, assets : Seq(Symbols)]
    \cup [do : {"configure"}, assets : SUBSET Symbols]

\* The type of the state; of the pools ReservesListed says more.
TypeOK ==
  /\ calldata \in [Ids -> SUBSET SUBSET Refs(Fields)]
  /\ db \in [Ids -> Nat]
  /\ deployed \in [Ids -> 0..MaxInstances]
  /\ storage \in [Ids -> [Instances -> SUBSET Refs(AllFields)]]
  /\ revision \in [Proxies -> [Instances -> 0..4]]
  /\ script \in Seq(Items)
  /\ next \in 1..Launched

\* An address where there is a contract, an account or a token.
Exists(a) == a[1] \in Ids => a[2] \in 1..deployed[a[1]]

\* No name of the file and no address a contract or a file of call data holds stands for a contract
\* that is not on chain: every address is read back from a receipt or from the provider before it
\* is used, whatever step a task died at and whichever stage was run again (contracts-helpers.ts:
\* 41-62, 138-143; the tasks' getters).
NoDanglingReference ==
  /\ \A id \in Ids : db[id] <= deployed[id]
  /\ \A id \in Ids, n \in Instances : \A r \in storage[id][n] : Exists(r[2])
  /\ \A id \in Ids : \A refs \in calldata[id] : \A r \in refs : Exists(r[2])

-----------------------------------------------------------------------------
\* The addresses the contracts of one market hold, by name: what a setter or an initializer stored,
\* and what was authorized.
Wiring ==
  { <<Provider, "LendingPool", "LendingPool">>,
    <<Provider, "LendingPoolConfigurator", "LendingPoolConfigurator">>,
    <<Provider, "POOL_ADMIN", "deployer">>,
    <<Provider, "EMERGENCY_ADMIN", "emergencyAdmin">>,
    <<Provider, "PRICE_ORACLE", "PalmyOracle">>,
    <<Provider, "LENDING_RATE_ORACLE", "LendingRateOracle">>,
    <<Provider, "LENDING_POOL_COLLATERAL_MANAGER", "LendingPoolCollateralManager">>,
    <<Provider, "DATA_PROVIDER", "PalmyProtocolDataProvider">>,
    <<"LendingPool", "addressesProvider", Provider>>,
    <<"LendingPoolConfigurator", "addressesProvider", Provider>>,
    <<"LendingPoolConfigurator", "pool", "LendingPool">>,
    <<"StableAndVariableTokensHelper", "addressesProvider", Provider>>,
    <<"LTokensAndRatesHelper", "addressesProvider", Provider>>,
    <<"LTokensAndRatesHelper", "poolConfigurator", "LendingPoolConfigurator">>,
    <<"PalmyOracle", "priceAggregator", "PriceAggregatorAdapterChainsightImpl">>,
    <<"PalmyOracle", "fallbackOracle", "PalmyFallbackOracle">>,
    <<"LendingRateOracle", "owner", "deployer">>,
    <<"PalmyProtocolDataProvider", "addressesProvider", Provider>>,
    <<"StakeUIHelper", "priceOracle", "PalmyOracle">>,
    <<"UiPoolDataProviderV2", "priceAggregator", "PriceAggregatorAdapterChainsightImpl">> }

Authorizations ==
  { <<"LendingPoolAddressesProviderRegistry", "provider", Provider>>,
    <<"PriceAggregatorAdapterChainsightImpl", "source", "ChainsightOracle">>,
    <<"PalmyFallbackOracle", "sybil", "deployer">>,
    <<"WETHGateway", "lendingPool", "LendingPool">> }

\* When the launch is over the contracts the file names form one market: each refers to the others
\* and to nothing of an earlier attempt, although contracts are deployed again after a failure and
\* some of the old ones can be initialized only once; only what was authorized stays authorized
\* (2_lending-poo.ts:30-43, 3_oracle.ts:58, 4_data-provider.ts:14, 6_misc.ts:168-191).
OneMarket ==
  (next = Launched /\ operations = 0) =>
    /\ \A w \in Wiring : named(resolve(w[1]), w[2]) = {resolve(w[3])}
    /\ \A w \in Authorizations : resolve(w[3]) \in named(resolve(w[1]), w[2])

\* The ids and the list of a pool's reserves are a bijection: whatever is listed, and listed again
\* under another revision of the pool, id n is the reserve at place n (LendingPool.sol:913-927).
ReservesListed ==
  \A n \in Instances :
    LET pool == pools[n]
    IN /\ \A k \in DOMAIN pool.list :
            pool.reserves[pool.list[k]].listed /\ pool.reserves[pool.list[k]].id = k - 1
       /\ \A s \in Symbols :
            pool.reserves[s].listed => \E k \in DOMAIN pool.list : pool.list[k] = s

\* A proxy's implementation changes only to one of a higher revision, and what it holds changes with
\* it: no upgrade repeats or undoes another (VersionedInitializable.sol:32-45, LendingPoolAddresses-
\* Provider.sol:193-209).
RevisionsGrow ==
  [][\A id \in Proxies, n \in Instances :
       storage[id][n]' # storage[id][n] => revision[id][n]' > revision[id][n]]_vars

-----------------------------------------------------------------------------
\* The market the file names.
livePool == IF db[Provider] = 0 THEN {} ELSE currentPool
reservesWith(P(_)) == {s \in Symbols : \E a \in livePool : P(pools[a[2]].reserves[s])}
holds(field) == db[Provider] # 0 /\ named(resolve(Provider), field) # {}
found(field) == IF db[Provider] = 0 THEN {} ELSE named(resolve(Provider), field)

\* The price oracle asks an aggregator that has sources, which one transaction sets for all tokens.
sourced(oracle) == \E a \in named(oracle, "priceAggregator") : named(a, "source") # {}

TheMarket == INSTANCE Market WITH
  Assets     <- Symbols,
  revision   <- IF livePool = {} THEN 0
                ELSE revision["LendingPool"][(CHOOSE a \in livePool : TRUE)[2]],
  listed     <- reservesWith(LAMBDA r : r.listed),
  borrowable <- reservesWith(LAMBDA r : r.borrowing),
  Quoted     <- Symbols \cap getLendingRateOracles,
  priced     <- (\E o \in found("PRICE_ORACLE") : sourced(o)) /\ holds("LENDING_RATE_ORACLE"),
  rated      <- {s \in Symbols \cap getLendingRateOracles :
                   \E o \in found("LENDING_RATE_ORACLE") : \E a \in named(o, "borrowRate") : a[1] = s},
  governed   <- holds("POOL_ADMIN") /\ named(resolve(Provider), "POOL_ADMIN") = {resolve("deployer")},
  open       <- next = Launched

\* The scripts implement Market: nothing can be borrowed before the market's own price oracle has
\* its sources and its own rate oracle has the rate the configuration has for it (MCHC has none, and
\* is borrowable without), the market opens with every reserve configured and the admin returned,
\* and once it is open its reserves and its revision only grow (oasys-initialization.ts:3-11,
\* 3_oracle.ts:37-75, init-helpers.ts:331-349).
ImplementsMarket == TheMarket!Spec

\* A reserve of the launch that is no collateral has got liquidity before it was configured: from
\* then on _checkNoLiquidity reverts the configuration, so that the pool can only be given up.
Disturbed ==
  \E a \in livePool, k \in DOMAIN Launch :
    LET r == pools[a[2]].reserves[Launch[k]]
    IN Collateral[Launch[k]] = "none" /\ r.listed /\ r.liquid /\ ~r.borrowing

\* Whatever steps the tasks die at, running them again brings the market up: no half-done stage
\* blocks the ones after it for ever (oasys-deployment.ts:45-51, contracts-helpers.ts:63-75).  Two
\* things are asked of the surroundings: every reserve of the launch has an address on the network
\* (the testnet's configuration has none for MCHC, so that 6_misc.ts:60-62 throws each time), and
\* users do not come between batchInitReserve and configureReserves in one new pool after another.
MarketComesUp ==
  (\A k \in DOMAIN Launch : Launch[k] \in ReserveAssets) /\ <>[]~Disturbed => <>(next = Launched)

\* The helper is the pool admin only for the time it configures the reserves, as the comments of
\* init-helpers.ts:332 and :347 say of it.
TemporaryAdminReturned ==
  holds("POOL_ADMIN") /\ named(resolve(Provider), "POOL_ADMIN") = {resolve("LTokensAndRatesHelper")}
    ~> holds("POOL_ADMIN") /\ named(resolve(Provider), "POOL_ADMIN") = {resolve("deployer")}
=============================================================================
