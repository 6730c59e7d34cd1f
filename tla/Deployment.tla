------------------------------ MODULE Deployment ------------------------------
(***************************************************************************)
(* How a Palmy market comes up: the hardhat tasks that deploy the          *)
(* contracts, wire them to each other and list the reserves, together with *)
(* the contracts' own guards on each of those transactions.  A task is a   *)
(* script of steps; the operator's machine may die between two of them,    *)
(* and what survives is the chain, the files of call data and              *)
(* deployed-contracts.json.                                                *)
(***************************************************************************)
EXTENDS Naturals, Sequences, SequencesExt

CONSTANTS Launch,         \* the reserves of the launch, in the order of the configuration
          Listable,       \* the reserves that list-token lists
          ReserveAssets,  \* the symbols with a token address on this network
          Rated,          \* the symbols with a market rate in the configuration
          Collateral,     \* per symbol: "skipped" (LTV -1), "none" (threshold 0) or "some"
          Deposits,       \* bound: the reserves users deposit into, per pool created
          MaxInstances,   \* bound: times a contract is deployed
          CrashIn,        \* bound: the stages in which the k-th crash may happen
          CrashAt,        \* bound: the kinds of steps before which it may happen
          MaxOperations   \* bound: operations after the launch

Symbols == {Launch[k] : k \in DOMAIN Launch} \cup Listable

ASSUME DeploymentAssumption ==
  /\ Launch \in Seq(STRING) /\ Listable \subseteq STRING /\ ReserveAssets \subseteq STRING
  /\ Rated \subseteq STRING
  /\ Collateral \in [Symbols -> {"skipped", "none", "some"}]
  /\ Deposits \in Seq(SUBSET STRING)
  /\ MaxInstances \in Nat /\ MaxOperations \in Nat
  /\ CrashIn \in Seq(SUBSET (1..4)) /\ CrashAt \subseteq STRING

-----------------------------------------------------------------------------
\* The contracts, by the names of eContractid.

Libraries == <<"ReserveLogic", "GenericLogic", "ValidationLogic">>

DEPLOYMENT_CONTRACTS ==
  << "LendingPoolAddressesProviderRegistry", "LendingPoolAddressesProvider", "LendingPoolImpl",
     "LendingPoolConfiguratorImpl", "LendingRateOracle", "LToken", "PalmyFallbackOracle",
     "PalmyOracle", "PalmyProtocolDataProvider", "PriceAggregatorAdapterChainsightImpl",
     "ChainsightOracle", "StableAndVariableTokensHelper", "StakeUIHelper",
     "LTokensAndRatesHelper", "StableDebtToken", "VariableDebtToken", "WETHGateway",
     "LendingPoolCollateralManager", "UiPoolDataProviderV2", "UiIncentiveDataProviderV2",
     "WalletBalanceProvider" >>

NewLendingPools == <<"LendingPoolTmpImpl", "LendingPoolV4Impl">>

Proxies == {"LendingPool", "LendingPoolConfigurator"}

Ids == {Libraries[k] : k \in DOMAIN Libraries}
         \cup {DEPLOYMENT_CONTRACTS[k] : k \in DOMAIN DEPLOYMENT_CONTRACTS}
         \cup {NewLendingPools[k] : k \in DOMAIN NewLendingPools} \cup Proxies

\* A token is none of them.
ASSUME TokenAssumption == ReserveAssets \cap Ids = {}

Instances == 1..MaxInstances

\* The contracts whose constructor takes the genesis admin as their owner.
Owned == {"LendingPoolAddressesProvider", "LendingPoolAddressesProviderRegistry",
          "StableAndVariableTokensHelper", "LTokensAndRatesHelper",
          "PriceAggregatorAdapterChainsightImpl", "LendingRateOracle", "PalmyFallbackOracle",
          "PalmyOracle", "WETHGateway"}

\* The libraries a contract's bytecode is linked to when its call data is exported.
linkedTo(id) ==
  CASE id = "GenericLogic" -> {"ReserveLogic"}
    [] id = "ValidationLogic" -> {"ReserveLogic", "GenericLogic"}
    [] id \in {"LendingPoolImpl", "LendingPoolTmpImpl", "LendingPoolV4Impl"} ->
         {"ReserveLogic", "ValidationLogic"}
    [] OTHER -> {}

\* Mutant: a revision that was skipped.
getRevisionSkipping(impl) ==
  CASE impl = "LendingPoolImpl" -> 2
    [] impl = "LendingPoolTmpImpl" -> 3
    [] impl = "LendingPoolV4Impl" -> 5
    [] impl = "LendingPoolConfiguratorImpl" -> 1

getRevision(impl) ==
  CASE impl = "LendingPoolImpl" -> 2
    [] impl = "LendingPoolTmpImpl" -> 3
    [] impl = "LendingPoolV4Impl" -> 4
    [] impl = "LendingPoolConfiguratorImpl" -> 1

proxyOf(impl) == IF impl = "LendingPoolConfiguratorImpl" THEN "LendingPoolConfigurator"
                                                         ELSE "LendingPool"

Provider == "LendingPoolAddressesProvider"

-----------------------------------------------------------------------------
VARIABLES
  calldata,    \* per contract, the file of call data: no file, or one holding the references in it
  db,          \* deployed-contracts.json: the instance each name stands for, 0 without entry
  deployed,    \* per contract, how many instances are on chain
  storage,     \* per instance, the addresses it holds: pairs of a field and an address
  revision,    \* per proxy, lastInitializedRevision
  pools,       \* per instance of the LendingPool proxy, its reserves and their list
  script,      \* the steps the running task has left
  next,        \* the stage that runs or is to be run next; Launched after the last
  crashes, operations

files     == <<calldata, db>>
chain     == <<deployed, storage, revision, pools>>
incidents == <<crashes, operations>>
vars      == <<files, chain, script, next, incidents>>

Launched == 4

\* An address is a name and the number of the instance; accounts and tokens have number 0.
resolve(id) == <<id, IF id \in Ids THEN db[id] ELSE 0>>
known(id)   == id \in Ids => db[id] # 0

named(a, field) == {r[2] : r \in {x \in storage[a[1]][a[2]] : x[1] = field}}

replaced(refs, field, targets) ==
  {r \in refs : r[1] # field} \cup {<<field, a>> : a \in targets}

noReserve == [listed |-> FALSE, id |-> 0, indexed |-> FALSE, collateral |-> FALSE,
              borrowing |-> FALSE, liquid |-> FALSE]

Init ==
  /\ calldata = [id \in Ids |-> {}]
  /\ db = [id \in Ids |-> 0]
  /\ deployed = [id \in Ids |-> 0]
  /\ storage = [id \in Ids |-> [n \in Instances |-> {}]]
  /\ revision = [id \in Proxies |-> [n \in Instances |-> 0]]
  /\ pools = [n \in Instances |-> [list |-> <<>>, reserves |-> [s \in Symbols |-> noReserve]]]
  /\ script = <<>>
  /\ next = 1
  /\ crashes = 0 /\ operations = 0

-----------------------------------------------------------------------------
\* The steps the scripts are made of.

save(ids)   == <<[do |-> "save", ids |-> ids]>>
deploying(id) == <<[do |-> "deploy", id |-> id], [do |-> "register", id |-> id]>>
call(kind, on, field, targets, by) ==
  <<[do |-> kind, on |-> on, field |-> field, to |-> targets, by |-> by]>>
set(on, field, to)       == call("set", on, field, {to}, "deployer")
authorize(on, field, to) == call("authorize", on, field, {to}, "deployer")
initialize(on, fields)   == <<[do |-> "initialize", on |-> on, fields |-> fields, by |-> "deployer"]>>
setImpl(impl)            == <<[do |-> "setImpl", impl |-> impl]>>
insertProxy(id)          == <<[do |-> "insertProxy", id |-> id]>>
batchInitReserve(assets) == <<[do |-> "batchInitReserve", assets |-> assets]>>
configureReservesByHelper(assets) == <<[do |-> "collect", assets |-> assets]>>

\* Each contract is deployed and registered before the next.
deployingAll(ids) ==
  [k \in 1..2 * Len(ids) |-> [do |-> IF k % 2 = 1 THEN "deploy" ELSE "register",
                              id |-> ids[(k + 1) \div 2]]]

\* The tasks, each the sequence of what it awaits.

librariesTask ==
  save({"ReserveLogic"}) \o deploying("ReserveLogic")
    \o save({"GenericLogic"}) \o deploying("GenericLogic")
    \o save({"ValidationLogic"}) \o deploying("ValidationLogic")

exportLendingPool == {"LendingPoolImpl", "LendingPoolConfiguratorImpl",
  "StableAndVariableTokensHelper", "LTokensAndRatesHelper", "LToken", "StableDebtToken",
  "VariableDebtToken"}
exportOracles == {"LendingRateOracle", "PriceAggregatorAdapterChainsightImpl",
  "PalmyFallbackOracle", "PalmyOracle", "ChainsightOracle"}
exportUIHelpers == {"LendingPoolCollateralManager", "UiPoolDataProviderV2",
  "WalletBalanceProvider", "UiIncentiveDataProviderV2", "StakeUIHelper"}

deploymentTask ==
  save({"LendingPoolAddressesProviderRegistry"}) \o save({Provider}) \o save(exportLendingPool)
    \o save(exportOracles) \o save({"PalmyProtocolDataProvider"}) \o save({"WETHGateway"})
    \o save(exportUIHelpers) \o deployingAll(DEPLOYMENT_CONTRACTS)

addressProviderTask ==
  authorize("LendingPoolAddressesProviderRegistry", "provider", Provider)
    \o set(Provider, "POOL_ADMIN", "deployer")
    \o set(Provider, "EMERGENCY_ADMIN", "emergencyAdmin")

lendingPoolTask ==
  setImpl("LendingPoolImpl") \o insertProxy("LendingPool")
    \o setImpl("LendingPoolConfiguratorImpl") \o insertProxy("LendingPoolConfigurator")
    \o initialize("StableAndVariableTokensHelper",
         {<<"pool", "LendingPool">>, <<"addressesProvider", Provider>>})
    \o initialize("LTokensAndRatesHelper",
         {<<"pool", "LendingPool">>, <<"addressesProvider", Provider>>,
          <<"poolConfigurator", "LendingPoolConfigurator">>})

\* The configured market rates, for the tokens this network has: not one per reserve of the launch.
getLendingRateOracles == Rated \cap ReserveAssets

\* Mutant: the rate of the first reserve only.
setFirstMarketRate ==
  set("LendingRateOracle", "owner", "StableAndVariableTokensHelper")
    \o call("authorize", "LendingRateOracle", "borrowRate", getLendingRateOracles \cap {Launch[1]},
            "StableAndVariableTokensHelper")
    \o call("set", "LendingRateOracle", "owner", {"deployer"}, "StableAndVariableTokensHelper")

setInitialMarketRates ==
  set("LendingRateOracle", "owner", "StableAndVariableTokensHelper")
    \o call("authorize", "LendingRateOracle", "borrowRate", getLendingRateOracles,
            "StableAndVariableTokensHelper")
    \o call("set", "LendingRateOracle", "owner", {"deployer"}, "StableAndVariableTokensHelper")

oracleTask ==
  authorize("PriceAggregatorAdapterChainsightImpl", "source", "ChainsightOracle")
    \o authorize("PalmyFallbackOracle", "sybil", "deployer")
    \o initialize("PalmyOracle",
         {<<"priceAggregator", "PriceAggregatorAdapterChainsightImpl">>,
          <<"fallbackOracle", "PalmyFallbackOracle">>})
    \o set("PalmyOracle", "priceAggregator", "PriceAggregatorAdapterChainsightImpl")
    \o setInitialMarketRates
    \o set(Provider, "PRICE_ORACLE", "PalmyOracle")
    \o set(Provider, "LENDING_RATE_ORACLE", "LendingRateOracle")

dataProviderTask ==
  initialize("PalmyProtocolDataProvider", {<<"addressesProvider", Provider>>})

miscTask ==
  batchInitReserve(Launch) \o configureReservesByHelper(Launch)
    \o set(Provider, "LENDING_POOL_COLLATERAL_MANAGER", "LendingPoolCollateralManager")
    \o set(Provider, "DATA_PROVIDER", "PalmyProtocolDataProvider")
    \o authorize("WETHGateway", "lendingPool", "LendingPool")
    \o initialize("StakeUIHelper", {<<"priceOracle", "PalmyOracle">>})
    \o initialize("UiPoolDataProviderV2",
         {<<"priceAggregator", "PriceAggregatorAdapterChainsightImpl">>})

initializationTask ==
  addressProviderTask \o lendingPoolTask \o oracleTask \o dataProviderTask \o miscTask

stages == <<librariesTask, deploymentTask, initializationTask>>

newLendingPoolTask ==
  save({NewLendingPools[k] : k \in DOMAIN NewLendingPools}) \o deployingAll(NewLendingPools)

listToken(s) == batchInitReserve(<<s>>) \o configureReservesByHelper(<<s>>)

-----------------------------------------------------------------------------
\* What a step needs; without it the call reverts or the task throws.

item == Head(script)
doing(kind) == script # <<>> /\ item.do = kind

\* onlyOwner, for the contracts that have an owner.
mayCall(on, by) == \A a \in named(resolve(on), "owner") : a = resolve(by)

\* PalmyOwnable calls of an initialised-once contract (Initializable.initializer).
uninitialized(on, fields) == \A f \in fields : named(resolve(on), f[1]) = {}

currentPool == named(resolve(Provider), "LendingPool")

\* Mutant: an implementation of the revision the proxy has passes.
upgradableAgain(impl) ==
  \A a \in named(resolve(Provider), proxyOf(impl)) : getRevision(impl) >= revision[a[1]][a[2]]

\* VersionedInitializable.initializer through _updateImpl.
upgradable(impl) ==
  \A a \in named(resolve(Provider), proxyOf(impl)) : getRevision(impl) > revision[a[1]][a[2]]

\* The pool a configurator calls, if the pool admin of its provider is the caller (onlyPoolAdmin).
administered(configurator, admin) ==
  {pool \in named(configurator, "pool") :
     \E p \in named(configurator, "addressesProvider") : named(p, "POOL_ADMIN") = {admin}}

\* ReserveLogic.init refuses an asset that has an lToken; LendingPoolTmp does not ask.
initializable(pool, assets) ==
  \/ revision["LendingPool"][pool[2]] = getRevision("LendingPoolTmpImpl")
  \/ /\ \A k \in DOMAIN assets : ~pools[pool[2]].reserves[assets[k]].listed
     /\ \A j, k \in DOMAIN assets : j # k => assets[j] # assets[k]

\* _checkNoLiquidity, for the assets that are no collateral.
configurable(pool, assets) ==
  \A s \in assets : Collateral[s] = "none" => ~pools[pool[2]].reserves[s].liquid

accepted(step) ==
  CASE step.do = "save" -> \A id \in step.ids : \A l \in linkedTo(id) : known(l)
    [] step.do = "deploy" -> calldata[step.id] # {}
    [] step.do = "register" -> TRUE
    [] step.do \in {"set", "authorize"} ->
         known(step.on) /\ (\A t \in step.to : known(t)) /\ mayCall(step.on, step.by)
    [] step.do = "initialize" ->
         /\ known(step.on) /\ \A f \in step.fields : known(f[2])
         /\ mayCall(step.on, step.by) /\ uninitialized(step.on, step.fields)
    [] step.do = "setImpl" -> known(Provider) /\ known(step.impl) /\ upgradable(step.impl)
    [] step.do = "insertProxy" -> known(Provider)
    [] step.do = "batchInitReserve" ->
         /\ \A k \in DOMAIN step.assets : step.assets[k] \in ReserveAssets
         /\ known("LTokensAndRatesHelper") /\ known("LToken") /\ known("StableDebtToken")
         /\ known("VariableDebtToken") /\ known("LendingPoolConfigurator")
         /\ \E pool \in administered(resolve("LendingPoolConfigurator"), resolve("deployer")) :
              initializable(pool, step.assets)
    [] step.do = "collect" ->
         known(Provider) /\ known("LTokensAndRatesHelper") /\ known("PalmyProtocolDataProvider")
    [] step.do = "configure" ->
         \E c \in named(resolve("LTokensAndRatesHelper"), "poolConfigurator") :
         \E pool \in administered(c, resolve("LTokensAndRatesHelper")) :
            configurable(pool, step.assets)

-----------------------------------------------------------------------------
\* One action per kind of step.

\* The script goes on; with its last step the stage is done.
proceed ==
  /\ script' = Tail(script)
  /\ next' = IF Len(script) = 1 /\ next < Launched THEN next + 1 ELSE next
  /\ UNCHANGED incidents

perform(kind) == doing(kind) /\ accepted(item) /\ proceed

\* What a deployed contract's code and constructor hold: its libraries and its owner.
constructed(id) ==
  {<<"library", resolve(l)>> : l \in linkedTo(id)}
    \cup {<<"owner", resolve("deployer")>> : o \in Owned \cap {id}}

SaveDeploymentCallData ==
  /\ perform("save")
  /\ calldata' = [id \in Ids |-> IF id \in item.ids THEN {constructed(id)} ELSE calldata[id]]
  /\ UNCHANGED <<db, chain>>

DeployToOasysTestnet ==
  /\ perform("deploy")
  /\ deployed[item.id] < MaxInstances
  /\ deployed' = [deployed EXCEPT ![item.id] = @ + 1]
  /\ \E refs \in calldata[item.id] :
       storage' = [storage EXCEPT ![item.id][deployed[item.id] + 1] = refs]
  /\ UNCHANGED <<files, revision, pools>>

\* Mutants: the address is written before the contract is there; an entry is never overwritten.
RegisterPredictedAddress ==
  /\ perform("register")
  /\ db' = [db EXCEPT ![item.id] = deployed[item.id] + 1]
  /\ UNCHANGED <<calldata, chain>>

RegisterNewAddress ==
  /\ perform("register")
  /\ db' = [db EXCEPT ![item.id] = IF @ = 0 THEN deployed[item.id] ELSE @]
  /\ UNCHANGED <<calldata, chain>>

\* registerContractAddressInJsonDb, then insertContractAddressInDb with the same address.
RegisterContractAddress ==
  /\ perform("register")
  /\ db' = [db EXCEPT ![item.id] = deployed[item.id]]
  /\ UNCHANGED <<calldata, chain>>

\* A setter of the provider or of the oracles: a hard replacement of one field.
SetAddress ==
  /\ perform("set")
  /\ storage' = [storage EXCEPT ![item.on][db[item.on]] =
                   replaced(@, item.field, {resolve(t) : t \in item.to})]
  /\ UNCHANGED <<files, deployed, revision, pools>>

\* A call that adds to what is there: the registry, the oracles' sources, sybils and rates, the gateway.
Authorize ==
  /\ perform("authorize")
  /\ storage' = [storage EXCEPT ![item.on][db[item.on]] =
                   @ \cup {<<item.field, resolve(t)>> : t \in item.to}]
  /\ UNCHANGED <<files, deployed, revision, pools>>

InitializeOnce ==
  /\ perform("initialize")
  /\ storage' = [storage EXCEPT ![item.on][db[item.on]] =
                   @ \cup {<<f[1], resolve(f[2])>> : f \in item.fields}]
  /\ UNCHANGED <<files, deployed, revision, pools>>

\* What initialize(provider) of an implementation stores in the proxy.
initialized(impl) ==
  {<<"implementation", resolve(impl)>>, <<"addressesProvider", resolve(Provider)>>}
    \cup (IF proxyOf(impl) = "LendingPool" THEN {} ELSE {<<"pool", a>> : a \in currentPool})

\* _updateImpl: the first call creates the proxy, a later one upgrades it.
SetImpl ==
  /\ perform("setImpl")
  /\ LET proxy == proxyOf(item.impl)
         slot  == named(resolve(Provider), proxy)
         new   == deployed[proxy] + 1
     IN IF slot = {}
        THEN /\ new \in Instances
             /\ deployed' = [deployed EXCEPT ![proxy] = new]
             /\ storage' = [storage EXCEPT ![proxy][new] = initialized(item.impl),
                              ![Provider][db[Provider]] = @ \cup {<<proxy, <<proxy, new>>>>}]
             /\ revision' = [revision EXCEPT ![proxy][new] = getRevision(item.impl)]
        ELSE \E a \in slot :
             /\ storage' = [storage EXCEPT ![proxy][a[2]] = initialized(item.impl)]
             /\ revision' = [revision EXCEPT ![proxy][a[2]] = getRevision(item.impl)]
             /\ UNCHANGED deployed
  /\ UNCHANGED <<files, pools>>

\* Mutant: the proxy of an earlier attempt stays in the file.
InsertNewProxyAddress ==
  /\ perform("insertProxy")
  /\ \E a \in named(resolve(Provider), item.id) :
       db' = [db EXCEPT ![item.id] = IF @ = 0 THEN a[2] ELSE @]
  /\ UNCHANGED <<calldata, chain>>

\* The address of the proxy, read back from the provider, goes into the file.
InsertProxyAddress ==
  /\ perform("insertProxy")
  /\ \E a \in named(resolve(Provider), item.id) : db' = [db EXCEPT ![item.id] = a[2]]
  /\ UNCHANGED <<calldata, chain>>

\* Mutant: the id is not looked at.
firstAdded(pool, s) == pool.list # <<>> /\ pool.list[1] = s

\* LendingPool.initReserve with _addReserveToList; the indexes are set by ReserveLogic.init only.
alreadyAdded(pool, s) == pool.reserves[s].id # 0 \/ (pool.list # <<>> /\ pool.list[1] = s)

initReserve(rev, pool, s) ==
  LET added   == alreadyAdded(pool, s)
      reserve == pool.reserves[s]
  IN [list     |-> IF added THEN pool.list ELSE Append(pool.list, s),
      reserves |-> [pool.reserves EXCEPT ![s] =
        [reserve EXCEPT !.listed = TRUE, !.liquid = FALSE,
                        !.id = IF added THEN @ ELSE Len(pool.list),
                        !.indexed = @ \/ rev # getRevision("LendingPoolTmpImpl")]]]

\* initDeployment of the rate strategies, then batchInitReserve with what its receipt names.
BatchInitReserve ==
  /\ perform("batchInitReserve")
  /\ \E pool \in administered(resolve("LendingPoolConfigurator"), resolve("deployer")) :
       pools' = [pools EXCEPT ![pool[2]] =
         FoldLeft(LAMBDA p, s : initReserve(revision["LendingPool"][pool[2]], p, s), @, item.assets)]
  /\ UNCHANGED <<files, deployed, storage, revision>>

\* configureReservesByHelper picks the reserves that are no collateral yet and, if there are any,
\* makes the helper the pool admin for the time it configures them.
toConfigure(assets) ==
  {s \in Symbols \cap ReserveAssets :
    /\ \E k \in DOMAIN assets : assets[k] = s
    /\ Collateral[s] # "skipped"
    /\ \A pool \in currentPool : ~pools[pool[2]].reserves[s].collateral}

CollectReserves ==
  /\ doing("collect") /\ accepted(item)
  /\ LET assets == toConfigure(item.assets)
     IN script' = (IF assets = {} THEN <<>>
                   ELSE set(Provider, "POOL_ADMIN", "LTokensAndRatesHelper")
                          \o <<[do |-> "configure", assets |-> assets]>>
                          \o set(Provider, "POOL_ADMIN", "deployer")) \o Tail(script)
  /\ UNCHANGED <<files, chain, next, incidents>>

\* LTokensAndRatesHelper.configureReserves, one transaction for (up to 20) reserves.
ConfigureReserves ==
  /\ perform("configure")
  /\ \E c \in named(resolve("LTokensAndRatesHelper"), "poolConfigurator") :
     \E pool \in administered(c, resolve("LTokensAndRatesHelper")) :
       pools' = [pools EXCEPT ![pool[2]].reserves = [s \in Symbols |->
         IF s \in item.assets
         THEN [@[s] EXCEPT !.collateral = (Collateral[s] = "some"), !.borrowing = TRUE]
         ELSE @[s]]]
  /\ UNCHANGED <<files, deployed, storage, revision>>

-----------------------------------------------------------------------------
\* Failures.  The task is gone.  After an error the operator starts over from the first stage whose
\* product is missing or cannot be used again; after a crash it may also try a later stage.

startOver == IF \A k \in DOMAIN Libraries : known(Libraries[k]) THEN 2 ELSE 1

abandoned(rerun) ==
  /\ script' = <<>>
  /\ next' \in IF next = Launched THEN {next} ELSE rerun
  /\ UNCHANGED <<files, chain, operations>>

Throw == /\ script # <<>> /\ ~accepted(item)
         /\ abandoned({startOver})
         /\ UNCHANGED crashes

Crash ==
  /\ script # <<>>
  /\ crashes < Len(CrashIn) /\ next \in CrashIn[crashes + 1] /\ item.do \in CrashAt
  /\ crashes' = crashes + 1
  /\ abandoned({startOver, 2, 3})

-----------------------------------------------------------------------------
\* The operator and the users.

RunStage ==
  /\ script = <<>> /\ next < Launched
  /\ script' = stages[next]
  /\ UNCHANGED <<files, chain, next, incidents>>

\* Operations on a launched market, in histories without a crash (a bound).
Operate ==
  /\ script = <<>> /\ next = Launched
  /\ operations < MaxOperations /\ crashes = 0
  /\ operations' = operations + 1
  /\ \/ \E s \in Listable : script' = listToken(s)
     \/ script' = newLendingPoolTask
     \/ script' = setImpl("LendingPoolTmpImpl")
     \/ script' = setImpl("LendingPoolV4Impl")
  /\ UNCHANGED <<files, chain, next, crashes>>

\* A user deposits into a reserve, which is active from its listing on, configured or not; without
\* its index the amount would be divided by zero.
Deposit ==
  /\ \E n \in Instances \cap DOMAIN Deposits : \E s \in Symbols \cap Deposits[n] :
       /\ pools[n].reserves[s].listed /\ pools[n].reserves[s].indexed
       /\ ~pools[n].reserves[s].liquid
       /\ pools' = [pools EXCEPT ![n].reserves[s].liquid = TRUE]
  /\ UNCHANGED <<files, deployed, storage, revision, script, next, incidents>>

Step ==
  \/ SaveDeploymentCallData \/ DeployToOasysTestnet \/ RegisterContractAddress
  \/ SetAddress \/ Authorize \/ InitializeOnce \/ SetImpl \/ InsertProxyAddress
  \/ BatchInitReserve \/ CollectReserves \/ ConfigureReserves
  \/ Throw

Next == Step \/ RunStage \/ Crash \/ Operate \/ Deposit

\* A running task goes on, and the operator runs the next stage; nobody has to crash, to operate
\* or to deposit.
Fairness == WF_vars(Step) /\ WF_vars(RunStage)

Spec == Init /\ [][Next]_vars /\ Fairness
=============================================================================
