--------------------------- MODULE DeploymentProofs ---------------------------
(***************************************************************************)
(* Theorems about the deployment, for every launch, every set of tokens    *)
(* and any number of crashes, wherever they happen.                        *)
(*                                                                         *)
(* The typing of the scripts carries the argument: what a task is made of  *)
(* never deploys or calls a proxy and never writes a field the provider    *)
(* keeps its proxies in. From that follows which contract a reference of   *)
(* the provider stands for (ProxiesNamed) and that a proxy that is not yet *)
(* created has no revision (Unrevised). The lists of reserves agree with   *)
(* the ids because a reserve that is not listed has id 0 (PoolsOK).        *)
(*                                                                         *)
(* That a launch leaves one market takes the steps that are still to come  *)
(* into account. A condition is due at a step of the script if it stands   *)
(* and no step before undoes it, or a step before establishes it and none  *)
(* after that one undoes it (Due). A step then finds what it relies on,    *)
(* for that is due when its script begins and whatever is due stays so     *)
(* (Ready), and the last step of the launch leaves what the whole script   *)
(* establishes (Launching). A task that dies leaves an empty script, in    *)
(* which nothing is due. With what holds of any provider and its proxies   *)
(* (Sound) this is the invariant Whole. The steps of the deployment as the *)
(* abstract market sees them (Moves) follow from it.                       *)
(***************************************************************************)
EXTENDS DeploymentProperties, SumProofs, SequenceTheorems, TLAPS

\* The provider's fields for proxies hold proxies of that name.
ProxiesNamed ==
  \A n \in Instances : \A r \in storage[Provider][n] : r[1] \in Proxies => r[2][1] = r[1]

\* A proxy has a revision only once it is created.
Unrevised == \A p \in Proxies, n \in Instances : n > deployed[p] => revision[p][n] = 0

Inv == TypeOK /\ NoDanglingReference /\ ProxiesNamed /\ Unrevised

-----------------------------------------------------------------------------
(* The names                                                               *)

\* The names the tasks use for contracts are contracts.
LEMMA ContractNames ==
    /\ {"ReserveLogic", "GenericLogic", "ValidationLogic"} \subseteq Contracts
    /\ {"LendingPoolTmpImpl", "LendingPoolV4Impl"} \subseteq Contracts
    /\ \A k \in 1..21 : DEPLOYMENT_CONTRACTS[k] \in Contracts
<1>1. \A k \in 1..3 : Libraries[k] \in Ids
  BY DEF Ids, Libraries
<1>2. \A k \in 1..2 : NewLendingPools[k] \in Ids
  BY DEF Ids, NewLendingPools
<1>3. \A k \in 1..21 : DEPLOYMENT_CONTRACTS[k] \in Ids
  BY DEF Ids, DEPLOYMENT_CONTRACTS
<1>4. \A k \in 1..21 : DEPLOYMENT_CONTRACTS[k] \notin Proxies
  BY DEF DEPLOYMENT_CONTRACTS, Proxies
<1> QED
  BY <1>1, <1>2, <1>3, <1>4 DEF Libraries, NewLendingPools, Contracts, Proxies

\* The accounts of the operator are no contracts.
LEMMA AccountNames == "deployer" \notin Ids /\ "emergencyAdmin" \notin Ids
BY DEF Ids, Libraries, NewLendingPools, DEPLOYMENT_CONTRACTS, Proxies

\* Every single contract of the lists.
LEMMA DeploymentNames ==
    /\ {"LendingPoolAddressesProviderRegistry", Provider, "LendingRateOracle", "PalmyFallbackOracle",
        "PalmyOracle", "PalmyProtocolDataProvider", "PriceAggregatorAdapterChainsightImpl",
        "ChainsightOracle", "StableAndVariableTokensHelper", "StakeUIHelper",
        "LTokensAndRatesHelper", "WETHGateway", "UiPoolDataProviderV2",
        "LendingPoolCollateralManager"} \subseteq Contracts
    /\ {"LendingPoolImpl", "LendingPoolConfiguratorImpl", "LToken", "StableDebtToken",
        "VariableDebtToken", "UiIncentiveDataProviderV2", "WalletBalanceProvider"}
         \subseteq Contracts
<1>1. \A k \in 1..21 : DEPLOYMENT_CONTRACTS[k] \in Contracts
  BY ContractNames
<1> QED
  BY <1>1 DEF DEPLOYMENT_CONTRACTS, Provider

-----------------------------------------------------------------------------
(* The steps of the tasks                                                  *)

\* A step is a script.
LEMMA OneStep == ASSUME NEW i \in Items PROVE <<i>> \in Seq(Items)
OBVIOUS

\* Scripts can be run one after the other.
LEMMA Then == ASSUME NEW a \in Seq(Items), NEW b \in Seq(Items) PROVE a \o b \in Seq(Items)
OBVIOUS

\* Exporting call data.
LEMMA SaveTyped == ASSUME NEW S \in SUBSET Contracts PROVE save(S) \in Seq(Items)
<1>1. [do |-> "save", ids |-> S] \in Items
  BY DEF Items
<1> QED
  BY <1>1, OneStep DEF save

\* Deploying a contract, and writing its address to the file.
LEMMA DeployTyped ==
    ASSUME NEW id \in Contracts
    PROVE  /\ [do |-> "deploy", id |-> id] \in Items
           /\ [do |-> "register", id |-> id] \in Items
BY DEF Items

\* A contract deployed and registered.
LEMMA DeployingTyped == ASSUME NEW id \in Contracts PROVE deploying(id) \in Seq(Items)
<1>1. <<[do |-> "deploy", id |-> id]>> \o <<[do |-> "register", id |-> id]>> \in Seq(Items)
  BY DeployTyped, OneStep, Then
<1> QED
  BY <1>1, DeployTyped DEF deploying

\* Contracts deployed and registered one after the other.
LEMMA DeployingAllTyped ==
    ASSUME NEW ids \in Seq(Contracts)
    PROVE  deployingAll(ids) \in Seq(Items)
<1>1. Len(ids) \in Nat /\ \A k \in 1..Len(ids) : ids[k] \in Contracts
  OBVIOUS
<1>2. ASSUME NEW k \in 1..2 * Len(ids)
      PROVE  [do |-> IF k % 2 = 1 THEN "deploy" ELSE "register", id |-> ids[(k + 1) \div 2]]
               \in Items
  <2>1. (k + 1) \div 2 \in 1..Len(ids)
    BY <1>1
  <2>2. ids[(k + 1) \div 2] \in Contracts
    BY <1>1, <2>1
  <2>3. CASE k % 2 = 1
    BY <2>2, <2>3, DeployTyped
  <2>4. CASE k % 2 # 1
    BY <2>2, <2>4, DeployTyped
  <2> QED
    BY <2>3, <2>4
<1>3. 2 * Len(ids) \in Nat
  BY <1>1
<1> QED
  BY <1>2, <1>3 DEF deployingAll

\* A call.
LEMMA CallTyped ==
    ASSUME NEW kind \in {"set", "authorize"}, NEW on \in Contracts, NEW field \in Fields,
           NEW targets \in SUBSET Names, NEW by \in Accounts
    PROVE  call(kind, on, field, targets, by) \in Seq(Items)
<1>1. [do |-> kind, on |-> on, field |-> field, to |-> targets, by |-> by] \in Items
  BY DEF Items
<1> QED
  BY <1>1, OneStep DEF call

\* Calls of the deployer with one address.
LEMMA SetTyped ==
    ASSUME NEW on \in Contracts, NEW field \in Fields, NEW to \in Names
    PROVE  set(on, field, to) \in Seq(Items) /\ authorize(on, field, to) \in Seq(Items)
<1>1. {to} \in SUBSET Names /\ "deployer" \in Accounts
  BY DEF Accounts
<1> QED
  BY <1>1, CallTyped DEF set, authorize

\* A contract initialized.
LEMMA InitializeTyped ==
    ASSUME NEW on \in Contracts, NEW fields \in SUBSET (Fields \X Names)
    PROVE  initialize(on, fields) \in Seq(Items)
<1>1. [do |-> "initialize", on |-> on, fields |-> fields, by |-> "deployer"] \in Items
  BY DEF Items, Accounts
<1> QED
  BY <1>1, OneStep DEF initialize

\* Proxies created, upgraded and written to the file.
LEMMA ProxyTyped ==
    /\ setImpl("LendingPoolImpl") \in Seq(Items) /\ setImpl("LendingPoolTmpImpl") \in Seq(Items)
    /\ setImpl("LendingPoolV4Impl") \in Seq(Items)
    /\ setImpl("LendingPoolConfiguratorImpl") \in Seq(Items)
    /\ \A id \in Proxies : insertProxy(id) \in Seq(Items)
<1>1. \A i \in {"LendingPoolImpl", "LendingPoolTmpImpl", "LendingPoolV4Impl",
                "LendingPoolConfiguratorImpl"} : [do |-> "setImpl", impl |-> i] \in Items
  BY DEF Items
<1>2. \A id \in Proxies : [do |-> "insertProxy", id |-> id] \in Items
  BY DEF Items
<1> QED
  BY <1>1, <1>2, OneStep DEF setImpl, insertProxy

\* Reserves listed and configured.
LEMMA ReservesTyped ==
    ASSUME NEW assets \in Seq(Symbols)
    PROVE  /\ batchInitReserve(assets) \in Seq(Items)
           /\ configureReservesByHelper(assets) \in Seq(Items)
<1>1. /\ [do |-> "batchInitReserve", assets |-> assets] \in Items
      /\ [do |-> "collect", assets |-> assets] \in Items
  BY DEF Items
<1> QED
  BY <1>1, OneStep DEF batchInitReserve, configureReservesByHelper

-----------------------------------------------------------------------------
(* The tasks                                                               *)

\* The task that deploys the libraries.
LEMMA LibrariesTyped == librariesTask \in Seq(Items)
<1>1. \A id \in {"ReserveLogic", "GenericLogic", "ValidationLogic"} :
        save({id}) \in Seq(Items) /\ deploying(id) \in Seq(Items)
  BY ContractNames, SaveTyped, DeployingTyped
<1> QED
  BY <1>1, Then DEF librariesTask

\* The lists are sequences of contracts.
LEMMA ListsTyped == DEPLOYMENT_CONTRACTS \in Seq(Contracts) /\ NewLendingPools \in Seq(Contracts)
<1>1. \A k \in 1..21 : DEPLOYMENT_CONTRACTS[k] \in Contracts
  BY ContractNames
<1>2. DEPLOYMENT_CONTRACTS \in Seq(Contracts)
  BY DeploymentNames DEF DEPLOYMENT_CONTRACTS, Provider
<1> QED
  BY <1>2, ContractNames DEF NewLendingPools

\* The task that deploys the contracts of a market.
LEMMA DeploymentTyped == deploymentTask \in Seq(Items)
<1>1. /\ save({"LendingPoolAddressesProviderRegistry"}) \in Seq(Items)
      /\ save({Provider}) \in Seq(Items)
      /\ save({"PalmyProtocolDataProvider"}) \in Seq(Items)
      /\ save({"WETHGateway"}) \in Seq(Items)
  BY DeploymentNames, SaveTyped
<1>2. /\ save(exportLendingPool) \in Seq(Items)
      /\ save(exportOracles) \in Seq(Items)
      /\ save(exportUIHelpers) \in Seq(Items)
  BY DeploymentNames, SaveTyped DEF exportLendingPool, exportOracles, exportUIHelpers
<1>3. deployingAll(DEPLOYMENT_CONTRACTS) \in Seq(Items)
  BY ListsTyped, DeployingAllTyped
<1> QED
  BY <1>1, <1>2, <1>3, Then DEF deploymentTask

\* The task that deploys the later revisions of the pool.
LEMMA NewLendingPoolTyped == newLendingPoolTask \in Seq(Items)
<1>1. {NewLendingPools[k] : k \in DOMAIN NewLendingPools} \in SUBSET Contracts
  BY ContractNames DEF NewLendingPools
<1>2. save({NewLendingPools[k] : k \in DOMAIN NewLendingPools}) \in Seq(Items)
  BY <1>1, SaveTyped
<1> QED
  BY <1>2, ListsTyped, DeployingAllTyped, Then DEF newLendingPoolTask

\* The tasks that initialize them: contracts and accounts are names, and no field is a proxy's.
LEMMA InitializationNames ==
    /\ Contracts \subseteq Names /\ Proxies \subseteq Names /\ ReserveAssets \subseteq Names
    /\ Accounts \subseteq Names
    /\ Fields \cap Proxies = {}
    /\ "LendingPool" \in Proxies /\ "LendingPoolConfigurator" \in Proxies
<1>1. Proxies \subseteq Ids
  BY DEF Ids
<1>2. /\ Contracts \subseteq Names /\ Proxies \subseteq Names /\ ReserveAssets \subseteq Names
      /\ Accounts \subseteq Names
  BY <1>1 DEF Names, Contracts
<1> QED
  BY <1>2 DEF Proxies, Fields

\* The task that registers the provider and sets its admins.
LEMMA AddressProviderTyped == addressProviderTask \in Seq(Items)
<1>1. authorize("LendingPoolAddressesProviderRegistry", "provider", Provider) \in Seq(Items)
  BY DeploymentNames, InitializationNames, SetTyped DEF Fields
<1>2. set(Provider, "POOL_ADMIN", "deployer") \in Seq(Items)
  BY DeploymentNames, InitializationNames, SetTyped DEF Accounts, Fields
<1>3. set(Provider, "EMERGENCY_ADMIN", "emergencyAdmin") \in Seq(Items)
  BY DeploymentNames, InitializationNames, SetTyped DEF Accounts, Fields
<1> QED
  BY <1>1, <1>2, <1>3, Then DEF addressProviderTask

\* The task that creates the proxies and initializes the helpers.
LEMMA LendingPoolTaskTyped == lendingPoolTask \in Seq(Items)
<1>1. initialize("StableAndVariableTokensHelper",
        {<<"pool", "LendingPool">>, <<"addressesProvider", Provider>>}) \in Seq(Items)
  BY DeploymentNames, InitializationNames, InitializeTyped DEF Fields
<1>2. initialize("LTokensAndRatesHelper",
        {<<"pool", "LendingPool">>, <<"addressesProvider", Provider>>,
         <<"poolConfigurator", "LendingPoolConfigurator">>}) \in Seq(Items)
  BY DeploymentNames, InitializationNames, InitializeTyped DEF Fields
<1>3. insertProxy("LendingPool") \in Seq(Items) /\ insertProxy("LendingPoolConfigurator") \in Seq(Items)
  BY InitializationNames, ProxyTyped
<1> QED
  BY <1>1, <1>2, <1>3, ProxyTyped, Then DEF lendingPoolTask

\* The task that sets up the oracles.
LEMMA OracleTyped == oracleTask \in Seq(Items)
<1>1. authorize("PriceAggregatorAdapterChainsightImpl", "source", "ChainsightOracle") \in Seq(Items)
  BY DeploymentNames, InitializationNames, SetTyped DEF Fields
<1>2. authorize("PalmyFallbackOracle", "sybil", "deployer") \in Seq(Items)
  BY DeploymentNames, InitializationNames, SetTyped DEF Accounts, Fields
<1>3. initialize("PalmyOracle",
        {<<"priceAggregator", "PriceAggregatorAdapterChainsightImpl">>,
         <<"fallbackOracle", "PalmyFallbackOracle">>}) \in Seq(Items)
  BY DeploymentNames, InitializationNames, InitializeTyped DEF Fields
<1>4. /\ set("PalmyOracle", "priceAggregator", "PriceAggregatorAdapterChainsightImpl") \in Seq(Items)
      /\ set(Provider, "PRICE_ORACLE", "PalmyOracle") \in Seq(Items)
      /\ set(Provider, "LENDING_RATE_ORACLE", "LendingRateOracle") \in Seq(Items)
  BY DeploymentNames, InitializationNames, SetTyped DEF Fields
<1>5. setInitialMarketRates \in Seq(Items)
  <2>1. set("LendingRateOracle", "owner", "StableAndVariableTokensHelper") \in Seq(Items)
    BY DeploymentNames, InitializationNames, SetTyped DEF Fields
  <2>2. call("authorize", "LendingRateOracle", "borrowRate", getLendingRateOracles,
             "StableAndVariableTokensHelper") \in Seq(Items)
    BY DeploymentNames, InitializationNames, CallTyped DEF Fields, Accounts, getLendingRateOracles
  <2>3. call("set", "LendingRateOracle", "owner", {"deployer"}, "StableAndVariableTokensHelper")
          \in Seq(Items)
    BY DeploymentNames, InitializationNames, CallTyped DEF Fields, Accounts
  <2> QED
    BY <2>1, <2>2, <2>3, Then DEF setInitialMarketRates
<1> QED
  BY <1>1, <1>2, <1>3, <1>4, <1>5, Then DEF oracleTask

\* What is launched and listed are sequences of symbols.
LEMMA AssetsTyped ==
    /\ Launch \in Seq(Symbols)
    /\ \A s \in Listable : <<s>> \in Seq(Symbols)
<1>1. Launch \in Seq(STRING)
  BY DeploymentAssumption
<1>2. \A k \in 1..Len(Launch) : Launch[k] \in Symbols
  BY <1>1 DEF Symbols
<1>3. Launch \in Seq(Symbols)
  BY <1>1, <1>2
<1> QED
  BY <1>3 DEF Symbols

\* The task that lists the reserves of the launch.
LEMMA MiscTyped == miscTask \in Seq(Items)
<1>1. /\ set(Provider, "LENDING_POOL_COLLATERAL_MANAGER", "LendingPoolCollateralManager")
           \in Seq(Items)
      /\ set(Provider, "DATA_PROVIDER", "PalmyProtocolDataProvider") \in Seq(Items)
      /\ authorize("WETHGateway", "lendingPool", "LendingPool") \in Seq(Items)
  BY DeploymentNames, InitializationNames, SetTyped DEF Fields
<1>2. initialize("StakeUIHelper", {<<"priceOracle", "PalmyOracle">>}) \in Seq(Items)
  BY DeploymentNames, InitializationNames, InitializeTyped DEF Fields
<1>3. initialize("UiPoolDataProviderV2",
        {<<"priceAggregator", "PriceAggregatorAdapterChainsightImpl">>}) \in Seq(Items)
  BY DeploymentNames, InitializationNames, InitializeTyped DEF Fields
<1> QED
  BY <1>1, <1>2, <1>3, AssetsTyped, ReservesTyped, Then DEF miscTask

\* The stages of a launch.
LEMMA StagesTyped == \A k \in 1..3 : stages[k] \in Seq(Items)
<1>1. dataProviderTask \in Seq(Items)
  BY DeploymentNames, InitializationNames, InitializeTyped DEF Fields, dataProviderTask
<1>2. initializationTask \in Seq(Items)
  BY <1>1, AddressProviderTyped, LendingPoolTaskTyped, OracleTyped, MiscTyped, Then
     DEF initializationTask
<1> QED
  BY <1>2, LibrariesTyped, DeploymentTyped DEF stages

\* The task that lists a token later.
LEMMA ListTokenTyped == \A s \in Listable : listToken(s) \in Seq(Items)
BY AssetsTyped, ReservesTyped, Then DEF listToken

-----------------------------------------------------------------------------
(* Steps and addresses                                                     *)

\* What the type of a step says of its fields.
LEMMA ItemFields ==
    ASSUME NEW i \in Items
    PROVE  /\ i.do = "save" => i.ids \in SUBSET Contracts
           /\ i.do \in {"deploy", "register"} => i.id \in Contracts
           /\ i.do \in {"set", "authorize"} =>
                i.on \in Contracts /\ i.field \in Fields /\ i.to \in SUBSET Names
           /\ i.do = "initialize" => i.on \in Contracts /\ i.fields \in SUBSET (Fields \X Names)
           /\ i.do = "setImpl" =>
                i.impl \in {"LendingPoolImpl", "LendingPoolTmpImpl", "LendingPoolV4Impl",
                            "LendingPoolConfiguratorImpl"}
           /\ i.do = "insertProxy" => i.id \in Proxies
           /\ i.do \in {"batchInitReserve", "collect"} => i.assets \in Seq(Symbols)
BY DEF Items

\* A step that is performed is typed, and what is left is a script.
LEMMA Proceeding ==
    ASSUME TypeOK, script # <<>>
    PROVE  /\ item \in Items
           /\ Tail(script) \in Seq(Items)
           /\ proceed => script' \in Seq(Items) /\ next' \in 1..Launched
<1>1. script \in Seq(Items) /\ next \in 1..4
  BY DEF TypeOK, Launched
<1>2. item \in Items /\ Tail(script) \in Seq(Items)
  BY <1>1 DEF item
<1>3. ASSUME proceed PROVE next' \in 1..4
  BY <1>1, <1>3 DEF proceed, Launched
<1> QED
  BY <1>2, <1>3 DEF proceed, Launched

\* What a step was accepted for.
LEMMA Accepted ==
    ASSUME accepted(item)
    PROVE  /\ item.do = "save" => \A id \in item.ids : \A l \in linkedTo(id) : known(l)
           /\ item.do \in {"set", "authorize"} => known(item.on) /\ \A t \in item.to : known(t)
           /\ item.do = "initialize" => known(item.on) /\ \A f \in item.fields : known(f[2])
           /\ item.do = "setImpl" =>
                known(Provider) /\ known(item.impl) /\ upgradable(item.impl)
           /\ item.do = "insertProxy" => known(Provider)
BY DEF accepted

\* The name of a contract in the file is an address where there is one.
LEMMA Resolved ==
    ASSUME Inv, NEW t \in Names
    PROVE  /\ resolve(t) \in Addresses /\ resolve(t)[1] = t
           /\ known(t) => Exists(resolve(t))
           /\ (t \in Ids /\ known(t)) => db[t] \in Instances
<1>1. resolve(t) = <<t, IF t \in Ids THEN db[t] ELSE 0>>
  BY DEF resolve
<1>2. ASSUME t \in Ids, known(t) PROVE db[t] \in 1..deployed[t] /\ deployed[t] \in 0..MaxInstances
  BY <1>2 DEF Inv, TypeOK, NoDanglingReference, known
<1>3. t \in Ids => db[t] \in Nat
  BY DEF Inv, TypeOK
<1>4. MaxInstances \in Nat
  BY DeploymentAssumption
<1> QED
  BY <1>1, <1>2, <1>3, <1>4 DEF Addresses, Exists, Instances

\* What a contract holds are addresses where there is a contract.
LEMMA Held ==
    ASSUME Inv, NEW id \in Ids, NEW n \in Instances, NEW field, NEW a \in named(<<id, n>>, field)
    PROVE  /\ a \in Addresses /\ Exists(a)
           /\ \E r \in storage[id][n] : r[1] = field /\ r[2] = a
           /\ (id = Provider /\ field \in Proxies) => a[1] = field
<1>1. PICK r \in storage[id][n] : r[1] = field /\ r[2] = a
  BY DEF named
<1>2. r \in AllFields \X Addresses
  BY DEF Inv, TypeOK, Refs
<1>3. Exists(r[2])
  BY DEF Inv, NoDanglingReference
<1>4. (id = Provider /\ field \in Proxies) => r[2][1] = field
  BY <1>1 DEF Inv, ProxiesNamed
<1> QED
  BY <1>1, <1>2, <1>3, <1>4

\* What the code and the constructor of a contract hold.
LEMMA Constructed ==
    ASSUME Inv, NEW id \in Contracts, \A l \in linkedTo(id) : known(l)
    PROVE  /\ constructed(id) \in SUBSET Refs(Fields)
           /\ \A r \in constructed(id) : Exists(r[2])
<1>1. \A l \in linkedTo(id) : l \in Names
  BY ContractNames, InitializationNames DEF linkedTo
<1>2. "deployer" \in Names
  BY DEF Names, Accounts
<1>3. known("deployer")
  BY AccountNames DEF known
<1>4. \A l \in linkedTo(id) \cup {"deployer"} : resolve(l) \in Addresses /\ Exists(resolve(l))
  BY <1>1, <1>2, <1>3, Resolved
<1>5. "library" \in Fields /\ "owner" \in Fields
  BY DEF Fields
<1>6. \A r \in constructed(id) :
        \E l \in linkedTo(id) \cup {"deployer"} :
          r = <<"library", resolve(l)>> \/ r = <<"owner", resolve(l)>>
  BY DEF constructed
<1> QED
  BY <1>4, <1>5, <1>6 DEF Refs

-----------------------------------------------------------------------------
(* Each kind of step preserves the invariant                               *)

\* The parts of the invariant that hold of the files, the storage and the proxies.
FilesOK == /\ calldata \in [Ids -> SUBSET SUBSET Refs(Fields)]
           /\ \A id \in Ids : \A refs \in calldata[id] : \A r \in refs : Exists(r[2])
           /\ db \in [Ids -> Nat]
           /\ \A id \in Ids : db[id] <= deployed[id]

StorageOK == /\ storage \in [Ids -> [Instances -> SUBSET Refs(AllFields)]]
             /\ \A id \in Ids, n \in Instances : \A r \in storage[id][n] : Exists(r[2])
             /\ ProxiesNamed

ProxiesOK == /\ deployed \in [Ids -> 0..MaxInstances]
             /\ revision \in [Proxies -> [Instances -> 0..4]]
             /\ Unrevised

ScriptOK == script \in Seq(Items) /\ next \in 1..Launched

\* The parts are the invariant, in a state and in the next.
LEMMA InvParts == /\ Inv <=> FilesOK /\ StorageOK /\ ProxiesOK /\ ScriptOK
                  /\ Inv' <=> FilesOK' /\ StorageOK' /\ ProxiesOK' /\ ScriptOK'
BY DEF Inv, TypeOK, NoDanglingReference, FilesOK, StorageOK, ProxiesOK, ScriptOK

\* Where only scripts change, nothing else has to be shown.
LEMMA OnlyScript ==
    ASSUME Inv, UNCHANGED <<files, chain>>, script' \in Seq(Items), next' \in 1..Launched
    PROVE  Inv'
BY DEF Inv, TypeOK, NoDanglingReference, ProxiesNamed, Unrevised, Exists, files, chain

\* SaveDeploymentCallData writes references to what is there.
LEMMA SaveStep == ASSUME Inv, SaveDeploymentCallData PROVE Inv'
<1>1. item \in Items /\ script # <<>> /\ item.do = "save" /\ accepted(item) /\ proceed
  BY Proceeding DEF Inv, SaveDeploymentCallData, perform, doing
<1>2. item.ids \in SUBSET Contracts
  BY <1>1, ItemFields
<1>3. \A id \in item.ids : /\ constructed(id) \in SUBSET Refs(Fields)
                           /\ \A r \in constructed(id) : Exists(r[2])
  BY <1>1, <1>2, Accepted, Constructed
<1>4. /\ calldata' = [id \in Ids |-> IF id \in item.ids THEN {constructed(id)} ELSE calldata[id]]
      /\ UNCHANGED <<db, chain>>
  BY DEF SaveDeploymentCallData
<1>5. FilesOK'
  <2>1. FilesOK
    BY InvParts
  <2>2. \A a : Exists(a)' <=> Exists(a)
    BY <1>4 DEF Exists, chain
  <2>3. \A id \in Ids : /\ calldata'[id] \in SUBSET SUBSET Refs(Fields)
                        /\ \A refs \in calldata'[id] : \A r \in refs : Exists(r[2])
    BY <1>3, <1>4, <2>1 DEF FilesOK
  <2> QED
    BY <1>4, <2>1, <2>2, <2>3 DEF FilesOK, chain
<1>6. StorageOK' /\ ProxiesOK'
  BY <1>4, InvParts DEF StorageOK, ProxiesOK, ProxiesNamed, Unrevised, Exists, chain
<1>7. ScriptOK'
  BY <1>1, Proceeding DEF Inv, ScriptOK
<1> QED
  BY <1>5, <1>6, <1>7, InvParts

\* More contracts leave every address where there is a contract.
LEMMA ExistsStill ==
    ASSUME TypeOK, deployed' \in [Ids -> 0..MaxInstances],
           \A id \in Ids : deployed[id] <= deployed'[id],
           NEW a \in Addresses, Exists(a)
    PROVE  Exists(a)'
<1>1. a[2] \in Nat
  BY DEF Addresses
<1>2. deployed \in [Ids -> 0..MaxInstances] /\ MaxInstances \in Nat
  BY DeploymentAssumption DEF TypeOK
<1> QED
  BY <1>1, <1>2 DEF Exists

\* What holds of the files and of old storage goes on to hold when contracts are deployed.
LEMMA DeployedMore ==
    ASSUME Inv, deployed' \in [Ids -> 0..MaxInstances],
           \A id \in Ids : deployed[id] <= deployed'[id]
    PROVE  /\ UNCHANGED files => FilesOK'
           /\ \A id \in Ids, n \in Instances : \A r \in storage[id][n] : Exists(r[2])'
<1>1. FilesOK /\ StorageOK /\ MaxInstances \in Nat /\ TypeOK
  BY InvParts, DeploymentAssumption DEF Inv
<1>2. \A id \in Ids : \A refs \in calldata[id] : \A r \in refs : Exists(r[2])'
  <2> TAKE id \in Ids
  <2> TAKE refs \in calldata[id]
  <2> TAKE r \in refs
  <2>1. r \in Fields \X Addresses /\ Exists(r[2])
    BY <1>1 DEF FilesOK, Refs
  <2> QED
    BY <1>1, <2>1, ExistsStill
<1>3. \A id \in Ids, n \in Instances : \A r \in storage[id][n] : Exists(r[2])'
  <2> TAKE id \in Ids, n \in Instances
  <2> TAKE r \in storage[id][n]
  <2>1. r \in AllFields \X Addresses /\ Exists(r[2])
    BY <1>1 DEF StorageOK, Refs
  <2> QED
    BY <1>1, <2>1, ExistsStill
<1>4. ASSUME NEW id \in Ids PROVE db[id] <= deployed'[id]
  <2>1. db[id] \in Nat /\ deployed[id] \in Nat /\ deployed'[id] \in Nat
    BY <1>1 DEF FilesOK, TypeOK
  <2> QED
    BY <1>1, <2>1 DEF FilesOK
<1>5. ASSUME UNCHANGED files PROVE FilesOK'
  BY <1>1, <1>2, <1>4, <1>5 DEF FilesOK, files
<1> QED
  BY <1>3, <1>5

\* DeployToOasysTestnet adds an instance that holds what its call data holds; no proxy is deployed.
LEMMA DeployStep ==
    ASSUME Inv, DeployToOasysTestnet
    PROVE  Inv' /\ \A p \in Proxies : storage'[p] = storage[p]
<1>1. item \in Items /\ item.do = "deploy" /\ accepted(item) /\ proceed /\ TypeOK
  BY Proceeding DEF Inv, DeployToOasysTestnet, perform, doing
<1>2. item.id \in Contracts /\ item.id \in Ids /\ item.id \notin Proxies
  BY <1>1, ItemFields DEF Contracts
<1>3. PICK refs \in calldata[item.id] :
        storage' = [storage EXCEPT ![item.id][deployed[item.id] + 1] = refs]
  BY DEF DeployToOasysTestnet
<1>4. /\ deployed[item.id] < MaxInstances /\ deployed' = [deployed EXCEPT ![item.id] = @ + 1]
      /\ UNCHANGED <<files, revision, pools>>
  BY DEF DeployToOasysTestnet
<1>5. FilesOK /\ StorageOK /\ ProxiesOK /\ MaxInstances \in Nat
  BY InvParts, DeploymentAssumption
<1>6. deployed' \in [Ids -> 0..MaxInstances] /\ \A id \in Ids : deployed[id] <= deployed'[id]
  BY <1>2, <1>4, <1>5 DEF ProxiesOK
<1>7. FilesOK' /\ \A id \in Ids, n \in Instances : \A r \in storage[id][n] : Exists(r[2])'
  BY <1>4, <1>6, DeployedMore
<1>8. refs \in SUBSET Refs(Fields) /\ \A r \in refs : Exists(r[2])'
  <2>1. refs \in SUBSET Refs(Fields) /\ \A r \in refs : Exists(r[2])
    BY <1>2, <1>5 DEF FilesOK
  <2>2. \A r \in refs : r[2] \in Addresses
    BY <2>1 DEF Refs
  <2> QED
    BY <1>1, <1>6, <2>1, <2>2, ExistsStill
<1>9. \A id \in Ids, n \in Instances :
        storage'[id][n] = refs \/ storage'[id][n] = storage[id][n]
  BY <1>2, <1>3, <1>5 DEF StorageOK
<1>10. StorageOK'
  <2>1. storage' \in [Ids -> [Instances -> SUBSET Refs(AllFields)]]
    <3>1. refs \in SUBSET Refs(AllFields)
      BY <1>8 DEF Refs, AllFields
    <3> QED
      BY <1>3, <1>5, <3>1 DEF StorageOK
  <2>2. \A id \in Ids, n \in Instances : \A r \in storage'[id][n] : Exists(r[2])'
    BY <1>7, <1>8, <1>9
  <2>3. \A r \in refs : r[1] \notin Proxies
    BY <1>8, InitializationNames DEF Refs
  <2>4. Provider \in Ids
    BY DeploymentNames DEF Contracts
  <2>5. ProxiesNamed'
    BY <1>5, <1>9, <2>3, <2>4 DEF StorageOK, ProxiesNamed
  <2> QED
    BY <2>1, <2>2, <2>5 DEF StorageOK
<1>11. \A p \in Proxies : deployed'[p] = deployed[p] /\ storage'[p] = storage[p]
  BY <1>2, <1>3, <1>4, <1>5, InitializationNames DEF StorageOK, ProxiesOK, Contracts
<1>12. ProxiesOK'
  BY <1>4, <1>5, <1>6, <1>11 DEF ProxiesOK, Unrevised
<1>13. ScriptOK'
  BY <1>1, Proceeding DEF ScriptOK, DeployToOasysTestnet, perform, doing
<1> QED
  BY <1>7, <1>10, <1>11, <1>12, <1>13, InvParts

\* RegisterContractAddress writes the number of the last instance, which there is.
LEMMA RegisterStep == ASSUME Inv, RegisterContractAddress PROVE Inv'
<1>1. item \in Items /\ item.do = "register" /\ proceed
  BY Proceeding DEF Inv, RegisterContractAddress, perform, doing
<1>2. item.id \in Ids
  BY <1>1, ItemFields DEF Contracts
<1>3. /\ db' = [db EXCEPT ![item.id] = deployed[item.id]] /\ UNCHANGED <<calldata, chain>>
  BY DEF RegisterContractAddress
<1>4. FilesOK /\ StorageOK /\ ProxiesOK
  BY InvParts
<1>5. FilesOK'
  <2>1. deployed \in [Ids -> 0..MaxInstances] /\ MaxInstances \in Nat
    BY <1>4, DeploymentAssumption DEF ProxiesOK
  <2>2. db' \in [Ids -> Nat] /\ \A id \in Ids : db'[id] <= deployed[id]
    BY <1>2, <1>3, <1>4, <2>1 DEF FilesOK
  <2> QED
    BY <1>3, <1>4, <2>2 DEF FilesOK, Exists, chain
<1>6. StorageOK' /\ ProxiesOK'
  BY <1>3, <1>4 DEF StorageOK, ProxiesOK, ProxiesNamed, Unrevised, Exists, chain
<1>7. ScriptOK'
  BY <1>1, Proceeding DEF Inv, ScriptOK, RegisterContractAddress, perform, doing
<1> QED
  BY <1>5, <1>6, <1>7, InvParts

\* A contract that is no proxy holds something else: what SetAddress, Authorize and InitializeOnce
\* have in common.
LEMMA WriteStep ==
    ASSUME Inv, NEW id \in Contracts, NEW S \in SUBSET Refs(AllFields), \A r \in S : Exists(r[2]),
           id = Provider => \A r \in S : r[1] \in Proxies => r[2][1] = r[1],
           storage' = [storage EXCEPT ![id][db[id]] = S],
           UNCHANGED <<files, deployed, revision>>, ScriptOK'
    PROVE  Inv' /\ \A p \in Proxies : storage'[p] = storage[p]
<1>1. FilesOK /\ StorageOK /\ ProxiesOK
  BY InvParts
<1>2. id \in Ids /\ id \notin Proxies
  BY DEF Contracts
<1>3. \A i \in Ids, n \in Instances :
        storage'[i][n] = storage[i][n] \/ (i = id /\ storage'[i][n] = S)
  BY <1>1, <1>2 DEF StorageOK
<1>4. \A a : Exists(a)' <=> Exists(a)
  BY DEF Exists
<1>5. StorageOK'
  <2>1. storage' \in [Ids -> [Instances -> SUBSET Refs(AllFields)]]
    BY <1>1, <1>2 DEF StorageOK
  <2>2. \A i \in Ids, n \in Instances : \A r \in storage'[i][n] : Exists(r[2])'
    BY <1>1, <1>3, <1>4 DEF StorageOK
  <2>3. Provider \in Ids
    BY DeploymentNames DEF Contracts
  <2>4. ProxiesNamed'
    BY <1>1, <1>3, <2>3 DEF StorageOK, ProxiesNamed
  <2> QED
    BY <2>1, <2>2, <2>4 DEF StorageOK
<1>6. FilesOK' /\ ProxiesOK'
  BY <1>1, <1>4 DEF FilesOK, ProxiesOK, Unrevised, files
<1>7. \A p \in Proxies : storage'[p] = storage[p]
  BY <1>1, <1>2, InitializationNames DEF StorageOK
<1> QED
  BY <1>5, <1>6, <1>7, InvParts

\* What a contract already holds may be kept when it is written to.
LEMMA Kept ==
    ASSUME Inv, NEW id \in Contracts, known(id)
    PROVE  /\ storage[id][db[id]] \in SUBSET Refs(AllFields)
           /\ \A r \in storage[id][db[id]] : Exists(r[2])
           /\ id = Provider =>
                \A r \in storage[id][db[id]] : r[1] \in Proxies => r[2][1] = r[1]
<1>1. id \in Ids /\ id \in Names
  BY InitializationNames DEF Contracts
<1>2. db[id] \in Instances
  BY <1>1, Resolved
<1> QED
  BY <1>1, <1>2, InvParts DEF StorageOK, ProxiesNamed

\* A reference under a field of its own to a contract that is there.
LEMMA NewRef ==
    ASSUME Inv, NEW f \in Fields, NEW t \in Names, known(t)
    PROVE  /\ <<f, resolve(t)>> \in Refs(AllFields) /\ Exists(resolve(t)) /\ f \notin Proxies
<1>1. resolve(t) \in Addresses /\ Exists(resolve(t))
  BY Resolved
<1> QED
  BY <1>1, InitializationNames DEF Refs, AllFields

\* SetAddress and Authorize store addresses of the file.
LEMMA SetStep ==
    ASSUME Inv, SetAddress \/ Authorize
    PROVE  Inv' /\ \A p \in Proxies : storage'[p] = storage[p]
<1>1. /\ item \in Items /\ item.do \in {"set", "authorize"} /\ accepted(item) /\ proceed
      /\ script # <<>> /\ TypeOK
  BY Proceeding DEF Inv, SetAddress, Authorize, perform, doing
<1>2. item.on \in Contracts /\ item.field \in Fields /\ item.to \in SUBSET Names
  BY <1>1, ItemFields
<1>3. known(item.on) /\ \A t \in item.to : known(t)
  BY <1>1, Accepted
<1>4. ScriptOK' /\ UNCHANGED <<files, deployed, revision>>
  BY <1>1, Proceeding DEF ScriptOK, SetAddress, Authorize
<1> DEFINE old == storage[item.on][db[item.on]]
           new == {<<item.field, resolve(t)>> : t \in item.to}
<1>5. \A r \in new : /\ r \in Refs(AllFields) /\ Exists(r[2]) /\ r[1] \notin Proxies
  BY <1>2, <1>3, NewRef
<1>6. PICK S \in SUBSET (old \cup new) : storage' = [storage EXCEPT ![item.on][db[item.on]] = S]
  <2>1. CASE SetAddress
    <3>1. replaced(old, item.field, {resolve(t) : t \in item.to}) \in SUBSET (old \cup new)
      BY DEF replaced
    <3> QED
      BY <2>1, <3>1 DEF SetAddress
  <2>2. CASE Authorize
    BY <2>2 DEF Authorize
  <2> QED
    BY <2>1, <2>2
<1>7. /\ old \in SUBSET Refs(AllFields) /\ \A r \in old : Exists(r[2])
      /\ item.on = Provider => \A r \in old : r[1] \in Proxies => r[2][1] = r[1]
  BY <1>2, <1>3, Kept
<1>8. S \in SUBSET Refs(AllFields) /\ \A r \in S : Exists(r[2])
  BY <1>5, <1>6, <1>7
<1>9. item.on = Provider => \A r \in S : r[1] \in Proxies => r[2][1] = r[1]
  BY <1>5, <1>6, <1>7
<1> QED
  BY <1>2, <1>4, <1>6, <1>8, <1>9, WriteStep

\* InitializeOnce stores addresses of the file, too.
LEMMA InitializeStep ==
    ASSUME Inv, InitializeOnce
    PROVE  Inv' /\ \A p \in Proxies : storage'[p] = storage[p]
<1>1. /\ item \in Items /\ item.do = "initialize" /\ accepted(item) /\ proceed
      /\ script # <<>> /\ TypeOK
  BY Proceeding DEF Inv, InitializeOnce, perform, doing
<1>2. item.on \in Contracts /\ item.fields \in SUBSET (Fields \X Names)
  BY <1>1, ItemFields
<1>3. known(item.on) /\ \A f \in item.fields : known(f[2])
  BY <1>1, Accepted
<1>4. ScriptOK' /\ UNCHANGED <<files, deployed, revision>>
  BY <1>1, Proceeding DEF ScriptOK, InitializeOnce
<1> DEFINE old == storage[item.on][db[item.on]]
           new == {<<f[1], resolve(f[2])>> : f \in item.fields}
<1>5. \A r \in new : /\ r \in Refs(AllFields) /\ Exists(r[2]) /\ r[1] \notin Proxies
  BY <1>2, <1>3, NewRef
<1>6. storage' = [storage EXCEPT ![item.on][db[item.on]] = old \cup new]
  BY DEF InitializeOnce
<1>7. /\ old \in SUBSET Refs(AllFields) /\ \A r \in old : Exists(r[2])
      /\ item.on = Provider => \A r \in old : r[1] \in Proxies => r[2][1] = r[1]
  BY <1>2, <1>3, Kept
<1>8. /\ old \cup new \in SUBSET Refs(AllFields) /\ \A r \in old \cup new : Exists(r[2])
      /\ item.on = Provider => \A r \in old \cup new : r[1] \in Proxies => r[2][1] = r[1]
  BY <1>5, <1>7
<1> HIDE DEF old, new
<1> QED
  BY <1>2, <1>4, <1>6, <1>8, WriteStep

\* InsertProxyAddress writes the number of a proxy the provider holds.
LEMMA InsertProxyStep == ASSUME Inv, InsertProxyAddress PROVE Inv'
<1>1. /\ item \in Items /\ item.do = "insertProxy" /\ accepted(item) /\ proceed
      /\ script # <<>> /\ TypeOK
  BY Proceeding DEF Inv, InsertProxyAddress, perform, doing
<1>2. item.id \in Proxies /\ item.id \in Ids /\ known(Provider)
  BY <1>1, ItemFields, Accepted DEF Ids
<1>3. PICK a \in named(resolve(Provider), item.id) : db' = [db EXCEPT ![item.id] = a[2]]
  BY DEF InsertProxyAddress
<1>4. Provider \in Ids /\ Provider \in Names
  BY DeploymentNames, InitializationNames DEF Contracts
<1>5. db[Provider] \in Instances /\ resolve(Provider) = <<Provider, db[Provider]>>
  BY <1>2, <1>4, Resolved DEF resolve
<1>6. a \in Addresses /\ Exists(a) /\ a[1] = item.id
  BY <1>2, <1>3, <1>4, <1>5, Held
<1>7. a[2] \in Nat /\ a[2] \in 1..deployed[item.id]
  BY <1>2, <1>6 DEF Addresses, Exists
<1>8. UNCHANGED <<calldata, chain>> /\ FilesOK /\ StorageOK /\ ProxiesOK
  BY InvParts DEF InsertProxyAddress
<1>9. FilesOK'
  <2>1. db' \in [Ids -> Nat] /\ \A id \in Ids : db'[id] <= deployed[id]
    BY <1>2, <1>3, <1>7, <1>8 DEF FilesOK
  <2> QED
    BY <1>8, <2>1 DEF FilesOK, Exists, chain
<1>10. StorageOK' /\ ProxiesOK'
  BY <1>8 DEF StorageOK, ProxiesOK, ProxiesNamed, Unrevised, Exists, chain
<1>11. ScriptOK'
  BY <1>1, Proceeding DEF ScriptOK
<1> QED
  BY <1>9, <1>10, <1>11, InvParts

\* A proxy's revision grows with whatever it holds.
ProxiesGrow ==
  \A p \in Proxies, n \in Instances :
     storage'[p][n] # storage[p][n] => revision'[p][n] > revision[p][n]

\* What initialize(provider) stores in a proxy are addresses where there is a contract.
LEMMA Initialized ==
    ASSUME Inv, NEW impl \in Contracts, known(impl), known(Provider)
    PROVE  /\ initialized(impl) \in SUBSET Refs(AllFields)
           /\ \A r \in initialized(impl) : Exists(r[2])
<1>1. Provider \in Ids /\ Provider \in Names /\ impl \in Names
  BY DeploymentNames, InitializationNames DEF Contracts
<1>2. db[Provider] \in Instances /\ resolve(Provider) = <<Provider, db[Provider]>>
  BY <1>1, Resolved DEF resolve
<1>3. \A a \in currentPool : a \in Addresses /\ Exists(a)
  BY <1>1, <1>2, Held DEF currentPool
<1>4. /\ resolve(impl) \in Addresses /\ Exists(resolve(impl))
      /\ resolve(Provider) \in Addresses /\ Exists(resolve(Provider))
  BY <1>1, Resolved
<1>5. {"implementation", "addressesProvider", "pool"} \subseteq AllFields
  BY DEF AllFields, Fields
<1>6. \A r \in initialized(impl) :
        /\ r[1] \in {"implementation", "addressesProvider", "pool"}
        /\ r[2] \in {resolve(impl), resolve(Provider)} \cup currentPool
        /\ r = <<r[1], r[2]>>
  BY DEF initialized
<1> QED
  BY <1>3, <1>4, <1>5, <1>6 DEF Refs

\* The first SetImpl of a provider creates a proxy, which no instance number stood for before.
LEMMA CreateStep ==
    ASSUME Inv, ScriptOK', NEW impl \in Contracts, NEW proxy \in Proxies, proxy = proxyOf(impl),
           known(impl), known(Provider), getRevision(impl) \in 1..4,
           NEW new \in Instances, new = deployed[proxy] + 1,
           deployed' = [deployed EXCEPT ![proxy] = new],
           storage' = [storage EXCEPT ![proxy][new] = initialized(impl),
                         ![Provider][db[Provider]] = @ \cup {<<proxy, <<proxy, new>>>>}],
           revision' = [revision EXCEPT ![proxy][new] = getRevision(impl)],
           UNCHANGED files
    PROVE  Inv' /\ ProxiesGrow
<1> DEFINE ref == <<proxy, <<proxy, new>>>>
<1>1. FilesOK /\ StorageOK /\ ProxiesOK /\ MaxInstances \in Nat /\ TypeOK
  BY InvParts, DeploymentAssumption DEF Inv
<1>2. /\ Provider \in Ids /\ Provider \in Names /\ Provider \notin Proxies
      /\ proxy \in Ids /\ proxy \in Names
  BY DeploymentNames, InitializationNames DEF Contracts, Ids
<1>3. db[Provider] \in Instances
  BY <1>2, Resolved
<1>4. deployed[proxy] \in Nat /\ new \in 1..MaxInstances
  BY <1>1, <1>2 DEF ProxiesOK, Instances
<1>5. deployed' \in [Ids -> 0..MaxInstances] /\ \A id \in Ids : deployed[id] <= deployed'[id]
  BY <1>1, <1>2, <1>4 DEF ProxiesOK
<1>6. FilesOK' /\ \A id \in Ids, n \in Instances : \A r \in storage[id][n] : Exists(r[2])'
  BY <1>5, DeployedMore
<1>7. ref \in Refs(AllFields) /\ Exists(ref[2])'
  <2>1. deployed'[proxy] = new
    BY <1>1, <1>2 DEF ProxiesOK
  <2> QED
    BY <1>2, <1>4, <2>1 DEF Refs, AllFields, Addresses, Exists
<1>8. initialized(impl) \in SUBSET Refs(AllFields) /\ \A r \in initialized(impl) : Exists(r[2])'
  <2>1. initialized(impl) \in SUBSET Refs(AllFields) /\ \A r \in initialized(impl) : Exists(r[2])
    BY Initialized
  <2>2. \A r \in initialized(impl) : r[2] \in Addresses
    BY <2>1 DEF Refs
  <2> QED
    BY <1>1, <1>5, <2>1, <2>2, ExistsStill
<1>9. \A id \in Ids, n \in Instances :
        \/ storage'[id][n] = storage[id][n]
        \/ id = proxy /\ n = new /\ storage'[id][n] = initialized(impl)
        \/ id = Provider /\ storage'[id][n] = storage[id][n] \cup {ref}
  BY <1>1, <1>2 DEF StorageOK
<1>10. StorageOK'
  <2>1. storage' \in [Ids -> [Instances -> SUBSET Refs(AllFields)]]
    <3>1. storage[Provider][db[Provider]] \cup {ref} \in SUBSET Refs(AllFields)
      BY <1>1, <1>2, <1>3, <1>7 DEF StorageOK
    <3> QED
      BY <1>1, <1>2, <1>8, <3>1 DEF StorageOK
  <2>2. ASSUME NEW id \in Ids, NEW n \in Instances, NEW r \in storage'[id][n]
        PROVE  Exists(r[2])'
    <3>1. r \in storage[id][n] \/ r \in initialized(impl) \/ r = ref
      BY ONLY <1>9, id \in Ids, n \in Instances, r \in storage'[id][n]
    <3>2. CASE r \in storage[id][n]
      BY <1>6, <3>2
    <3>3. CASE r \in initialized(impl)
      BY <1>8, <3>3
    <3>4. CASE r = ref
      BY <1>7, <3>4 DEF Exists
    <3> QED
      BY <3>1, <3>2, <3>3, <3>4
  <2>3. ProxiesNamed'
    BY <1>1, <1>2, <1>9 DEF StorageOK, ProxiesNamed
  <2> QED
    BY <2>1, <2>2, <2>3 DEF StorageOK
<1>11. revision[proxy][new] = 0
  BY <1>1, <1>4 DEF ProxiesOK, Unrevised
<1>12. ProxiesOK'
  <2>1. revision' \in [Proxies -> [Instances -> 0..4]]
    BY <1>1 DEF ProxiesOK
  <2>2. ASSUME NEW p \in Proxies, NEW n \in Instances, n > deployed'[p] PROVE revision'[p][n] = 0
    <3>1. CASE p = proxy
      <4>1. n > deployed[p] /\ n # new
        BY <1>1, <1>2, <1>4, <2>2, <3>1 DEF ProxiesOK, Instances
      <4> QED
        BY <1>1, <3>1, <4>1 DEF ProxiesOK, Unrevised
    <3>2. CASE p # proxy
      <4>1. deployed'[p] = deployed[p] /\ revision'[p] = revision[p]
        BY <1>1, <3>2 DEF ProxiesOK
      <4> QED
        BY <1>1, <2>2, <4>1 DEF ProxiesOK, Unrevised
    <3> QED
      BY <3>1, <3>2
  <2> QED
    BY <1>5, <2>1, <2>2 DEF ProxiesOK, Unrevised
<1>13. ProxiesGrow
  <2>1. revision'[proxy][new] = getRevision(impl)
    BY <1>1 DEF ProxiesOK
  <2>2. \A p \in Proxies : p \in Ids
    BY DEF Ids
  <2> QED
    BY <1>2, <1>9, <1>11, <2>1, <2>2 DEF ProxiesGrow
<1> QED
  BY <1>6, <1>10, <1>12, <1>13, InvParts

\* A later SetImpl gives the proxy the provider holds a higher revision.
LEMMA UpgradeStep ==
    ASSUME Inv, ScriptOK', NEW impl \in Contracts, NEW proxy \in Proxies, proxy = proxyOf(impl),
           known(impl), known(Provider), upgradable(impl), getRevision(impl) \in 1..4,
           NEW a \in named(resolve(Provider), proxy),
           storage' = [storage EXCEPT ![proxy][a[2]] = initialized(impl)],
           revision' = [revision EXCEPT ![proxy][a[2]] = getRevision(impl)],
           UNCHANGED <<files, deployed>>
    PROVE  Inv' /\ ProxiesGrow
<1>1. FilesOK /\ StorageOK /\ ProxiesOK /\ MaxInstances \in Nat
  BY InvParts, DeploymentAssumption
<1>2. /\ Provider \in Ids /\ Provider \in Names /\ Provider \notin Proxies
      /\ proxy \in Ids
  BY DeploymentNames, InitializationNames DEF Contracts, Ids
<1>3. db[Provider] \in Instances /\ resolve(Provider) = <<Provider, db[Provider]>>
  BY <1>2, Resolved DEF resolve
<1>4. a \in Addresses /\ Exists(a) /\ a[1] = proxy
  BY <1>2, <1>3, Held
<1>5. a[2] \in 1..deployed[proxy] /\ a[2] \in Instances
  <2>1. a[2] \in 1..deployed[proxy] /\ deployed[proxy] \in 0..MaxInstances
    BY <1>1, <1>2, <1>4 DEF Exists, ProxiesOK
  <2> QED
    BY <1>1, <2>1 DEF Instances
<1>6. getRevision(impl) > revision[proxy][a[2]]
  BY <1>4 DEF upgradable
<1>7. initialized(impl) \in SUBSET Refs(AllFields) /\ \A r \in initialized(impl) : Exists(r[2])
  BY Initialized
<1>8. \A id \in Ids, n \in Instances :
        \/ storage'[id][n] = storage[id][n]
        \/ id = proxy /\ n = a[2] /\ storage'[id][n] = initialized(impl)
  BY <1>1, <1>2 DEF StorageOK
<1>9. \A x : Exists(x)' <=> Exists(x)
  BY DEF Exists
<1>10. StorageOK'
  <2>1. storage' \in [Ids -> [Instances -> SUBSET Refs(AllFields)]]
    BY <1>1, <1>7 DEF StorageOK
  <2>2. \A id \in Ids, n \in Instances : \A r \in storage'[id][n] : Exists(r[2])'
    BY <1>1, <1>7, <1>8, <1>9 DEF StorageOK
  <2>3. ProxiesNamed'
    BY <1>1, <1>2, <1>8 DEF StorageOK, ProxiesNamed
  <2> QED
    BY <2>1, <2>2, <2>3 DEF StorageOK
<1>11. revision' \in [Proxies -> [Instances -> 0..4]]
  <2>1. revision \in [Proxies -> [Instances -> 0..4]]
    BY <1>1 DEF ProxiesOK
  <2>2. getRevision(impl) \in 0..4
    OBVIOUS
  <2> QED
    BY ONLY <2>1, <2>2, revision' = [revision EXCEPT ![proxy][a[2]] = getRevision(impl)]
<1>12. \A p \in Proxies, n \in Instances :
         revision'[p][n] = IF p = proxy /\ n = a[2] THEN getRevision(impl) ELSE revision[p][n]
  BY <1>1 DEF ProxiesOK
<1>13. ProxiesOK'
  <2>1. ASSUME NEW p \in Proxies, NEW n \in Instances, n > deployed[p] PROVE revision'[p][n] = 0
    <3>1. ~(p = proxy /\ n = a[2])
      BY <1>1, <1>2, <1>5, <2>1 DEF ProxiesOK, Instances
    <3> QED
      BY <1>1, <1>12, <2>1, <3>1 DEF ProxiesOK, Unrevised
  <2> QED
    BY <1>1, <1>11, <2>1 DEF ProxiesOK, Unrevised
<1>14. ProxiesGrow
  <2>1. \A p \in Proxies : p \in Ids
    BY DEF Ids
  <2> QED
    BY <1>6, <1>8, <1>12, <2>1 DEF ProxiesGrow
<1>15. FilesOK'
  BY <1>1, <1>9 DEF FilesOK, files
<1> QED
  BY <1>10, <1>13, <1>14, <1>15, InvParts

\* SetImpl does the one or the other.
LEMMA SetImplStep == ASSUME Inv, SetImpl PROVE Inv' /\ ProxiesGrow
<1> DEFINE proxy == proxyOf(item.impl)
           slot  == named(resolve(Provider), proxy)
           new   == deployed[proxy] + 1
<1>1. /\ item \in Items /\ item.do = "setImpl" /\ accepted(item) /\ proceed
      /\ script # <<>> /\ TypeOK
  BY Proceeding DEF Inv, SetImpl, perform, doing
<1>2. item.impl \in {"LendingPoolImpl", "LendingPoolTmpImpl", "LendingPoolV4Impl",
                     "LendingPoolConfiguratorImpl"}
  BY <1>1, ItemFields
<1>3. known(Provider) /\ known(item.impl) /\ upgradable(item.impl)
  BY <1>1, Accepted
<1>4. item.impl \in Contracts
  BY <1>2, ContractNames, DeploymentNames
<1>5. proxy \in Proxies
  BY DEF proxyOf, Proxies
<1>6. getRevision(item.impl) \in 1..4
  BY <1>2 DEF getRevision
<1>7. ScriptOK' /\ UNCHANGED files
  BY <1>1, Proceeding DEF ScriptOK, SetImpl
<1>8. CASE slot = {}
  <2>1. /\ new \in Instances
        /\ deployed' = [deployed EXCEPT ![proxy] = new]
        /\ storage' = [storage EXCEPT ![proxy][new] = initialized(item.impl),
                         ![Provider][db[Provider]] = @ \cup {<<proxy, <<proxy, new>>>>}]
        /\ revision' = [revision EXCEPT ![proxy][new] = getRevision(item.impl)]
    BY <1>8 DEF SetImpl
  <2> HIDE DEF proxy, new
  <2>2. proxy = proxyOf(item.impl) /\ new = deployed[proxy] + 1
    BY DEF proxy, new
  <2> QED
    BY <1>3, <1>4, <1>5, <1>6, <1>7, <2>1, <2>2, CreateStep
<1>9. CASE slot # {}
  <2>1. PICK a \in slot :
          /\ storage' = [storage EXCEPT ![proxy][a[2]] = initialized(item.impl)]
          /\ revision' = [revision EXCEPT ![proxy][a[2]] = getRevision(item.impl)]
          /\ UNCHANGED deployed
    BY <1>9 DEF SetImpl
  <2>2. a \in named(resolve(Provider), proxy)
    BY <2>1
  <2> HIDE DEF proxy
  <2>3. proxy = proxyOf(item.impl)
    BY DEF proxy
  <2> QED
    BY <1>3, <1>4, <1>5, <1>6, <1>7, <2>1, <2>2, <2>3, UpgradeStep
<1> QED
  BY <1>8, <1>9

\* Listing and configuring reserves leave the addresses alone.
LEMMA ReserveStep == ASSUME Inv, BatchInitReserve \/ ConfigureReserves \/ Deposit PROVE Inv'
<1>1. /\ UNCHANGED <<files, deployed, storage, revision>>
      /\ (script # <<>> /\ proceed) \/ UNCHANGED <<script, next>>
  BY DEF BatchInitReserve, ConfigureReserves, Deposit, perform, doing
<1>2. ScriptOK'
  BY <1>1, Proceeding, InvParts DEF Inv, ScriptOK
<1>3. FilesOK' /\ StorageOK' /\ ProxiesOK'
  BY <1>1, InvParts
     DEF FilesOK, StorageOK, ProxiesOK, ProxiesNamed, Unrevised, Exists, files
<1> QED
  BY <1>2, <1>3, InvParts

\* CollectReserves puts typed steps before the rest of the script.
LEMMA CollectStep == ASSUME Inv, CollectReserves PROVE Inv'
<1> DEFINE assets == toConfigure(item.assets)
<1>1. item \in Items /\ script # <<>> /\ TypeOK /\ Tail(script) \in Seq(Items)
  BY Proceeding DEF Inv, CollectReserves, doing
<1>2. assets \in SUBSET Symbols
  BY DEF toConfigure
<1>3. <<[do |-> "configure", assets |-> assets]>> \in Seq(Items)
  <2>1. [do |-> "configure", assets |-> assets] \in Items
    BY <1>2 DEF Items
  <2> QED
    BY <2>1, OneStep
<1>4. /\ set(Provider, "POOL_ADMIN", "LTokensAndRatesHelper") \in Seq(Items)
      /\ set(Provider, "POOL_ADMIN", "deployer") \in Seq(Items)
  BY DeploymentNames, InitializationNames, SetTyped DEF Accounts, Fields
<1>5. script' \in Seq(Items)
  <2>1. script' = (IF assets = {} THEN <<>>
                   ELSE set(Provider, "POOL_ADMIN", "LTokensAndRatesHelper")
                          \o <<[do |-> "configure", assets |-> assets]>>
                          \o set(Provider, "POOL_ADMIN", "deployer")) \o Tail(script)
    BY DEF CollectReserves
  <2>2. <<>> \in Seq(Items)
    OBVIOUS
  <2> HIDE DEF assets
  <2> QED
    BY <1>1, <1>3, <1>4, <2>1, <2>2, Then
<1> QED
  BY <1>1, <1>5, OnlyScript DEF CollectReserves, TypeOK

\* A task that ends early leaves an empty script; a stage or an operation starts a typed one.
LEMMA ScriptStep == ASSUME Inv, Throw \/ Crash \/ RunStage \/ Operate PROVE Inv'
<1>1. next \in 1..4 /\ TypeOK
  BY DEF Inv, TypeOK, Launched
<1>2. CASE Throw \/ Crash
  <2>1. script' = <<>> /\ UNCHANGED <<files, chain>>
    BY <1>2 DEF Throw, Crash, abandoned
  <2>2. next' \in {next, startOver, 2, 3}
    BY <1>2 DEF Throw, Crash, abandoned
  <2>3. next' \in 1..Launched
    BY <1>1, <2>2 DEF startOver, Launched
  <2> QED
    BY <2>1, <2>3, OnlyScript
<1>3. CASE RunStage
  <2>1. next \in 1..3 /\ script' = stages[next] /\ UNCHANGED <<files, chain, next>>
    BY <1>1, <1>3 DEF RunStage, Launched
  <2> QED
    BY <1>1, <2>1, StagesTyped, OnlyScript DEF Launched
<1>4. CASE Operate
  <2>1. /\ \/ \E s \in Listable : script' = listToken(s)
           \/ script' = newLendingPoolTask
           \/ script' = setImpl("LendingPoolTmpImpl")
           \/ script' = setImpl("LendingPoolV4Impl")
        /\ UNCHANGED <<files, chain, next>>
    BY <1>4 DEF Operate
  <2>2. script' \in Seq(Items)
    BY <2>1, ListTokenTyped, NewLendingPoolTyped, ProxyTyped
  <2> QED
    BY <1>1, <2>1, <2>2, OnlyScript DEF Launched
<1> QED
  BY <1>2, <1>3, <1>4

-----------------------------------------------------------------------------
(* The reserves of a pool                                                  *)

\* What a pool keeps of a reserve.
Reserve == [listed : BOOLEAN, id : Nat, indexed : BOOLEAN, collateral : BOOLEAN,
            borrowing : BOOLEAN, liquid : BOOLEAN]

\* A list and ids that are a bijection. A reserve that is not listed has no id: else it would be
\* taken for one that is already in the list.
inOrder(list, rs) ==
  /\ list \in Seq(Symbols) /\ rs \in [Symbols -> Reserve]
  /\ \A k \in DOMAIN list : rs[list[k]].listed /\ rs[list[k]].id = k - 1
  /\ \A s \in Symbols : rs[s].listed => \E k \in DOMAIN list : list[k] = s
  /\ \A s \in Symbols : ~rs[s].listed => rs[s].id = 0

Orderly == {pool \in [list : Seq(Symbols), reserves : [Symbols -> Reserve]] :
              inOrder(pool.list, pool.reserves)}

PoolsOK == pools \in [Instances -> Orderly]

\* A pool is orderly exactly if it is made of a list and reserves that are in order.
LEMMA MadeOrderly ==
    ASSUME NEW list, NEW rs, inOrder(list, rs)
    PROVE  [list |-> list, reserves |-> rs] \in Orderly
  BY DEF Orderly, inOrder

\* And it is made of them.
LEMMA OrderlyParts ==
    ASSUME NEW pool \in Orderly
    PROVE  /\ inOrder(pool.list, pool.reserves)
           /\ \E list, rs : pool = [list |-> list, reserves |-> rs]
<1>1. pool \in [list : Seq(Symbols), reserves : [Symbols -> Reserve]]
  BY DEF Orderly
<1>2. \E list \in Seq(Symbols), rs \in [Symbols -> Reserve] : pool = [list |-> list, reserves |-> rs]
  BY <1>1
<1> QED
  BY <1>2 DEF Orderly

\* A reserve is taken for one in the list exactly if it is there, although both that has id 0 and
\* that is not listed have the same id.
LEMMA AlreadyAdded ==
    ASSUME NEW pool \in Orderly, NEW s \in Symbols
    PROVE  alreadyAdded(pool, s) <=> pool.reserves[s].listed
<1>1. /\ pool.list \in Seq(Symbols) /\ pool.reserves \in [Symbols -> Reserve]
      /\ inOrder(pool.list, pool.reserves)
  BY OrderlyParts DEF inOrder
<1>2. DOMAIN pool.list = 1..Len(pool.list) /\ Len(pool.list) \in Nat
  BY <1>1
<1>3. ASSUME pool.reserves[s].listed, pool.reserves[s].id = 0
      PROVE  pool.list # <<>> /\ pool.list[1] = s
  <2>1. PICK k \in DOMAIN pool.list : pool.list[k] = s
    BY <1>1, <1>3 DEF inOrder
  <2>2. pool.reserves[s].id = k - 1
    BY <1>1, <2>1 DEF inOrder
  <2>3. k = 1
    BY <1>2, <1>3, <2>1, <2>2
  <2> QED
    BY <1>2, <2>1, <2>3
<1>4. ASSUME pool.list # <<>>, pool.list[1] = s PROVE pool.reserves[s].listed
  <2>1. 1 \in DOMAIN pool.list
    BY <1>1, <1>2, <1>4
  <2> QED
    BY <1>1, <1>4, <2>1 DEF inOrder
<1>5. pool.reserves[s].id # 0 => pool.reserves[s].listed
  BY <1>1 DEF inOrder
<1> QED
  BY <1>3, <1>4, <1>5 DEF alreadyAdded

\* initReserve keeps list and ids a bijection, whatever the revision and whether the reserve is
\* listed already.
LEMMA InitReserveOrderly ==
    ASSUME NEW rev, NEW pool \in Orderly, NEW s \in Symbols
    PROVE  initReserve(rev, pool, s) \in Orderly
<1> DEFINE added == alreadyAdded(pool, s)
           r     == [pool.reserves[s] EXCEPT !.listed = TRUE, !.liquid = FALSE,
                       !.id = IF added THEN @ ELSE Len(pool.list),
                       !.indexed = @ \/ rev # getRevision("LendingPoolTmpImpl")]
           list  == IF added THEN pool.list ELSE Append(pool.list, s)
           rs    == [pool.reserves EXCEPT ![s] = r]
<1>1. /\ pool.list \in Seq(Symbols) /\ pool.reserves \in [Symbols -> Reserve]
      /\ Len(pool.list) \in Nat /\ DOMAIN pool.list = 1..Len(pool.list)
      /\ inOrder(pool.list, pool.reserves)
  BY OrderlyParts DEF inOrder
<1>2. added <=> pool.reserves[s].listed
  BY AlreadyAdded
<1>3. added \in BOOLEAN
  BY DEF alreadyAdded
<1>4. initReserve(rev, pool, s) = [list |-> list, reserves |-> rs]
  BY DEF initReserve
<1>5. /\ r \in Reserve /\ r.listed = TRUE
      /\ r.id = IF added THEN pool.reserves[s].id ELSE Len(pool.list)
  <2>1. pool.reserves[s] \in Reserve
    BY <1>1
  <2> HIDE DEF added
  <2> QED
    BY <1>1, <1>3, <2>1 DEF Reserve
<1> HIDE DEF added, r
<1>6. /\ list \in Seq(Symbols) /\ rs \in [Symbols -> Reserve]
      /\ rs[s].listed = TRUE
      /\ rs[s].id = IF added THEN pool.reserves[s].id ELSE Len(pool.list)
      /\ \A z \in Symbols \ {s} : rs[z] = pool.reserves[z]
  BY <1>1, <1>5
<1>7. ASSUME added PROVE inOrder(list, rs)
  <2>1. list = pool.list
    BY <1>7
  <2>2. pool.reserves[s].listed /\ rs[s].id = pool.reserves[s].id
    BY <1>2, <1>6, <1>7
  <2>3. \A z \in Symbols : /\ rs[z].listed <=> pool.reserves[z].listed
                           /\ rs[z].id = pool.reserves[z].id
    BY <1>6, <2>2
  <2>4. \A k \in DOMAIN pool.list : pool.list[k] \in Symbols
    BY <1>1
  <2> HIDE DEF list, rs
  <2> QED
    BY <1>1, <1>6, <2>1, <2>3, <2>4 DEF inOrder
<1>8. ASSUME ~added PROVE inOrder(list, rs)
  <2>1. /\ DOMAIN list = 1..Len(pool.list) + 1
        /\ list[Len(pool.list) + 1] = s
        /\ \A k \in 1..Len(pool.list) : list[k] = pool.list[k]
    BY <1>1, <1>8
  <2>2. \A k \in 1..Len(pool.list) : pool.list[k] \in Symbols \ {s}
    <3>1. \A k \in 1..Len(pool.list) : pool.reserves[pool.list[k]].listed
      BY <1>1 DEF inOrder
    <3> QED
      BY <1>1, <1>2, <1>8, <3>1
  <2> HIDE DEF list, rs
  <2>3. ASSUME NEW k \in DOMAIN list
        PROVE  rs[list[k]].listed /\ rs[list[k]].id = k - 1
    <3>1. CASE k = Len(pool.list) + 1
      BY <1>1, <1>6, <1>8, <2>1, <3>1
    <3>2. CASE k # Len(pool.list) + 1
      <4>1. k \in 1..Len(pool.list)
        BY <1>1, <2>1, <2>3, <3>2
      <4>2. pool.reserves[pool.list[k]].listed /\ pool.reserves[pool.list[k]].id = k - 1
        BY <1>1, <4>1 DEF inOrder
      <4> QED
        BY <1>6, <2>1, <2>2, <4>1, <4>2
    <3> QED
      BY <3>1, <3>2
  <2>4. ASSUME NEW z \in Symbols, rs[z].listed
        PROVE  \E k \in DOMAIN list : list[k] = z
    <3>1. CASE z = s
      BY <1>1, <2>1, <3>1
    <3>2. CASE z # s
      <4>1. PICK k \in DOMAIN pool.list : pool.list[k] = z
        BY <1>1, <1>6, <2>4, <3>2 DEF inOrder
      <4> QED
        BY <1>1, <2>1, <4>1
    <3> QED
      BY <3>1, <3>2
  <2>5. \A z \in Symbols : ~rs[z].listed => rs[z].id = 0
    BY <1>1, <1>6 DEF inOrder
  <2> QED
    BY <1>6, <2>3, <2>4, <2>5 DEF inOrder
<1> HIDE DEF list, rs
<1> QED
  BY <1>4, <1>7, <1>8, MadeOrderly

-----------------------------------------------------------------------------
(* A batch                                                                 *)

\* batchInitReserve folds initReserve over the sequence, as SequencesExt!FoldLeft does: by a
\* recursive function on the sets of places, which takes the last place off first. h folds the
\* places in every part of T.
foldStep(rev, base, seq, h, s) ==
  IF s = {} THEN base ELSE initReserve(rev, h[s \ {Max(s)}], seq[Max(s)])
Folds(rev, base, seq, T, h)  == h = [s \in SUBSET T |-> foldStep(rev, base, seq, h, s)]
foldsOf(rev, base, seq, T)   == CHOOSE h : Folds(rev, base, seq, T, h)

\* The fold of the code is that function at all the places.
batchListed(rev, base, seq) == FoldLeft(LAMBDA p, s : initReserve(rev, p, s), base, seq)

LEMMA FoldIsFold ==
    ASSUME NEW rev, NEW base, NEW seq
    PROVE  batchListed(rev, base, seq) = foldsOf(rev, base, seq, DOMAIN seq)[DOMAIN seq]
  BY DEF batchListed, FoldLeft, MapThenFoldSet, foldsOf, Folds, foldStep

\* A finite set of numbers has a greatest one.
LEMMA Greatest ==
    ASSUME NEW S \in SUBSET Nat, IsFiniteSet(S)
    PROVE  \A T \in SUBSET S : T # {} => Max(T) \in T /\ \A y \in T : Max(T) >= y
<1> DEFINE G == {T \in SUBSET S : T # {} => \E x \in T : \A y \in T : x >= y}
<1>1. ASSUME NEW T \in SUBSET S, \A U \in SUBSET T : U # T => U \in G
      PROVE  T \in G
  <2> SUFFICES ASSUME T # {} PROVE \E x \in T : \A y \in T : x >= y
    OBVIOUS
  <2>1. PICK p : p \in T
    OBVIOUS
  <2>2. T \ {p} \in G
    BY <1>1, <2>1
  <2>3. CASE T \ {p} = {}
    BY <2>1, <2>3
  <2>4. CASE T \ {p} # {}
    <3>1. PICK x \in T \ {p} : \A y \in T \ {p} : x >= y
      BY <2>2, <2>4
    <3>2. x \in Nat /\ p \in Nat /\ \A y \in T : y \in Nat
      BY <2>1
    <3>3. CASE x >= p
      BY <3>1, <3>3
    <3>4. CASE p > x
      BY <2>1, <3>1, <3>2, <3>4
    <3> QED
      BY <3>2, <3>3, <3>4
  <2> QED
    BY <2>3, <2>4
<1>2. \A T \in SUBSET S : T \in G
  <2> HIDE DEF G
  <2> QED
    BY <1>1, SubsetInduction
<1> QED
  BY <1>2 DEF Max

\* The greatest of a set is the greatest of every part it is in.
LEMMA GreatestOfPart ==
    ASSUME NEW S \in SUBSET Nat, IsFiniteSet(S), NEW T \in SUBSET S, NEW s \in SUBSET T, Max(T) \in s
    PROVE  Max(s) = Max(T)
<1>1. /\ Max(T) \in T /\ \A y \in T : Max(T) >= y
      /\ Max(s) \in s /\ \A y \in s : Max(s) >= y
  BY Greatest
<1>2. Max(T) >= Max(s) /\ Max(s) >= Max(T)
  BY <1>1
<1>3. Max(T) \in Nat /\ Max(s) \in Nat
  BY <1>1
<1> QED
  BY <1>2, <1>3

\* The recursion has a solution: one for all places but the last gives one for all.
LEMMA FoldExists ==
    ASSUME NEW rev, NEW base, NEW seq, NEW S \in SUBSET Nat, IsFiniteSet(S)
    PROVE  \A T \in SUBSET S : \E h : Folds(rev, base, seq, T, h)
<1> DEFINE G == {T \in SUBSET S : \E h : Folds(rev, base, seq, T, h)}
<1>1. ASSUME NEW T \in SUBSET S, \A U \in SUBSET T : U # T => U \in G
      PROVE  T \in G
  <2>1. CASE T = {}
    <3> DEFINE h == [s \in SUBSET T |-> base]
    <3>1. \A s \in SUBSET T : h[s] = foldStep(rev, base, seq, h, s)
      BY <2>1 DEF foldStep
    <3>2. h = [s \in SUBSET T |-> h[s]]
      OBVIOUS
    <3> HIDE DEF h
    <3>3. h = [s \in SUBSET T |-> foldStep(rev, base, seq, h, s)]
      BY <3>1, <3>2
    <3> QED
      BY <3>3 DEF Folds
  <2>2. CASE T # {}
    <3> DEFINE m == Max(T)
               U == T \ {m}
    <3>1. m \in T /\ \A y \in T : m >= y
      BY <2>2, Greatest
    <3>2. PICK g : Folds(rev, base, seq, U, g)
      BY <1>1, <3>1
    <3> DEFINE h == [s \in SUBSET T |-> IF m \in s THEN initReserve(rev, g[s \ {m}], seq[m])
                                        ELSE g[s]]
    <3>3. ASSUME NEW s \in SUBSET T
          PROVE  h[s] = foldStep(rev, base, seq, h, s)
      <4>1. CASE m \in s
        <5>3. Max(s) = m
          BY <4>1, GreatestOfPart
        <5>4. s \ {m} \in SUBSET T /\ m \notin s \ {m}
          OBVIOUS
        <5>5. h[s \ {m}] = g[s \ {m}]
          BY <5>4
        <5>6. h[s] = initReserve(rev, g[s \ {m}], seq[m])
          BY <4>1
        <5> HIDE DEF h, m
        <5> QED
          BY <4>1, <5>3, <5>5, <5>6 DEF foldStep
      <4>2. CASE m \notin s
        <5>1. s \in SUBSET U /\ h[s] = g[s]
          BY <4>2
        <5>2. g[s] = foldStep(rev, base, seq, g, s)
          BY <3>2, <5>1 DEF Folds
        <5>3. CASE s = {}
          BY <5>1, <5>2, <5>3 DEF foldStep
        <5>4. CASE s # {}
          <6>1. s \ {Max(s)} \in SUBSET T /\ m \notin s \ {Max(s)}
            BY <4>2
          <6>2. h[s \ {Max(s)}] = g[s \ {Max(s)}]
            BY <6>1
          <6> HIDE DEF h, m
          <6> QED
            BY <5>1, <5>2, <5>4, <6>2 DEF foldStep
        <5> QED
          BY <5>3, <5>4
      <4> QED
        BY <4>1, <4>2
    <3>4. h = [s \in SUBSET T |-> h[s]]
      OBVIOUS
    <3> HIDE DEF h
    <3>5. h = [s \in SUBSET T |-> foldStep(rev, base, seq, h, s)]
      BY <3>3, <3>4
    <3> QED
      BY <3>5 DEF Folds
  <2> QED
    BY <2>1, <2>2
<1>2. \A T \in SUBSET S : T \in G
  <2> HIDE DEF G
  <2> QED
    BY <1>1, SubsetInduction
<1> QED
  BY <1>2

\* Listing the reserves of a batch one after the other keeps list and ids a bijection.
LEMMA BatchOrderly ==
    ASSUME NEW rev, NEW pool \in Orderly, NEW assets \in Seq(Symbols)
    PROVE  batchListed(rev, pool, assets) \in Orderly
<1> DEFINE D == DOMAIN assets
           h == foldsOf(rev, pool, assets, D)
           G == {T \in SUBSET D : h[T] \in Orderly}
<1>1. D \in SUBSET Nat /\ IsFiniteSet(D) /\ \A k \in D : assets[k] \in Symbols
  <2>1. D = 1..Len(assets) /\ Len(assets) \in Nat
    OBVIOUS
  <2>2. IsFiniteSet(1..Len(assets))
    BY <2>1, FS_Interval
  <2> QED
    BY <2>1, <2>2
<1>2. Folds(rev, pool, assets, D, h)
  <2>1. \E g : Folds(rev, pool, assets, D, g)
    BY <1>1, FoldExists
  <2> QED
    BY <2>1 DEF foldsOf
<1> HIDE DEF h, D
<1>3. ASSUME NEW T \in SUBSET D, \A U \in SUBSET T : U # T => U \in G
      PROVE  T \in G
  <2>1. h[T] = foldStep(rev, pool, assets, h, T)
    BY <1>2 DEF Folds
  <2>2. CASE T = {}
    BY <2>1, <2>2 DEF foldStep
  <2>3. CASE T # {}
    <3>1. Max(T) \in T
      BY <1>1, <2>3, Greatest
    <3>2. T \ {Max(T)} \in G
      BY <1>3, <3>1
    <3>3. h[T \ {Max(T)}] \in Orderly /\ assets[Max(T)] \in Symbols
      BY <1>1, <3>1, <3>2
    <3>4. initReserve(rev, h[T \ {Max(T)}], assets[Max(T)]) \in Orderly
      BY <3>3, InitReserveOrderly
    <3> QED
      BY <2>1, <2>3, <3>4 DEF foldStep
  <2> QED
    BY <2>2, <2>3
<1>4. \A T \in SUBSET D : T \in G
  <2> HIDE DEF G
  <2> QED
    BY <1>1, <1>3, SubsetInduction
<1>5. h[D] \in Orderly
  BY <1>4
<1> QED
  BY <1>5, FoldIsFold DEF h, D

-----------------------------------------------------------------------------
(* The pools                                                               *)

\* No reserve is listed before the first batch.
LEMMA InitPools == ASSUME Init PROVE PoolsOK
<1> DEFINE empty == [list |-> <<>>, reserves |-> [s \in Symbols |-> noReserve]]
<1>1. pools = [n \in Instances |-> empty]
  BY DEF Init
<1>2. empty \in Orderly
  <2>1. noReserve \in Reserve /\ ~noReserve.listed /\ noReserve.id = 0
    BY DEF noReserve, Reserve
  <2>2. inOrder(<<>>, [s \in Symbols |-> noReserve])
    BY <2>1 DEF inOrder
  <2> QED
    BY <2>2, MadeOrderly
<1> QED
  BY <1>1, <1>2 DEF PoolsOK

\* batchInitReserve lists the reserves of one pool.
LEMMA BatchPools == ASSUME TypeOK, PoolsOK, BatchInitReserve PROVE PoolsOK'
<1>1. item \in Items /\ item.do = "batchInitReserve"
  BY Proceeding DEF BatchInitReserve, perform, doing
<1>2. item.assets \in Seq(Symbols)
  BY <1>1, ItemFields
<1>3. PICK pool : pools' = [pools EXCEPT ![pool[2]] =
                              batchListed(revision["LendingPool"][pool[2]], @, item.assets)]
  BY DEF BatchInitReserve, batchListed
<1>4. pool[2] \in Instances =>
        batchListed(revision["LendingPool"][pool[2]], pools[pool[2]], item.assets) \in Orderly
  BY <1>2, BatchOrderly DEF PoolsOK
<1> QED
  BY <1>3, <1>4 DEF PoolsOK

\* A change of reserves that leaves what is listed and the ids alone.
LEMMA SameListing ==
    ASSUME NEW pool \in Orderly, NEW rs \in [Symbols -> Reserve],
           \A s \in Symbols : /\ rs[s].listed = pool.reserves[s].listed
                              /\ rs[s].id = pool.reserves[s].id
    PROVE  [pool EXCEPT !.reserves = rs] \in Orderly
<1>1. inOrder(pool.list, pool.reserves)
  BY OrderlyParts
<1>2. [pool EXCEPT !.reserves = rs] = [list |-> pool.list, reserves |-> rs]
  <2>1. PICK list, old : pool = [list |-> list, reserves |-> old]
    BY OrderlyParts
  <2> QED
    BY <2>1
<1>3. \A k \in DOMAIN pool.list : pool.list[k] \in Symbols
  BY <1>1 DEF inOrder
<1>4. inOrder(pool.list, rs)
  BY <1>1, <1>3 DEF inOrder
<1> QED
  BY <1>2, <1>4, MadeOrderly

\* configureReserves sets parameters of listed and other reserves.
LEMMA ConfigurePools == ASSUME PoolsOK, ConfigureReserves PROVE PoolsOK'
<1>1. PICK pool : pools' = [pools EXCEPT ![pool[2]].reserves = [s \in Symbols |->
         IF s \in item.assets
         THEN [@[s] EXCEPT !.collateral = (Collateral[s] = "some"), !.borrowing = TRUE]
         ELSE @[s]]]
  BY DEF ConfigureReserves
<1> DEFINE n   == pool[2]
           old == pools[n]
           rs  == [s \in Symbols |->
                     IF s \in item.assets
                     THEN [old.reserves[s] EXCEPT !.collateral = (Collateral[s] = "some"),
                                                  !.borrowing = TRUE]
                     ELSE old.reserves[s]]
<1>2. ASSUME n \in Instances PROVE [old EXCEPT !.reserves = rs] \in Orderly
  <2>1. old \in Orderly
    BY <1>2 DEF PoolsOK
  <2>2. old.reserves \in [Symbols -> Reserve]
    BY <2>1, OrderlyParts DEF inOrder
  <2>3. ASSUME NEW s \in Symbols
        PROVE  rs[s] \in Reserve /\ rs[s].listed = old.reserves[s].listed /\ rs[s].id = old.reserves[s].id
    <3>1. old.reserves[s] \in Reserve
      BY <2>2
    <3> QED
      BY <3>1 DEF Reserve
  <2>4. rs \in [Symbols -> Reserve]
    <3>1. rs = [s \in Symbols |-> rs[s]]
      OBVIOUS
    <3> HIDE DEF rs
    <3> QED
      BY <2>3, <3>1
  <2> HIDE DEF rs, old
  <2> QED
    BY <2>1, <2>3, <2>4, SameListing
<1>3. pools' = [pools EXCEPT ![n] = [old EXCEPT !.reserves = rs]]
  BY <1>1
<1> HIDE DEF n, old, rs
<1> QED
  BY <1>2, <1>3 DEF PoolsOK

\* A deposit makes a reserve liquid.
LEMMA DepositPools == ASSUME PoolsOK, Deposit PROVE PoolsOK'
<1>1. PICK n \in Instances, s \in Symbols :
        pools' = [pools EXCEPT ![n].reserves[s].liquid = TRUE]
  BY DEF Deposit
<1> DEFINE old == pools[n]
           r   == [old.reserves[s] EXCEPT !.liquid = TRUE]
           rs  == [old.reserves EXCEPT ![s] = r]
<1>2. old \in Orderly
  BY DEF PoolsOK
<1>3. old.reserves \in [Symbols -> Reserve]
  BY <1>2, OrderlyParts DEF inOrder
<1>4. r \in Reserve /\ r.listed = old.reserves[s].listed /\ r.id = old.reserves[s].id
  <2>1. old.reserves[s] \in Reserve
    BY <1>3
  <2> QED
    BY <2>1 DEF Reserve
<1>5. /\ rs \in [Symbols -> Reserve]
      /\ \A z \in Symbols : rs[z].listed = old.reserves[z].listed /\ rs[z].id = old.reserves[z].id
  <2> HIDE DEF r
  <2> QED
    BY <1>3, <1>4
<1>6. [old EXCEPT !.reserves = rs] \in Orderly
  <2> HIDE DEF rs, old
  <2> QED
    BY <1>2, <1>5, SameListing
<1>7. pools' = [pools EXCEPT ![n] = [old EXCEPT !.reserves = rs]]
  BY <1>1
<1> HIDE DEF old, rs
<1> QED
  BY <1>6, <1>7 DEF PoolsOK

\* Every step keeps list and ids of every pool a bijection.
LEMMA NextPools == ASSUME TypeOK, PoolsOK, [Next]_vars PROVE PoolsOK'
<1>1. CASE BatchInitReserve
  BY <1>1, BatchPools
<1>2. CASE ConfigureReserves
  BY <1>2, ConfigurePools
<1>3. CASE Deposit
  BY <1>3, DepositPools
<1>4. CASE UNCHANGED pools
  BY <1>4 DEF PoolsOK
<1>5. ASSUME \/ SaveDeploymentCallData \/ DeployToOasysTestnet \/ RegisterContractAddress
             \/ SetAddress \/ Authorize \/ InitializeOnce \/ SetImpl \/ InsertProxyAddress
             \/ CollectReserves \/ Throw \/ RunStage \/ Crash \/ Operate \/ UNCHANGED vars
      PROVE  UNCHANGED pools
  BY <1>5 DEF SaveDeploymentCallData, DeployToOasysTestnet, RegisterContractAddress, SetAddress,
       Authorize, InitializeOnce, SetImpl, InsertProxyAddress, CollectReserves, Throw, RunStage,
       Crash, Operate, abandoned, chain, vars
<1> QED
  BY <1>1, <1>2, <1>3, <1>4, <1>5 DEF Next, Step

-----------------------------------------------------------------------------
(* What stands                                                             *)

\* The conditions a launch establishes: what a contract holds in a field ("is"), what it holds among
\* other things ("has"), and what the pool of the provider keeps of a reserve.
Is(on, field, to)  == [kind |-> "is", on |-> on, field |-> field, to |-> to]
Has(on, field, to) == [kind |-> "has", on |-> on, field |-> field, to |-> to]
Of(kind, s)        == [kind |-> kind, on |-> Provider, field |-> "LendingPool", to |-> s]

\* What the prices and the rates of the market come from.
SourceSet     == Has("PriceAggregatorAdapterChainsightImpl", "source", "ChainsightOracle")
AggregatorSet == Is("PalmyOracle", "priceAggregator", "PriceAggregatorAdapterChainsightImpl")
RatesSet      == {Has("LendingRateOracle", "borrowRate", s) : s \in getLendingRateOracles}

\* What the tasks write into contracts; what the proxies hold follows from it.
Written == {Is(w[1], w[2], w[3]) : w \in {x \in Wiring : x[1] \notin Proxies}}
             \cup {Has(w[1], w[2], w[3]) : w \in Authorizations} \cup RatesSet

PoolKinds  == {"listed", "borrowing", "plain", "absent"}
Conditions == Written \cup {Of(kind, s) : kind \in PoolKinds, s \in Symbols}

Stands(c) ==
  \/ /\ c.kind = "is" /\ db[c.on] # 0 /\ named(resolve(c.on), c.field) = {resolve(c.to)}
  \/ /\ c.kind = "has" /\ db[c.on] # 0 /\ resolve(c.to) \in named(resolve(c.on), c.field)
  \/ /\ c.kind = "listed" /\ c.to \in ReserveAssets
     /\ \E a \in livePool : pools[a[2]].reserves[c.to].listed
  \/ c.kind = "borrowing" /\ \E a \in livePool : pools[a[2]].reserves[c.to].borrowing
  \/ c.kind = "plain" /\ \A a \in livePool : ~pools[a[2]].reserves[c.to].collateral
  \/ c.kind = "absent" /\ \A a \in livePool : ~pools[a[2]].reserves[c.to].listed

\* The assets of a step.
among(s, assets) == \E k \in DOMAIN assets : assets[k] = s

\* After which steps a condition stands, and which may undo it.
Establishes(i, c) ==
  \/ /\ i.do = "set" /\ c.kind \in {"is", "has"}
     /\ i.on = c.on /\ i.field = c.field /\ i.to = {c.to}
  \/ /\ i.do = "authorize" /\ c.kind = "has"
     /\ i.on = c.on /\ i.field = c.field /\ c.to \in i.to
  \/ /\ i.do = "initialize" /\ c.kind \in {"is", "has"}
     /\ i.on = c.on /\ {f \in i.fields : f[1] = c.field} = {<<c.field, c.to>>}
  \/ i.do = "insertProxy" /\ c = Is(Provider, i.id, i.id)
  \/ i.do = "setImpl" /\ i.impl = "LendingPoolImpl" /\ c.kind \in {"plain", "absent"}
  \/ i.do = "batchInitReserve" /\ c.kind = "listed" /\ among(c.to, i.assets)
  \/ /\ i.do = "collect" /\ c.kind = "borrowing"
     /\ among(c.to, i.assets) /\ Collateral[c.to] # "skipped"
  \/ i.do = "configure" /\ c.kind = "borrowing" /\ c.to \in i.assets

Disturbs(i, c) ==
  \/ /\ i.do \in {"set", "authorize"} /\ c.kind \in {"is", "has"}
     /\ i.on = c.on /\ i.field = c.field
  \/ /\ i.do = "initialize" /\ c.kind \in {"is", "has"}
     /\ i.on = c.on /\ \E f \in i.fields : f[1] = c.field
  \/ i.do = "insertProxy" /\ c.kind \in {"is", "has"} /\ i.id = c.to
  \/ i.do = "register" /\ i.id \in {c.on, c.to}
  \/ i.do = "batchInitReserve" /\ c.kind = "absent" /\ among(c.to, i.assets)
  \/ i.do = "collect" /\ c.kind = "plain" /\ among(c.to, i.assets)
  \/ i.do = "configure" /\ c.kind = "plain" /\ c.to \in i.assets

\* The condition stands when the k-th step of the script is its next: it stands now and nothing
\* undoes it before, or it is established before and not undone after.
DueIf(now, s, k, c) ==
  \/ now /\ \A i \in 1..k - 1 : ~Disturbs(s[i], c)
  \/ \E j \in 1..k - 1 : /\ Establishes(s[j], c)
                         /\ \A i \in j + 1..k - 1 : ~Disturbs(s[i], c)

DueAt(s, k, c) == DueIf(Stands(c), s, k, c)
Due(s, c) == DueAt(s, Len(s) + 1, c)

-----------------------------------------------------------------------------
(* What the steps rely on                                                  *)

Priced  == {Is(Provider, "PRICE_ORACLE", "PalmyOracle"),
            Is(Provider, "LENDING_RATE_ORACLE", "LendingRateOracle"), SourceSet, AggregatorSet} \cup RatesSet
Core    == Priced \cup {Is(Provider, "LendingPoolConfigurator", "LendingPoolConfigurator"),
                        Is("LTokensAndRatesHelper", "poolConfigurator", "LendingPoolConfigurator")}

needs(i, stage) ==
  CASE i.do = "setImpl" /\ i.impl = "LendingPoolConfiguratorImpl" ->
         {Is(Provider, "LendingPool", "LendingPool")}
    [] i.do = "set" /\ i.on = "PalmyOracle" /\ i.field = "priceAggregator" -> {SourceSet}
    [] i.do = "set" /\ i.on = Provider /\ i.field = "PRICE_ORACLE" -> {SourceSet, AggregatorSet}
    [] i.do = "set" /\ i.on = Provider /\ i.field = "LENDING_RATE_ORACLE" -> RatesSet
    [] i.do = "batchInitReserve" -> Core
    [] i.do = "collect" ->
         Core \cup {Of(kind, s) : kind \in {"listed"} \cup (IF stage = 3 THEN {"plain"} ELSE {}),
                                  s \in {x \in Symbols : among(x, i.assets)}}
    [] i.do = "configure" -> Core \cup {Of("listed", s) : s \in i.assets}
    [] OTHER -> {}

\* Whatever a step relies on stands when the step is performed.
Ready == \A k \in DOMAIN script : \A c \in needs(script[k], next) : DueAt(script, k, c)

\* What the launch leaves behind.
Achieved == Written \cup {Of("listed", s) : s \in {x \in Symbols : among(x, Launch)}}
  \cup {Of("borrowing", s) : s \in {x \in Symbols : among(x, Launch) /\ Collateral[x] # "skipped"}}
  \cup {Of("absent", s) : s \in {x \in Symbols : ~among(x, Launch)}}

Launching == next = 3 /\ script # <<>> => \A c \in Achieved : Due(script, c)
Running == next = Launched =>
             /\ \A c \in Core : Stands(c) /\ \A k \in DOMAIN script : ~Disturbs(script[k], c)
             /\ operations = 0 => script = <<>> /\ \A c \in Written : Stands(c)

\* Oracles are what the fields for oracles hold.
aims(field, t) ==
  /\ field = "PRICE_ORACLE" => t = "PalmyOracle"
  /\ field = "LENDING_RATE_ORACLE" => t = "LendingRateOracle"
  /\ field = "priceAggregator" => t = "PriceAggregatorAdapterChainsightImpl"

\* The steps are of the stage.
Closing == Head(initialize("UiPoolDataProviderV2",
             {<<"priceAggregator", "PriceAggregatorAdapterChainsightImpl">>}))
fits(i, stage) ==
  /\ i.do = "set" => i.to # {} /\ i.field \notin {"source", "borrowRate"}
  /\ i.do \in {"set", "authorize"} => \A t \in i.to : aims(i.field, t)
  /\ i.do = "initialize" => i.on # Provider /\ \A f \in i.fields : aims(f[1], f[2])
  /\ (i.do = "register" /\ i.id = Provider) => stage = 2
Shaped ==
  /\ \A k \in DOMAIN script : fits(script[k], next)
  /\ (next = 3 /\ script # <<>>) => script[Len(script)] = Closing

-----------------------------------------------------------------------------
(* The provider and its proxies                                            *)

OneProxy == \A n \in Instances, p \in Proxies :
  \A a, b \in named(<<Provider, n>>, p) : a = b

OfProvider == \A n \in Instances, p \in Proxies :
  \A a \in named(<<Provider, n>>, p) :
     /\ named(a, "addressesProvider") = {<<Provider, n>>}
     /\ p = "LendingPoolConfigurator" =>
          named(<<Provider, n>>, "LendingPool") # {} /\ named(a, "pool") = named(<<Provider, n>>, "LendingPool")

Constructor == {"owner", "library"}
Fresh == /\ \A id \in Ids : \A refs \in calldata[id] : \A r \in refs : r[1] \in Constructor
         /\ \A n \in Instances : n > db[Provider] => \A r \in storage[Provider][n] : r[1] \in Constructor

Revised == \A n \in Instances : n <= deployed["LendingPool"] => revision["LendingPool"][n] >= 2

Pristine == \A n \in Instances, s \in Symbols :
  LET r == pools[n].reserves[s]
  IN /\ n > deployed["LendingPool"] => ~r.listed /\ ~r.borrowing /\ ~r.collateral
     /\ r.borrowing => r.listed
-----------------------------------------------------------------------------
(* The steps of the launch, one by one                                     *)

\* One script after the other: its steps are those of the first and then those of the second.
LEMMA Joined ==
    ASSUME NEW s \in Seq(Items), NEW t \in Seq(Items)
    PROVE  /\ s \o t \in Seq(Items) /\ Len(s \o t) = Len(s) + Len(t)
           /\ Len(s) \in Nat /\ Len(t) \in Nat
           /\ \A k \in 1..Len(s) : (s \o t)[k] = s[k]
           /\ \A k \in 1..Len(t) : (s \o t)[Len(s) + k] = t[k]
OBVIOUS

\* Three single steps, and six, and nine.
Three(s, a, b, c) == s \in Seq(Items) /\ Len(s) = 3 /\ s[1] = a /\ s[2] = b /\ s[3] = c

LEMMA ThreeSteps ==
    ASSUME NEW a \in Items, NEW b \in Items, NEW c \in Items
    PROVE  Three(<<a>> \o <<b>> \o <<c>>, a, b, c)
BY DEF Three

Six(s, a, b, c, d, e, f) ==
  /\ s \in Seq(Items) /\ Len(s) = 6
  /\ s[1] = a /\ s[2] = b /\ s[3] = c /\ s[4] = d /\ s[5] = e /\ s[6] = f

LEMMA SixSteps ==
    ASSUME NEW a \in Items, NEW b \in Items, NEW c \in Items, NEW d \in Items, NEW e \in Items,
           NEW f \in Items
    PROVE  Six(<<a>> \o <<b>> \o <<c>> \o <<d>> \o <<e>> \o <<f>>, a, b, c, d, e, f)
BY DEF Six

\* Two steps more.
Longer(t, s, e, f) ==
  /\ t \in Seq(Items) /\ Len(t) = Len(s) + 2 /\ \A k \in 1..Len(s) : t[k] = s[k]
  /\ t[Len(s) + 1] = e /\ t[Len(s) + 2] = f

LEMMA TwoMore ==
    ASSUME NEW s \in Seq(Items), NEW e \in Items, NEW f \in Items
    PROVE  Longer(s \o <<e>> \o <<f>>, s, e, f)
BY DEF Longer

\* The steps as records.
doCall(kind, on, field, targets, by) ==
  [do |-> kind, on |-> on, field |-> field, to |-> targets, by |-> by]
doInitialize(on, fields) ==
  [do |-> "initialize", on |-> on, fields |-> fields, by |-> "deployer"]
doSetImpl(impl)    == [do |-> "setImpl", impl |-> impl]
doInsertProxy(id)  == [do |-> "insertProxy", id |-> id]
doBatch(assets)    == [do |-> "batchInitReserve", assets |-> assets]
doCollect(assets)  == [do |-> "collect", assets |-> assets]
doConfigure(assets) == [do |-> "configure", assets |-> assets]

\* The records are steps.
LEMMA RecordsTyped ==
    /\ \A kind \in {"set", "authorize"}, on \in Contracts, field \in Fields, targets \in SUBSET Names,
          by \in Accounts : doCall(kind, on, field, targets, by) \in Items
    /\ \A on \in Contracts, fields \in SUBSET (Fields \X Names) : doInitialize(on, fields) \in Items
    /\ \A impl \in {"LendingPoolImpl", "LendingPoolTmpImpl", "LendingPoolV4Impl",
                    "LendingPoolConfiguratorImpl"} : doSetImpl(impl) \in Items
    /\ \A id \in Proxies : doInsertProxy(id) \in Items
    /\ \A assets \in Seq(Symbols) : doBatch(assets) \in Items /\ doCollect(assets) \in Items
    /\ \A assets \in SUBSET Symbols : doConfigure(assets) \in Items
<1>1. \A kind \in {"set", "authorize"}, on \in Contracts, field \in Fields,
         targets \in SUBSET Names, by \in Accounts : doCall(kind, on, field, targets, by) \in Items
  BY DEF Items, doCall
<1>2. \A on \in Contracts, fields \in SUBSET (Fields \X Names) : doInitialize(on, fields) \in Items
  BY DEF Items, doInitialize, Accounts
<1>3. \A impl \in {"LendingPoolImpl", "LendingPoolTmpImpl", "LendingPoolV4Impl",
                   "LendingPoolConfiguratorImpl"} : doSetImpl(impl) \in Items
  BY DEF Items, doSetImpl
<1>4. \A id \in Proxies : doInsertProxy(id) \in Items
  BY DEF Items, doInsertProxy
<1>5. \A assets \in Seq(Symbols) : doBatch(assets) \in Items /\ doCollect(assets) \in Items
  BY DEF Items, doBatch, doCollect
<1>6. \A assets \in SUBSET Symbols : doConfigure(assets) \in Items
  BY DEF Items, doConfigure
<1> QED
  BY <1>1, <1>2, <1>3, <1>4, <1>5, <1>6

\* Registering the provider and setting its admins.
LEMMA AddressProviderSteps ==
    Three(addressProviderTask,
          doCall("authorize", "LendingPoolAddressesProviderRegistry", "provider", {Provider}, "deployer"),
          doCall("set", Provider, "POOL_ADMIN", {"deployer"}, "deployer"),
          doCall("set", Provider, "EMERGENCY_ADMIN", {"emergencyAdmin"}, "deployer"))
<1>1. /\ doCall("authorize", "LendingPoolAddressesProviderRegistry", "provider", {Provider}, "deployer")
           \in Items
      /\ doCall("set", Provider, "POOL_ADMIN", {"deployer"}, "deployer") \in Items
      /\ doCall("set", Provider, "EMERGENCY_ADMIN", {"emergencyAdmin"}, "deployer") \in Items
  BY DeploymentNames, InitializationNames, RecordsTyped DEF Accounts, Fields
<1> QED
  BY <1>1, ThreeSteps DEF addressProviderTask, authorize, set, call, doCall

\* Creating the proxies and initializing the helpers.
LEMMA LendingPoolSteps ==
    Six(lendingPoolTask,
        doSetImpl("LendingPoolImpl"), doInsertProxy("LendingPool"),
        doSetImpl("LendingPoolConfiguratorImpl"), doInsertProxy("LendingPoolConfigurator"),
        doInitialize("StableAndVariableTokensHelper",
          {<<"pool", "LendingPool">>, <<"addressesProvider", Provider>>}),
        doInitialize("LTokensAndRatesHelper",
          {<<"pool", "LendingPool">>, <<"addressesProvider", Provider>>,
           <<"poolConfigurator", "LendingPoolConfigurator">>}))
<1>1. /\ doInitialize("StableAndVariableTokensHelper",
           {<<"pool", "LendingPool">>, <<"addressesProvider", Provider>>}) \in Items
      /\ doInitialize("LTokensAndRatesHelper",
           {<<"pool", "LendingPool">>, <<"addressesProvider", Provider>>,
            <<"poolConfigurator", "LendingPoolConfigurator">>}) \in Items
  BY DeploymentNames, InitializationNames, RecordsTyped DEF Fields
<1>2. /\ doSetImpl("LendingPoolImpl") \in Items /\ doInsertProxy("LendingPool") \in Items
      /\ doSetImpl("LendingPoolConfiguratorImpl") \in Items
      /\ doInsertProxy("LendingPoolConfigurator") \in Items
  BY InitializationNames, RecordsTyped
<1> QED
  BY <1>1, <1>2, SixSteps
     DEF lendingPoolTask, setImpl, insertProxy, initialize, doSetImpl, doInsertProxy, doInitialize

\* Setting the market rates: the helper owns the rate oracle for the time.
LEMMA MarketRateSteps ==
    Three(setInitialMarketRates,
          doCall("set", "LendingRateOracle", "owner", {"StableAndVariableTokensHelper"}, "deployer"),
          doCall("authorize", "LendingRateOracle", "borrowRate", getLendingRateOracles,
                 "StableAndVariableTokensHelper"),
          doCall("set", "LendingRateOracle", "owner", {"deployer"}, "StableAndVariableTokensHelper"))
<1>1. /\ doCall("set", "LendingRateOracle", "owner", {"StableAndVariableTokensHelper"}, "deployer")
           \in Items
      /\ doCall("authorize", "LendingRateOracle", "borrowRate", getLendingRateOracles,
                "StableAndVariableTokensHelper") \in Items
      /\ doCall("set", "LendingRateOracle", "owner", {"deployer"}, "StableAndVariableTokensHelper")
           \in Items
  BY DeploymentNames, InitializationNames, RecordsTyped DEF Accounts, Fields, getLendingRateOracles
<1> QED
  BY <1>1, ThreeSteps DEF setInitialMarketRates, set, call, doCall

\* Setting up the oracles.
LEMMA OracleSteps ==
    /\ oracleTask \in Seq(Items) /\ Len(oracleTask) = 9
    /\ oracleTask[1] = doCall("authorize", "PriceAggregatorAdapterChainsightImpl", "source",
                              {"ChainsightOracle"}, "deployer")
    /\ oracleTask[2] = doCall("authorize", "PalmyFallbackOracle", "sybil", {"deployer"}, "deployer")
    /\ oracleTask[3] = doInitialize("PalmyOracle",
                         {<<"priceAggregator", "PriceAggregatorAdapterChainsightImpl">>,
                          <<"fallbackOracle", "PalmyFallbackOracle">>})
    /\ oracleTask[4] = doCall("set", "PalmyOracle", "priceAggregator",
                              {"PriceAggregatorAdapterChainsightImpl"}, "deployer")
    /\ \A k \in 1..3 : oracleTask[4 + k] = setInitialMarketRates[k]
    /\ oracleTask[8] = doCall("set", Provider, "PRICE_ORACLE", {"PalmyOracle"}, "deployer")
    /\ oracleTask[9] = doCall("set", Provider, "LENDING_RATE_ORACLE", {"LendingRateOracle"}, "deployer")
<1> DEFINE a == doCall("authorize", "PriceAggregatorAdapterChainsightImpl", "source",
                       {"ChainsightOracle"}, "deployer")
           b == doCall("authorize", "PalmyFallbackOracle", "sybil", {"deployer"}, "deployer")
           c == doInitialize("PalmyOracle",
                         {<<"priceAggregator", "PriceAggregatorAdapterChainsightImpl">>,
                          <<"fallbackOracle", "PalmyFallbackOracle">>})
           d == doCall("set", "PalmyOracle", "priceAggregator",
                       {"PriceAggregatorAdapterChainsightImpl"}, "deployer")
           e == doCall("set", Provider, "PRICE_ORACLE", {"PalmyOracle"}, "deployer")
           f == doCall("set", Provider, "LENDING_RATE_ORACLE", {"LendingRateOracle"}, "deployer")
           m == setInitialMarketRates
<1>1. a \in Items /\ b \in Items /\ c \in Items /\ d \in Items /\ e \in Items /\ f \in Items
  BY DeploymentNames, InitializationNames, RecordsTyped DEF Accounts, Fields
<1>2. m \in Seq(Items) /\ Len(m) = 3
  BY MarketRateSteps DEF Three
<1>3. oracleTask = <<a>> \o <<b>> \o <<c>> \o <<d>> \o m \o <<e>> \o <<f>>
  BY DEF oracleTask, authorize, set, call, initialize, doCall, doInitialize
<1> HIDE DEF a, b, c, d, e, f, m
<1>4. LET s == <<a>> \o <<b>> \o <<c>> \o <<d>>
      IN s \in Seq(Items) /\ Len(s) = 4 /\ s[1] = a /\ s[2] = b /\ s[3] = c /\ s[4] = d
  BY <1>1
<1>5. LET s == <<a>> \o <<b>> \o <<c>> \o <<d>> \o m
      IN /\ s \in Seq(Items) /\ Len(s) = 7 /\ s[1] = a /\ s[2] = b /\ s[3] = c /\ s[4] = d
         /\ s[5] = m[1] /\ s[6] = m[2] /\ s[7] = m[3]
  <2> DEFINE s == <<a>> \o <<b>> \o <<c>> \o <<d>>
  <2> HIDE DEF s
  <2>1. s \in Seq(Items) /\ Len(s) = 4 /\ s[1] = a /\ s[2] = b /\ s[3] = c /\ s[4] = d
    BY <1>4 DEF s
  <2>2. /\ s \o m \in Seq(Items) /\ Len(s \o m) = 7
        /\ \A k \in 1..4 : (s \o m)[k] = s[k]
        /\ \A k \in 1..3 : (s \o m)[4 + k] = m[k]
    <3>1. /\ s \o m \in Seq(Items) /\ Len(s \o m) = Len(s) + Len(m)
          /\ \A k \in 1..Len(s) : (s \o m)[k] = s[k]
          /\ \A k \in 1..Len(m) : (s \o m)[Len(s) + k] = m[k]
      BY <1>2, <2>1, Joined
    <3> HIDE DEF m
    <3> QED
      BY <1>2, <2>1, <3>1
  <2>3. (s \o m)[4 + 1] = m[1] /\ (s \o m)[4 + 2] = m[2] /\ (s \o m)[4 + 3] = m[3]
    BY <2>2
  <2> QED
    BY <2>1, <2>2, <2>3 DEF s
<1>6. LET s == <<a>> \o <<b>> \o <<c>> \o <<d>> \o m \o <<e>> \o <<f>>
      IN /\ s \in Seq(Items) /\ Len(s) = 9 /\ s[1] = a /\ s[2] = b /\ s[3] = c /\ s[4] = d
         /\ s[5] = m[1] /\ s[6] = m[2] /\ s[7] = m[3] /\ s[8] = e /\ s[9] = f
  <2> DEFINE s == <<a>> \o <<b>> \o <<c>> \o <<d>> \o m
  <2> HIDE DEF s
  <2>1. /\ s \in Seq(Items) /\ Len(s) = 7 /\ s[1] = a /\ s[2] = b /\ s[3] = c /\ s[4] = d
        /\ s[5] = m[1] /\ s[6] = m[2] /\ s[7] = m[3]
    BY <1>5 DEF s
  <2>2. LET t == s \o <<e>> \o <<f>>
        IN /\ t \in Seq(Items) /\ Len(t) = 9 /\ \A k \in 1..7 : t[k] = s[k]
           /\ t[8] = e /\ t[9] = f
    <3>1. Longer(s \o <<e>> \o <<f>>, s, e, f)
      BY <1>1, <2>1, TwoMore
    <3> QED
      BY <2>1, <3>1 DEF Longer
  <2> QED
    BY <2>1, <2>2 DEF s
<1>7. \A k \in 1..3 : k = 1 \/ k = 2 \/ k = 3
  OBVIOUS
<1>8. oracleTask[4 + 1] = m[1] /\ oracleTask[4 + 2] = m[2] /\ oracleTask[4 + 3] = m[3]
  BY <1>3, <1>6
<1> QED
  BY <1>3, <1>6, <1>7, <1>8 DEF a, b, c, d, e, f, m

\* Listing and configuring the reserves of the launch, and what is left to set.
LEMMA MiscSteps ==
    /\ miscTask \in Seq(Items) /\ Len(miscTask) = 7
    /\ miscTask[1] = doBatch(Launch) /\ miscTask[2] = doCollect(Launch)
    /\ miscTask[3] = doCall("set", Provider, "LENDING_POOL_COLLATERAL_MANAGER",
                            {"LendingPoolCollateralManager"}, "deployer")
    /\ miscTask[4] = doCall("set", Provider, "DATA_PROVIDER", {"PalmyProtocolDataProvider"}, "deployer")
    /\ miscTask[5] = doCall("authorize", "WETHGateway", "lendingPool", {"LendingPool"}, "deployer")
    /\ miscTask[6] = doInitialize("StakeUIHelper", {<<"priceOracle", "PalmyOracle">>})
    /\ miscTask[7] = Closing
<1> DEFINE a == doBatch(Launch)
           b == doCollect(Launch)
           c == doCall("set", Provider, "LENDING_POOL_COLLATERAL_MANAGER",
                       {"LendingPoolCollateralManager"}, "deployer")
           d == doCall("set", Provider, "DATA_PROVIDER", {"PalmyProtocolDataProvider"}, "deployer")
           e == doCall("authorize", "WETHGateway", "lendingPool", {"LendingPool"}, "deployer")
           f == doInitialize("StakeUIHelper", {<<"priceOracle", "PalmyOracle">>})
           g == doInitialize("UiPoolDataProviderV2",
                  {<<"priceAggregator", "PriceAggregatorAdapterChainsightImpl">>})
<1>1. a \in Items /\ b \in Items
  BY AssetsTyped, RecordsTyped
<1>2. c \in Items /\ d \in Items /\ e \in Items /\ f \in Items /\ g \in Items
  BY DeploymentNames, InitializationNames, RecordsTyped DEF Accounts, Fields
<1>3. miscTask = <<a>> \o <<b>> \o <<c>> \o <<d>> \o <<e>> \o <<f>> \o <<g>>
  BY DEF miscTask, authorize, set, call, initialize, batchInitReserve, configureReservesByHelper,
         doCall, doInitialize, doBatch, doCollect
<1>4. Closing = g
  BY DEF Closing, initialize, doInitialize
<1> HIDE DEF a, b, c, d, e, f, g
<1>5. LET s == <<a>> \o <<b>> \o <<c>> \o <<d>> \o <<e>> \o <<f>> \o <<g>>
      IN /\ s \in Seq(Items) /\ Len(s) = 7 /\ s[1] = a /\ s[2] = b /\ s[3] = c /\ s[4] = d
         /\ s[5] = e /\ s[6] = f /\ s[7] = g
  BY <1>1, <1>2
<1> QED
  BY <1>3, <1>4, <1>5 DEF a, b, c, d, e, f

\* Initializing the data provider.
LEMMA DataProviderSteps ==
    /\ dataProviderTask \in Seq(Items) /\ Len(dataProviderTask) = 1
    /\ dataProviderTask[1] =
         doInitialize("PalmyProtocolDataProvider", {<<"addressesProvider", Provider>>})
<1>1. doInitialize("PalmyProtocolDataProvider", {<<"addressesProvider", Provider>>}) \in Items
  BY DeploymentNames, InitializationNames, RecordsTyped DEF Fields
<1> QED
  BY <1>1 DEF dataProviderTask, initialize, doInitialize

\* All of them, in order.
LEMMA Places ==
    /\ initializationTask \in Seq(Items) /\ Len(initializationTask) = 26
    /\ \A k \in 1..3 : initializationTask[k] = addressProviderTask[k]
    /\ \A k \in 1..6 : initializationTask[3 + k] = lendingPoolTask[k]
    /\ \A k \in 1..9 : initializationTask[9 + k] = oracleTask[k]
    /\ initializationTask[19] = dataProviderTask[1]
    /\ \A k \in 1..7 : initializationTask[19 + k] = miscTask[k]
<1> DEFINE s == addressProviderTask \o lendingPoolTask
           t == s \o oracleTask
           u == t \o dataProviderTask
           w == u \o miscTask
<1>1. /\ addressProviderTask \in Seq(Items) /\ Len(addressProviderTask) = 3
      /\ lendingPoolTask \in Seq(Items) /\ Len(lendingPoolTask) = 6
  BY AddressProviderSteps, LendingPoolSteps DEF Three, Six
<1>2. /\ oracleTask \in Seq(Items) /\ Len(oracleTask) = 9
      /\ dataProviderTask \in Seq(Items) /\ Len(dataProviderTask) = 1
      /\ miscTask \in Seq(Items) /\ Len(miscTask) = 7
  BY OracleSteps, DataProviderSteps, MiscSteps
<1>3. /\ s \in Seq(Items) /\ Len(s) = 9
      /\ \A k \in 1..3 : s[k] = addressProviderTask[k]
      /\ \A k \in 1..6 : s[3 + k] = lendingPoolTask[k]
  <2>1. /\ s \in Seq(Items) /\ Len(s) = Len(addressProviderTask) + Len(lendingPoolTask)
        /\ \A k \in 1..Len(addressProviderTask) : s[k] = addressProviderTask[k]
        /\ \A k \in 1..Len(lendingPoolTask) : s[Len(addressProviderTask) + k] = lendingPoolTask[k]
    BY <1>1, Joined
  <2> HIDE DEF s
  <2> QED
    BY <1>1, <2>1
<1>4. /\ t \in Seq(Items) /\ Len(t) = 18
      /\ \A k \in 1..9 : t[k] = s[k]
      /\ \A k \in 1..9 : t[9 + k] = oracleTask[k]
  <2> HIDE DEF s
  <2>1. /\ t \in Seq(Items) /\ Len(t) = Len(s) + Len(oracleTask)
        /\ \A k \in 1..Len(s) : t[k] = s[k]
        /\ \A k \in 1..Len(oracleTask) : t[Len(s) + k] = oracleTask[k]
    BY <1>2, <1>3, Joined
  <2> HIDE DEF t
  <2> QED
    BY <1>2, <1>3, <2>1
<1>5. /\ u \in Seq(Items) /\ Len(u) = 19
      /\ \A k \in 1..18 : u[k] = t[k]
      /\ u[19] = dataProviderTask[1]
  <2> HIDE DEF t
  <2>1. /\ u \in Seq(Items) /\ Len(u) = Len(t) + Len(dataProviderTask)
        /\ \A k \in 1..Len(t) : u[k] = t[k]
        /\ \A k \in 1..Len(dataProviderTask) : u[Len(t) + k] = dataProviderTask[k]
    BY <1>2, <1>4, Joined
  <2> HIDE DEF u
  <2>2. \A k \in 1..1 : u[18 + k] = dataProviderTask[k]
    BY <1>2, <1>4, <2>1
  <2>3. u[18 + 1] = dataProviderTask[1]
    BY <2>2
  <2> QED
    BY <1>2, <1>4, <2>1, <2>3
<1>6. /\ w \in Seq(Items) /\ Len(w) = 26
      /\ \A k \in 1..19 : w[k] = u[k]
      /\ \A k \in 1..7 : w[19 + k] = miscTask[k]
  <2> HIDE DEF u
  <2>1. /\ w \in Seq(Items) /\ Len(w) = Len(u) + Len(miscTask)
        /\ \A k \in 1..Len(u) : w[k] = u[k]
        /\ \A k \in 1..Len(miscTask) : w[Len(u) + k] = miscTask[k]
    BY <1>2, <1>5, Joined
  <2> HIDE DEF w
  <2> QED
    BY <1>2, <1>5, <2>1
<1>7. initializationTask = w
  BY DEF initializationTask
<1> DEFINE v == initializationTask
<1> HIDE DEF s, t, u, v, w
<1>8. /\ v \in Seq(Items) /\ Len(v) = 26
      /\ \A k \in 1..19 : v[k] = u[k]
      /\ \A k \in 1..7 : v[19 + k] = miscTask[k]
  BY <1>6, <1>7 DEF v
<1>9. /\ \A k \in 1..9 : v[k] = s[k] 
      /\ \A k \in 1..9 : v[9 + k] = oracleTask[k]
      /\ v[19] = dataProviderTask[1]
  <2>1. ASSUME NEW k \in 1..18 PROVE v[k] = t[k]
    <3>1. k \in 1..19
      OBVIOUS
    <3>2. v[k] = u[k] /\ u[k] = t[k]
      BY <1>5, <1>8, <3>1
    <3> QED
      BY <3>2
  <2>2. v[19] = u[19]
    BY <1>8
  <2> QED
    BY <1>4, <1>5, <2>1, <2>2
<1>10. /\ \A k \in 1..3 : v[k] = addressProviderTask[k]
       /\ \A k \in 1..6 : v[3 + k] = lendingPoolTask[k]
  BY <1>3, <1>9
<1> QED
  BY <1>8, <1>9, <1>10 DEF v

-----------------------------------------------------------------------------
(* What is due when the script goes on                                     *)

\* The steps after the first.
LEMMA Rest ==
    ASSUME NEW s \in Seq(Items), s # <<>>
    PROVE  /\ Tail(s) \in Seq(Items) /\ Len(Tail(s)) = Len(s) - 1
           /\ Len(s) \in Nat /\ Len(s) >= 1
           /\ Head(s) = s[1]
           /\ \A k \in 1..Len(s) - 1 : Tail(s)[k] = s[k + 1]
OBVIOUS

\* What is due now stands.
LEMMA DueNow ==
    ASSUME NEW now \in BOOLEAN, NEW s, NEW c
    PROVE  DueIf(now, s, 1, c) <=> now
BY DEF DueIf

\* After a step that establishes what it should and keeps what it does not disturb, what was due is
\* due one step earlier.
LEMMA DueStep ==
    ASSUME NEW s \in Seq(Items), s # <<>>, NEW c, NEW k, k \in 2..Len(s) + 1,
           NEW now \in BOOLEAN, NEW then \in BOOLEAN,
           Establishes(s[1], c) => then, now /\ ~Disturbs(s[1], c) => then,
           DueIf(now, s, k, c)
    PROVE  DueIf(then, Tail(s), k - 1, c)
<1> DEFINE t == Tail(s)
<1>1. Len(s) \in Nat /\ k \in Nat /\ \A i \in 1..Len(s) - 1 : t[i] = s[i + 1]
  BY Rest
<1> HIDE DEF t
<1>2. \A i \in 1..(k - 1) - 1 : t[i] = s[i + 1] /\ i + 1 \in 2..k - 1
  BY <1>1
<1>3. CASE now /\ \A i \in 1..k - 1 : ~Disturbs(s[i], c)
  <2>1. 1 \in 1..k - 1
    BY <1>1
  <2>2. then
    BY <1>3, <2>1
  <2>3. \A i \in 1..(k - 1) - 1 : ~Disturbs(t[i], c)
    BY <1>2, <1>3
  <2> QED
    BY <2>2, <2>3 DEF DueIf, t
<1>4. CASE \E j \in 1..k - 1 : /\ Establishes(s[j], c)
                               /\ \A i \in j + 1..k - 1 : ~Disturbs(s[i], c)
  <2>1. PICK j \in 1..k - 1 : /\ Establishes(s[j], c)
                              /\ \A i \in j + 1..k - 1 : ~Disturbs(s[i], c)
    BY <1>4
  <2>2. CASE j = 1
    <3>1. then
      BY <2>1, <2>2
    <3>2. \A i \in 1..(k - 1) - 1 : ~Disturbs(t[i], c)
      BY <1>2, <2>1, <2>2
    <3> QED
      BY <3>1, <3>2 DEF DueIf, t
  <2>3. CASE j # 1
    <3>1. j - 1 \in 1..(k - 1) - 1
      BY <1>1, <2>3
    <3>2. t[j - 1] = s[j]
      BY <1>1, <1>2, <3>1
    <3>3. \A i \in (j - 1) + 1..(k - 1) - 1 : ~Disturbs(t[i], c)
      <4> TAKE i \in (j - 1) + 1..(k - 1) - 1
      <4>1. i \in 1..(k - 1) - 1 /\ i + 1 \in j + 1..k - 1
        BY <1>1, <2>3
      <4> QED
        BY <1>2, <2>1, <4>1
    <3> QED
      BY <2>1, <3>1, <3>2, <3>3 DEF DueIf, t
  <2> QED
    BY <2>2, <2>3
<1> QED
  BY <1>3, <1>4 DEF DueIf

\* What stands and is not undone by any step is due at every one.
LEMMA DueStanding ==
    ASSUME NEW s, NEW k, NEW c, \A i \in 1..k - 1 : ~Disturbs(s[i], c)
    PROVE  DueIf(TRUE, s, k, c)
BY DEF DueIf

\* Scripts with the same steps up to the k-th leave the same due.
LEMMA DueSame ==
    ASSUME NEW s, NEW t, NEW k, NEW c, NEW now \in BOOLEAN, \A i \in 1..k - 1 : s[i] = t[i],
           k \in Nat, DueIf(now, s, k, c)
    PROVE  DueIf(now, t, k, c)
<1>1. \A j \in 1..k - 1 : \A i \in j + 1..k - 1 : i \in 1..k - 1
  OBVIOUS
<1> QED
  BY <1>1 DEF DueIf

\* Three steps before the rest, in the place of the first.
LEMMA Before ==
    ASSUME NEW s \in Seq(Items), s # <<>>, NEW a \in Items, NEW b \in Items, NEW d \in Items,
           NEW t, t = <<a>> \o <<b>> \o <<d>> \o Tail(s)
    PROVE  /\ t \in Seq(Items) /\ Len(t) = Len(s) + 2 /\ t[1] = a /\ t[2] = b /\ t[3] = d
           /\ \A k \in 2..Len(s) : t[k + 2] = s[k]
<1> DEFINE p == <<a>> \o <<b>> \o <<d>>
           r == Tail(s)
<1>1. p \in Seq(Items) /\ Len(p) = 3 /\ p[1] = a /\ p[2] = b /\ p[3] = d
  <2>1. Three(p, a, b, d)
    BY ThreeSteps
  <2> HIDE DEF p
  <2> QED
    BY <2>1 DEF Three
<1>2. /\ r \in Seq(Items) /\ Len(r) = Len(s) - 1 /\ Len(s) \in Nat /\ Len(s) >= 1
      /\ \A k \in 1..Len(s) - 1 : r[k] = s[k + 1]
  BY Rest
<1>3. t = p \o r
  OBVIOUS
<1> HIDE DEF p, r
<1>4. /\ t \in Seq(Items) /\ Len(t) = Len(p) + Len(r)
      /\ \A k \in 1..Len(p) : t[k] = p[k]
      /\ \A k \in 1..Len(r) : t[Len(p) + k] = r[k]
  <2>1. /\ p \o r \in Seq(Items) /\ Len(p \o r) = Len(p) + Len(r)
        /\ \A k \in 1..Len(p) : (p \o r)[k] = p[k]
        /\ \A k \in 1..Len(r) : (p \o r)[Len(p) + k] = r[k]
    BY <1>1, <1>2, Joined
  <2> QED
    BY ONLY <1>3, <2>1
<1>5. ASSUME NEW k \in 2..Len(s) PROVE t[k + 2] = s[k]
  <2>1. k - 1 \in 1..Len(s) - 1 /\ k + 2 = 3 + (k - 1) /\ (k - 1) + 1 = k
    BY <1>2
  <2>2. t[3 + (k - 1)] = r[k - 1]
    BY <1>1, <1>2, <1>4, <2>1
  <2> QED
    BY <1>2, <2>1, <2>2
<1> QED
  BY <1>1, <1>2, <1>4, <1>5

\* Steps put before the rest that undo nothing else, and of which the last establishes what the
\* first undoes: what was due is due as many steps later.
LEMMA DueBefore ==
    ASSUME NEW s \in Seq(Items), s # <<>>, NEW t, NEW c, NEW k, k \in 2..Len(s) + 1,
           \A i \in 2..Len(s) : t[i + 2] = s[i],
           NEW now \in BOOLEAN, DueIf(now, s, k, c),
           \/ ~Disturbs(s[1], c) => \A i \in 1..3 : ~Disturbs(t[i], c)
           \/ Establishes(t[3], c),
           Establishes(s[1], c) => Establishes(t[2], c) /\ ~Disturbs(t[3], c)
    PROVE  DueIf(now, t, k + 2, c)
<1>1. Len(s) \in Nat /\ k \in Nat
  BY Rest
<1>2. ASSUME NEW i \in 4..(k + 2) - 1 PROVE t[i] = s[i - 2] /\ i - 2 \in 2..k - 1
  <2>1. i - 2 \in 2..Len(s) /\ (i - 2) + 2 = i
    BY <1>1
  <2> QED
    BY <1>1, <2>1
<1>3. 1..(k + 2) - 1 = (1..3) \cup (4..(k + 2) - 1)
  BY <1>1
<1>4. 3 \in 1..(k + 2) - 1 /\ 2 \in 1..(k + 2) - 1
      /\ 3 + 1..(k + 2) - 1 = 4..(k + 2) - 1 /\ 2 + 1..(k + 2) - 1 = {3} \cup (4..(k + 2) - 1)
  BY <1>1
<1>5. CASE now /\ \A i \in 1..k - 1 : ~Disturbs(s[i], c)
  <2>1. \A i \in 4..(k + 2) - 1 : ~Disturbs(t[i], c)
    <3> TAKE i \in 4..(k + 2) - 1
    <3>1. i - 2 \in 1..k - 1
      BY <1>1
    <3> QED
      BY <1>2, <1>5, <3>1
  <2>2. CASE Establishes(t[3], c)
    BY <1>4, <2>1, <2>2 DEF DueIf
  <2>3. CASE ~Disturbs(s[1], c) => \A i \in 1..3 : ~Disturbs(t[i], c)
    <3>1. 1 \in 1..k - 1
      BY <1>1
    <3>2. \A i \in 1..3 : ~Disturbs(t[i], c)
      BY <1>5, <2>3, <3>1
    <3>3. \A i \in 1..(k + 2) - 1 : ~Disturbs(t[i], c)
      BY <1>3, <2>1, <3>2
    <3> QED
      BY <1>5, <3>3 DEF DueIf
  <2> QED
    BY <2>2, <2>3
<1>6. CASE \E j \in 1..k - 1 : /\ Establishes(s[j], c)
                               /\ \A i \in j + 1..k - 1 : ~Disturbs(s[i], c)
  <2>1. PICK j \in 1..k - 1 : /\ Establishes(s[j], c)
                              /\ \A i \in j + 1..k - 1 : ~Disturbs(s[i], c)
    BY <1>6
  <2>2. CASE j = 1
    <3>1. \A i \in 4..(k + 2) - 1 : ~Disturbs(t[i], c)
      <4> TAKE i \in 4..(k + 2) - 1
      <4>1. i - 2 \in j + 1..k - 1
        BY <1>1, <2>2
      <4> QED
        BY <1>2, <2>1, <4>1
    <3>2. Establishes(t[2], c) /\ ~Disturbs(t[3], c)
      BY <2>1, <2>2
    <3>3. \A i \in 2 + 1..(k + 2) - 1 : ~Disturbs(t[i], c)
      BY <1>4, <3>1, <3>2
    <3> QED
      BY <1>4, <3>2, <3>3 DEF DueIf
  <2>3. CASE j # 1
    <3>1. j + 2 \in 4..(k + 2) - 1 /\ j + 2 \in 1..(k + 2) - 1 /\ (j + 2) - 2 = j
      BY <1>1, <2>3
    <3>2. t[j + 2] = s[j]
      BY <1>2, <3>1
    <3>3. \A i \in (j + 2) + 1..(k + 2) - 1 : ~Disturbs(t[i], c)
      <4> TAKE i \in (j + 2) + 1..(k + 2) - 1
      <4>1. i \in 4..(k + 2) - 1 /\ i - 2 \in j + 1..k - 1
        BY <1>1, <2>3
      <4> QED
        BY <1>2, <2>1, <4>1
    <3> QED
      BY <2>1, <3>1, <3>2, <3>3 DEF DueIf
  <2> QED
    BY <2>2, <2>3
<1> QED
  BY <1>5, <1>6 DEF DueIf

-----------------------------------------------------------------------------
(* What undoes no condition                                                *)

\* The market rates are written into the rate oracle, for tokens.
LEMMA RatesTyped ==
    ASSUME NEW c \in RatesSet
    PROVE  /\ c.kind = "has" /\ c.on = "LendingRateOracle" /\ c.field = "borrowRate"
           /\ c.to \in ReserveAssets /\ c.to \notin Ids
<1>1. PICK s \in getLendingRateOracles : c = Has("LendingRateOracle", "borrowRate", s)
  BY DEF RatesSet
<1>2. s \in ReserveAssets /\ s \notin Ids
  BY TokenAssumption DEF getLendingRateOracles
<1> QED
  BY <1>1, <1>2 DEF Has

\* What is written into a contract is written into a contract that is no proxy; the provider's fields
\* for proxies hold those, and its pool admin is the deployer.
LEMMA WrittenTyped ==
    ASSUME NEW c \in Written
    PROVE  /\ c.kind \in {"is", "has"} /\ c.on \in Contracts /\ c.on \in Ids /\ c.to \in Names
           /\ c.field \in Proxies => c = Is(Provider, c.field, c.field)
           /\ (c.on = Provider /\ c.field = "POOL_ADMIN") => c = Is(Provider, "POOL_ADMIN", "deployer")
<1>1. \A w \in Wiring : w[1] \notin Proxies =>
        /\ w[1] \in Contracts /\ w[3] \in Names
        /\ w[2] \in Proxies => w[1] = Provider /\ w[3] = w[2]
        /\ (w[1] = Provider /\ w[2] = "POOL_ADMIN") => w[3] = "deployer"
  <2>1. /\ "deployer" \in Names /\ "emergencyAdmin" \in Names
        /\ \A id \in Contracts \cup Proxies : id \in Names
    BY InitializationNames DEF Accounts
  <2> QED
    BY <2>1, DeploymentNames DEF Wiring, Proxies, Provider
<1>2. \A w \in Authorizations :
        w[1] \in Contracts /\ w[3] \in Names /\ w[2] \notin Proxies /\ w[1] # Provider
  <2>1. "deployer" \in Names /\ \A id \in Contracts \cup Proxies : id \in Names
    BY InitializationNames DEF Accounts
  <2> QED
    BY <2>1, DeploymentNames DEF Authorizations, Proxies, Provider
<1>3. CASE \E w \in Wiring : w[1] \notin Proxies /\ c = Is(w[1], w[2], w[3])
  BY <1>1, <1>3 DEF Is, Contracts
<1>4. CASE \E w \in Authorizations : c = Has(w[1], w[2], w[3])
  BY <1>2, <1>4 DEF Has, Contracts
<1>5. CASE c \in RatesSet
  BY <1>5, RatesTyped, DeploymentNames, InitializationNames DEF Contracts, Proxies
<1> QED
  BY <1>3, <1>4, <1>5 DEF Written

\* The conditions on reserves.
LEMMA OfTyped ==
    ASSUME NEW c \in Conditions, c \notin Written
    PROVE  /\ c.kind \in PoolKinds /\ c.on = Provider /\ c.field = "LendingPool" /\ c.to \in Symbols
           /\ c = Of(c.kind, c.to)
BY DEF Conditions, Of

\* A name stands for the same contract while the file says the same of it.
LEMMA ResolveSame == ASSUME NEW t, t \in Ids => db'[t] = db[t] PROVE resolve(t)' = resolve(t)
BY DEF resolve

\* What a contract of the file holds in a field.
LEMMA NamedHere ==
    ASSUME NEW id \in Ids, NEW field
    PROVE  /\ named(resolve(id), field) = {r[2] : r \in {x \in storage[id][db[id]] : x[1] = field}}
           /\ named(resolve(id), field)' =
                {r[2] : r \in {x \in storage'[id][db'[id]] : x[1] = field}}
BY DEF named, resolve

\* What of a field of a contract is not written to.
sameField(id, field) ==
  /\ db'[id] = db[id]
  /\ db[id] # 0 => \A x : x[1] = field => (x \in storage'[id][db[id]] <=> x \in storage[id][db[id]])

LEMMA NamedSame ==
    ASSUME NEW id \in Ids, NEW field, sameField(id, field), db[id] # 0
    PROVE  named(resolve(id), field)' = named(resolve(id), field)
<1>1. {x \in storage'[id][db'[id]] : x[1] = field} = {x \in storage[id][db[id]] : x[1] = field}
  BY DEF sameField
<1> QED
  BY <1>1, NamedHere

\* The pool of the market is the same while the provider's field for it is.
LEMMA LiveSame == ASSUME sameField(Provider, "LendingPool") PROVE livePool' = livePool
<1>1. Provider \in Ids
  BY DeploymentNames DEF Contracts
<1>2. db'[Provider] = db[Provider]
  BY DEF sameField
<1>3. db[Provider] # 0 => currentPool' = currentPool
  BY <1>1, NamedSame DEF currentPool
<1> QED
  BY <1>2, <1>3 DEF livePool

\* Reserves that are listed, lent and taken as collateral as before.
sameReserves ==
  \A n \in Instances, s \in Symbols :
    LET r == pools[n].reserves[s]
        q == pools'[n].reserves[s]
    IN q.listed = r.listed /\ q.borrowing = r.borrowing /\ q.collateral = r.collateral

\* The instances of the pool that a provider of the file holds.
LEMMA LiveTyped ==
    ASSUME Inv
    PROVE  /\ \A a \in livePool : /\ a \in Addresses /\ Exists(a) /\ a[1] = "LendingPool"
                                  /\ a[2] \in Instances
           /\ db[Provider] # 0 => db[Provider] \in Instances /\ livePool = currentPool
           /\ resolve(Provider) = <<Provider, db[Provider]>>
<1>1. Provider \in Ids /\ Provider \in Names /\ "LendingPool" \in Ids /\ "LendingPool" \in Proxies
  BY DeploymentNames, InitializationNames DEF Contracts, Ids
<1>2. resolve(Provider) = <<Provider, db[Provider]>>
  BY <1>1 DEF resolve
<1>3. ASSUME db[Provider] # 0 PROVE db[Provider] \in Instances /\ livePool = currentPool
  BY <1>1, <1>3, Resolved DEF known, livePool
<1>4. ASSUME NEW a \in livePool
      PROVE  a \in Addresses /\ Exists(a) /\ a[1] = "LendingPool" /\ a[2] \in Instances
  <2>1. db[Provider] # 0 /\ a \in named(<<Provider, db[Provider]>>, "LendingPool")
    BY <1>2 DEF livePool, currentPool
  <2>2. a \in Addresses /\ Exists(a) /\ a[1] = "LendingPool"
    BY <1>1, <1>3, <2>1, Held
  <2>3. a[2] \in 1..deployed["LendingPool"] /\ deployed["LendingPool"] \in 0..MaxInstances
    BY <1>1, <2>2 DEF Exists, Inv, TypeOK
  <2> QED
    BY <2>2, <2>3, DeploymentAssumption DEF Instances
<1> QED
  BY <1>2, <1>3, <1>4

\* A condition on what nobody writes to stands exactly as before.
LEMMA Untouched ==
    ASSUME Inv, NEW c \in Conditions, sameField(c.on, c.field),
           (c \in Written /\ c.to \in Ids) => db'[c.to] = db[c.to],
           c \in Written \/ sameReserves
    PROVE  Stands(c)' <=> Stands(c)
<1>1. CASE c \in Written
  <2>1. c.kind \in {"is", "has"} /\ c.on \in Ids
    BY <1>1, WrittenTyped
  <2>2. resolve(c.to)' = resolve(c.to)
    BY <1>1, ResolveSame
  <2>3. db'[c.on] = db[c.on]
    BY DEF sameField
  <2>4. db[c.on] # 0 => named(resolve(c.on), c.field)' = named(resolve(c.on), c.field)
    BY <2>1, NamedSame
  <2> QED
    BY <2>1, <2>2, <2>3, <2>4 DEF Stands
<1>2. CASE c \notin Written
  <2>1. c.kind \in PoolKinds /\ c.on = Provider /\ c.field = "LendingPool" /\ c.to \in Symbols
    BY <1>2, OfTyped
  <2>2. livePool' = livePool
    BY <2>1, LiveSame
  <2>3. \A a \in livePool : a[2] \in Instances
    BY LiveTyped
  <2>4. \A a \in livePool :
          /\ pools'[a[2]].reserves[c.to].listed = pools[a[2]].reserves[c.to].listed
          /\ pools'[a[2]].reserves[c.to].borrowing = pools[a[2]].reserves[c.to].borrowing
          /\ pools'[a[2]].reserves[c.to].collateral = pools[a[2]].reserves[c.to].collateral
    BY <1>2, <2>1, <2>3 DEF sameReserves
  <2> QED
    BY <2>1, <2>2, <2>4 DEF Stands, PoolKinds
<1> QED
  BY <1>1, <1>2

\* Where neither the file nor the chain changes, nothing does.
LEMMA OnlyScripts ==
    ASSUME Inv, NEW c \in Conditions, UNCHANGED <<db, storage, pools>>
    PROVE  Stands(c)' <=> Stands(c)
<1>1. sameField(c.on, c.field) /\ sameReserves /\ UNCHANGED db
  BY DEF sameField, sameReserves
<1> QED
  BY <1>1, Untouched

\* A new contract stands for no name yet.
LEMMA DeploySame ==
    ASSUME Inv, DeployToOasysTestnet
    PROVE  /\ \A id \in Ids : \A field : sameField(id, field)
           /\ \A c \in Conditions : Stands(c)' <=> Stands(c)
<1>1. item \in Items /\ item.do = "deploy" /\ TypeOK
  BY Proceeding DEF Inv, DeployToOasysTestnet, perform, doing
<1>2. item.id \in Ids
  BY <1>1, ItemFields DEF Contracts
<1>3. PICK refs : storage' = [storage EXCEPT ![item.id][deployed[item.id] + 1] = refs]
  BY DEF DeployToOasysTestnet
<1>4. UNCHANGED <<db, pools>>
  BY DEF DeployToOasysTestnet, files
<1>5. ASSUME NEW id \in Ids, db[id] # 0 PROVE storage'[id][db[id]] = storage[id][db[id]]
  <2>1. storage \in [Ids -> [Instances -> SUBSET Refs(AllFields)]] /\ MaxInstances \in Nat
    BY DeploymentAssumption DEF Inv, TypeOK
  <2>2. db[id] <= deployed[id] /\ db[id] \in Nat /\ deployed[id] \in 0..MaxInstances
    BY DEF Inv, TypeOK, NoDanglingReference
  <2>3. db[id] \in Instances /\ db[id] # deployed[id] + 1
    BY <1>5, <2>1, <2>2 DEF Instances
  <2> QED
    BY <1>2, <1>3, <2>1, <2>3
<1>6. \A id \in Ids : \A field : sameField(id, field)
  BY <1>4, <1>5 DEF sameField
<1>7. ASSUME NEW c \in Conditions PROVE Stands(c)' <=> Stands(c)
  <2>1. c.on \in Ids
    BY WrittenTyped, OfTyped, DeploymentNames DEF Contracts
  <2>2. sameReserves
    BY <1>4 DEF sameReserves
  <2> QED
    BY <1>4, <1>6, <2>1, <2>2, Untouched
<1> QED
  BY <1>6, <1>7

\* Another name is registered.
LEMMA RegisterSame ==
    ASSUME Inv, RegisterContractAddress, NEW c \in Conditions, ~Disturbs(item, c)
    PROVE  Stands(c)' <=> Stands(c)
<1>1. item \in Items /\ item.do = "register" /\ TypeOK
  BY Proceeding DEF Inv, RegisterContractAddress, perform, doing
<1>2. item.id # c.on /\ item.id # c.to
  BY <1>1 DEF Disturbs
<1>3. db' = [db EXCEPT ![item.id] = deployed[item.id]] /\ UNCHANGED <<storage, pools>>
  BY DEF RegisterContractAddress, chain
<1>4. db \in [Ids -> Nat]
  BY DEF Inv, TypeOK
<1>5. c.on \in Ids
  BY WrittenTyped, OfTyped, DeploymentNames DEF Contracts
<1>6. db'[c.on] = db[c.on] /\ (c.to \in Ids => db'[c.to] = db[c.to])
  BY <1>2, <1>3, <1>4, <1>5
<1>7. sameField(c.on, c.field) /\ sameReserves
  BY <1>3, <1>6 DEF sameField, sameReserves
<1> QED
  BY <1>6, <1>7, Untouched

\* The proxy of another field is read into the file.
LEMMA InsertSame ==
    ASSUME Inv, InsertProxyAddress, NEW c \in Conditions, ~Disturbs(item, c)
    PROVE  Stands(c)' <=> Stands(c)
<1>1. item \in Items /\ item.do = "insertProxy" /\ TypeOK
  BY Proceeding DEF Inv, InsertProxyAddress, perform, doing
<1>2. item.id \in Proxies
  BY <1>1, ItemFields
<1>3. c \in Written => item.id # c.to
  BY <1>1, WrittenTyped DEF Disturbs
<1>4. PICK n : db' = [db EXCEPT ![item.id] = n]
  BY DEF InsertProxyAddress
<1>5. UNCHANGED <<storage, pools>> /\ db \in [Ids -> Nat]
  BY DEF InsertProxyAddress, chain, Inv, TypeOK
<1>6. c.on \in Contracts
  BY WrittenTyped, OfTyped, DeploymentNames
<1>7. db'[c.on] = db[c.on] /\ ((c \in Written /\ c.to \in Ids) => db'[c.to] = db[c.to])
  BY <1>2, <1>3, <1>4, <1>5, <1>6 DEF Contracts
<1>8. sameField(c.on, c.field) /\ sameReserves
  BY <1>5, <1>7 DEF sameField, sameReserves
<1> QED
  BY <1>7, <1>8, Untouched

\* A deposit lists, lends and configures nothing.
LEMMA DepositSame ==
    ASSUME Inv, PoolsOK, Deposit
    PROVE  sameReserves /\ \A c \in Conditions : Stands(c)' <=> Stands(c)
<1>1. PICK n \in Instances, s \in Symbols :
        pools' = [pools EXCEPT ![n].reserves[s].liquid = TRUE]
  BY DEF Deposit
<1>2. UNCHANGED <<db, storage>>
  BY DEF Deposit, files
<1> DEFINE old == pools[n]
           r   == [old.reserves[s] EXCEPT !.liquid = TRUE]
           rs  == [old.reserves EXCEPT ![s] = r]
<1>3. old \in Orderly
  BY DEF PoolsOK
<1>4. old.reserves \in [Symbols -> Reserve]
  BY <1>3, OrderlyParts DEF inOrder
<1>5. /\ r.listed = old.reserves[s].listed /\ r.borrowing = old.reserves[s].borrowing
      /\ r.collateral = old.reserves[s].collateral
  <2>1. old.reserves[s] \in Reserve
    BY <1>4
  <2> QED
    BY <2>1 DEF Reserve
<1>6. \A z \in Symbols : /\ rs[z].listed = old.reserves[z].listed
                         /\ rs[z].borrowing = old.reserves[z].borrowing
                         /\ rs[z].collateral = old.reserves[z].collateral
  <2> HIDE DEF r
  <2> QED
    BY <1>4, <1>5
<1>7. pools' = [pools EXCEPT ![n] = [old EXCEPT !.reserves = rs]]
  BY <1>1
<1>8. [old EXCEPT !.reserves = rs].reserves = rs
  <2>1. PICK list, was : old = [list |-> list, reserves |-> was]
    BY <1>3, OrderlyParts
  <2> HIDE DEF old, rs
  <2> QED
    BY <2>1
<1> HIDE DEF old, rs
<1>9. sameReserves
  BY <1>6, <1>7, <1>8 DEF sameReserves, PoolsOK, old
<1>10. ASSUME NEW c \in Conditions PROVE Stands(c)' <=> Stands(c)
  <2>1. sameField(c.on, c.field)
    BY <1>2 DEF sameField
  <2> QED
    BY <1>2, <1>9, <2>1, Untouched
<1> QED
  BY <1>9, <1>10

-----------------------------------------------------------------------------
(* What is written                                                         *)

\* A contract of the file holds something else.
LEMMA WriteHere ==
    ASSUME Inv, NEW id \in Contracts, known(id), NEW S,
           storage' = [storage EXCEPT ![id][db[id]] = S], UNCHANGED db
    PROVE  /\ storage'[id][db[id]] = S /\ id \in Ids /\ db[id] # 0
           /\ \A j \in Ids : j # id => \A field : sameField(j, field)
           /\ \A field : (\A x : x[1] = field => (x \in S <=> x \in storage[id][db[id]]))
                => sameField(id, field)
<1>1. id \in Ids /\ id \in Names
  BY InitializationNames DEF Contracts
<1>2. db[id] \in Instances /\ db[id] # 0
  BY <1>1, Resolved DEF known
<1>3. storage \in [Ids -> [Instances -> SUBSET Refs(AllFields)]]
  BY DEF Inv, TypeOK
<1>4. storage'[id][db[id]] = S /\ \A j \in Ids : j # id => storage'[j] = storage[j]
  BY <1>1, <1>2, <1>3
<1> QED
  BY <1>1, <1>2, <1>4 DEF sameField

\* A setter replaces what the field held, and a call that authorizes adds to it; other fields and
\* other contracts stay.
LEMMA SetWrites ==
    ASSUME Inv, SetAddress \/ Authorize
    PROVE  /\ \A id \in Ids : \A field : (id # item.on \/ field # item.field) => sameField(id, field)
           /\ \A id, field : (id = item.on /\ field = item.field) =>
                /\ SetAddress => named(resolve(id), field)' = {resolve(t) : t \in item.to}
                /\ Authorize => named(resolve(id), field)' =
                                  named(resolve(id), field) \cup {resolve(t) : t \in item.to}
           /\ item.on \in Contracts /\ item.field \in Fields /\ known(item.on) /\ db[item.on] # 0
           /\ item.do = (IF SetAddress THEN "set" ELSE "authorize")
           /\ UNCHANGED <<db, pools>>
<1>1. /\ item \in Items /\ item.do \in {"set", "authorize"} /\ accepted(item)
      /\ SetAddress => item.do = "set"
      /\ Authorize => item.do = "authorize"
  BY Proceeding DEF Inv, SetAddress, Authorize, perform, doing
<1>2. item.on \in Contracts /\ item.field \in Fields /\ known(item.on)
  BY <1>1, ItemFields, Accepted
<1>3. UNCHANGED <<db, pools>>
  BY DEF SetAddress, Authorize, files
<1> DEFINE old == storage[item.on][db[item.on]]
           new == {<<item.field, resolve(t)>> : t \in item.to}
           set0 == replaced(old, item.field, {resolve(t) : t \in item.to})
<1>4. item.on \in Ids
  BY <1>2 DEF Contracts
<1>5. CASE SetAddress
  <2>1. storage' = [storage EXCEPT ![item.on][db[item.on]] = set0]
    BY <1>5 DEF SetAddress
  <2>2. ASSUME NEW field, field # item.field, NEW x, x[1] = field PROVE x \in set0 <=> x \in old
    BY <2>2 DEF replaced
  <2>3. {r[2] : r \in {x \in set0 : x[1] = item.field}} = {resolve(t) : t \in item.to}
    <3>1. \A r \in {x \in set0 : x[1] = item.field} : r[2] \in {resolve(t) : t \in item.to}
      BY DEF replaced
    <3>2. \A a \in {resolve(t) : t \in item.to} : <<item.field, a>> \in set0
      BY DEF replaced
    <3> HIDE DEF set0
    <3>3. \A a \in {resolve(t) : t \in item.to} :
            <<item.field, a>>[1] = item.field /\ <<item.field, a>>[2] = a
      OBVIOUS
    <3> QED
      BY <3>1, <3>2, <3>3
  <2> HIDE DEF set0
  <2>4. /\ storage'[item.on][db[item.on]] = set0 /\ db[item.on] # 0
        /\ \A j \in Ids : j # item.on => \A field : sameField(j, field)
        /\ \A field : (\A x : x[1] = field => (x \in set0 <=> x \in old)) => sameField(item.on, field)
    BY <1>2, <1>3, <2>1, WriteHere
  <2>5. ASSUME NEW id, NEW field, id = item.on, field = item.field
        PROVE  named(resolve(id), field)' = {resolve(t) : t \in item.to}
    <3>1. named(resolve(id), field)' = {r[2] : r \in {x \in storage'[id][db'[id]] : x[1] = field}}
      BY <1>4, <2>5, NamedHere
    <3> QED
      BY <1>3, <2>3, <2>4, <2>5, <3>1
  <2>6. ~Authorize
    BY <1>1, <1>5
  <2> QED
    BY <1>1, <1>2, <1>3, <1>5, <2>2, <2>4, <2>5, <2>6
<1>6. CASE ~SetAddress /\ Authorize
  <2> DEFINE both == old \cup new
  <2>1. storage' = [storage EXCEPT ![item.on][db[item.on]] = both]
    BY <1>6 DEF Authorize
  <2>2. ASSUME NEW field, field # item.field, NEW x, x[1] = field PROVE x \in both <=> x \in old
    BY <2>2
  <2>3. {r[2] : r \in {x \in both : x[1] = item.field}} =
          {r[2] : r \in {x \in old : x[1] = item.field}} \cup {resolve(t) : t \in item.to}
    <3>1. \A r \in new : r[1] = item.field /\ r[2] \in {resolve(t) : t \in item.to}
      OBVIOUS
    <3>2. ASSUME NEW t \in item.to PROVE \E r \in new : r[1] = item.field /\ r[2] = resolve(t)
      <4>1. <<item.field, resolve(t)>> \in new
        OBVIOUS
      <4> QED
        BY <4>1
    <3> HIDE DEF new, old
    <3> QED
      BY <3>1, <3>2
  <2> HIDE DEF both
  <2>4. /\ storage'[item.on][db[item.on]] = both /\ db[item.on] # 0
        /\ \A j \in Ids : j # item.on => \A field : sameField(j, field)
        /\ \A field : (\A x : x[1] = field => (x \in both <=> x \in old))
             => sameField(item.on, field)
    BY <1>2, <1>3, <2>1, WriteHere
  <2>5. ASSUME NEW id, NEW field, id = item.on, field = item.field
        PROVE  named(resolve(id), field)' =
                 named(resolve(id), field) \cup {resolve(t) : t \in item.to}
    <3>1. named(resolve(id), field)' = {r[2] : r \in {x \in storage'[id][db'[id]] : x[1] = field}}
      BY <1>4, <2>5, NamedHere
    <3>2. named(resolve(id), field) = {r[2] : r \in {x \in old : x[1] = field}}
      BY <1>4, <2>5, NamedHere
    <3> HIDE DEF old
    <3> QED
      BY <1>3, <2>3, <2>4, <2>5, <3>1, <3>2
  <2> HIDE DEF old
  <2> QED
    BY <1>1, <1>2, <1>3, <1>6, <2>2, <2>4, <2>5
<1> QED
  BY <1>5, <1>6

\* What a setter or an authorization should establish stands, and what it does not disturb stays.
LEMMA SetStands ==
    ASSUME Inv, SetAddress \/ Authorize, NEW c \in Conditions
    PROVE  /\ Establishes(item, c) => Stands(c)'
           /\ ~Disturbs(item, c) => (Stands(c)' <=> Stands(c))
<1>1. /\ \A id \in Ids : \A field : (id # item.on \/ field # item.field) => sameField(id, field)
      /\ \A id, field : (id = item.on /\ field = item.field) =>
           /\ SetAddress => named(resolve(id), field)' = {resolve(t) : t \in item.to}
           /\ Authorize => named(resolve(id), field)' =
                             named(resolve(id), field) \cup {resolve(t) : t \in item.to}
      /\ item.on \in Contracts /\ item.field \in Fields /\ known(item.on) /\ db[item.on] # 0
      /\ item.do = (IF SetAddress THEN "set" ELSE "authorize")
      /\ UNCHANGED <<db, pools>>
  BY SetWrites
<1>2. c.on \in Ids /\ (c \in Written => c.kind \in {"is", "has"})
      /\ (c \notin Written => c.kind \in PoolKinds /\ c.field \notin Fields)
  BY WrittenTyped, OfTyped, DeploymentNames, InitializationNames DEF Contracts
<1>3. ASSUME ~Disturbs(item, c) PROVE Stands(c)' <=> Stands(c)
  <2>1. c.on # item.on \/ c.field # item.field
    BY <1>1, <1>2, <1>3 DEF Disturbs
  <2>2. sameField(c.on, c.field) /\ sameReserves
    BY <1>1, <1>2, <2>1 DEF sameReserves
  <2> QED
    BY <1>1, <2>2, Untouched
<1>4. ASSUME Establishes(item, c) PROVE Stands(c)'
  <2>1. /\ c.kind \in {"is", "has"} /\ item.on = c.on /\ item.field = c.field
        /\ item.do = "set" => item.to = {c.to}
        /\ item.do = "authorize" => c.kind = "has" /\ c.to \in item.to
    BY <1>1, <1>4 DEF Establishes
  <2>2. resolve(c.to)' = resolve(c.to) /\ db'[c.on] # 0
    BY <1>1, <2>1, ResolveSame
  <2>3. CASE SetAddress
    <3>1. named(resolve(c.on), c.field)' = {resolve(c.to)}
      BY <1>1, <2>1, <2>3
    <3> QED
      BY <2>1, <2>2, <3>1 DEF Stands
  <2>4. CASE ~SetAddress
    <3>1. resolve(c.to) \in named(resolve(c.on), c.field)' /\ c.kind = "has"
      BY <1>1, <2>1, <2>4
    <3> QED
      BY <2>2, <3>1 DEF Stands
  <2> QED
    BY <2>3, <2>4
<1> QED
  BY <1>3, <1>4

\* initialize stores each field once.
LEMMA InitializeWrites ==
    ASSUME Inv, InitializeOnce
    PROVE  /\ \A id \in Ids : \A field :
                (id # item.on \/ \A f \in item.fields : f[1] # field) => sameField(id, field)
           /\ \A id, field, to :
                (id = item.on /\ {f \in item.fields : f[1] = field} = {<<field, to>>}) =>
                  named(resolve(id), field)' = {resolve(to)}
           /\ item.on \in Contracts /\ item.fields \in SUBSET (Fields \X Names)
           /\ known(item.on) /\ db[item.on] # 0 /\ item.do = "initialize"
           /\ UNCHANGED <<db, pools>>
<1>1. item \in Items /\ item.do = "initialize" /\ accepted(item)
  BY Proceeding DEF Inv, InitializeOnce, perform, doing
<1>2. item.on \in Contracts /\ item.fields \in SUBSET (Fields \X Names) /\ known(item.on)
  BY <1>1, ItemFields, Accepted
<1>3. UNCHANGED <<db, pools>> /\ uninitialized(item.on, item.fields)
  BY <1>1 DEF InitializeOnce, files, accepted
<1> DEFINE old == storage[item.on][db[item.on]]
           new == {<<f[1], resolve(f[2])>> : f \in item.fields}
<1>4. storage' = [storage EXCEPT ![item.on][db[item.on]] = old \cup new]
  BY DEF InitializeOnce
<1>5. ASSUME NEW field, \A f \in item.fields : f[1] # field, NEW x, x[1] = field
      PROVE  x \in old \cup new <=> x \in old
  BY <1>5
<1>6. \A field, to : {f \in item.fields : f[1] = field} = {<<field, to>>} =>
        {r[2] : r \in {x \in new : x[1] = field}} = {resolve(to)}
  <2> SUFFICES ASSUME NEW field, NEW to, {f \in item.fields : f[1] = field} = {<<field, to>>}
               PROVE  {r[2] : r \in {x \in new : x[1] = field}} = {resolve(to)}
    OBVIOUS
  <2>1. \A r \in new : r[1] = field => r[2] = resolve(to)
    <3> SUFFICES ASSUME NEW f \in item.fields, f[1] = field PROVE resolve(f[2]) = resolve(to)
      OBVIOUS
    <3>1. f = <<field, to>>
      OBVIOUS
    <3> QED
      BY <3>1
  <2>2. <<field, resolve(to)>> \in new
    <3>1. <<field, to>> \in item.fields
      OBVIOUS
    <3>2. <<<<field, to>>[1], resolve(<<field, to>>[2])>> \in new
      BY <3>1
    <3> QED
      BY <3>2
  <2> HIDE DEF new
  <2>3. <<field, resolve(to)>>[1] = field /\ <<field, resolve(to)>>[2] = resolve(to)
    OBVIOUS
  <2> QED
    BY <2>1, <2>2, <2>3
<1> DEFINE both == old \cup new
<1> HIDE DEF new, both
<1>7. /\ storage'[item.on][db[item.on]] = both /\ db[item.on] # 0 /\ item.on \in Ids
      /\ \A j \in Ids : j # item.on => \A field : sameField(j, field)
      /\ \A field : (\A x : x[1] = field => (x \in both <=> x \in old))
           => sameField(item.on, field)
  <2>1. storage' = [storage EXCEPT ![item.on][db[item.on]] = both]
    BY <1>4 DEF both
  <2> QED
    BY <1>2, <1>3, <2>1, WriteHere
<1> HIDE DEF old
<1>8. ASSUME NEW id, id = item.on,
             NEW field, NEW to, {f \in item.fields : f[1] = field} = {<<field, to>>}
      PROVE  named(resolve(id), field)' = {resolve(to)}
  <2>1. \E f \in item.fields : f[1] = field
    BY <1>8
  <2>2. named(resolve(id), field) = {}
    BY <1>3, <1>8, <2>1 DEF uninitialized
  <2>3. \A x \in old : x[1] # field
    <3>1. {r[2] : r \in {x \in old : x[1] = field}} = {}
      BY <1>7, <1>8, <2>2, NamedHere DEF old
    <3> QED
      BY <3>1
  <2>4. {x \in both : x[1] = field} = {x \in new : x[1] = field}
    BY <2>3 DEF both
  <2>5. named(resolve(id), field)' = {r[2] : r \in {x \in storage'[id][db'[id]] : x[1] = field}}
    BY <1>7, <1>8, NamedHere
  <2>6. storage'[id][db'[id]] = both
    BY <1>3, <1>7, <1>8
  <2>7. {r[2] : r \in {x \in new : x[1] = field}} = {resolve(to)}
    BY <1>6, <1>8
  <2> QED
    BY <2>4, <2>5, <2>6, <2>7
<1>9. \A id \in Ids : \A field :
        (id # item.on \/ \A f \in item.fields : f[1] # field) => sameField(id, field)
  BY <1>5, <1>7 DEF both
<1> QED
  BY <1>1, <1>2, <1>3, <1>7, <1>8, <1>9

\* What initialize should establish stands, and what it does not disturb stays.
LEMMA InitializeStands ==
    ASSUME Inv, InitializeOnce, NEW c \in Conditions
    PROVE  /\ Establishes(item, c) => Stands(c)'
           /\ ~Disturbs(item, c) => (Stands(c)' <=> Stands(c))
<1>1. /\ \A id \in Ids : \A field :
           (id # item.on \/ \A f \in item.fields : f[1] # field) => sameField(id, field)
      /\ \A id, field, to :
           (id = item.on /\ {f \in item.fields : f[1] = field} = {<<field, to>>}) =>
             named(resolve(id), field)' = {resolve(to)}
      /\ item.on \in Contracts /\ item.fields \in SUBSET (Fields \X Names)
      /\ known(item.on) /\ db[item.on] # 0 /\ item.do = "initialize"
      /\ UNCHANGED <<db, pools>>
  BY InitializeWrites
<1>2. c.on \in Ids /\ (c \in Written => c.kind \in {"is", "has"})
      /\ (c \notin Written => c.kind \in PoolKinds /\ c.field \notin Fields)
  BY WrittenTyped, OfTyped, DeploymentNames, InitializationNames DEF Contracts
<1>3. ASSUME ~Disturbs(item, c) PROVE Stands(c)' <=> Stands(c)
  <2>1. c.on # item.on \/ \A f \in item.fields : f[1] # c.field
    BY <1>1, <1>2, <1>3 DEF Disturbs
  <2>2. sameField(c.on, c.field) /\ sameReserves
    BY <1>1, <1>2, <2>1 DEF sameReserves
  <2> QED
    BY <1>1, <2>2, Untouched
<1>4. ASSUME Establishes(item, c) PROVE Stands(c)'
  <2>1. /\ c.kind \in {"is", "has"} /\ item.on = c.on
        /\ {f \in item.fields : f[1] = c.field} = {<<c.field, c.to>>}
    BY <1>1, <1>4 DEF Establishes
  <2>2. resolve(c.to)' = resolve(c.to) /\ db'[c.on] # 0
    BY <1>1, <2>1, ResolveSame
  <2>3. named(resolve(c.on), c.field)' = {resolve(c.to)}
    BY <1>1, <2>1
  <2> QED
    BY <2>1, <2>2, <2>3 DEF Stands
<1> QED
  BY <1>3, <1>4

-----------------------------------------------------------------------------
(* The proxies of a provider                                               *)

\* SetImpl creates a proxy or upgrades the one there is.
Creates(proxy, new) ==
  /\ named(resolve(Provider), proxy) = {}
  /\ new \in Instances /\ new = deployed[proxy] + 1
  /\ deployed' = [deployed EXCEPT ![proxy] = new]
  /\ storage' = [storage EXCEPT ![proxy][new] = initialized(item.impl),
                   ![Provider][db[Provider]] = @ \cup {<<proxy, <<proxy, new>>>>}]
  /\ revision' = [revision EXCEPT ![proxy][new] = getRevision(item.impl)]

Upgrades(proxy, a) ==
  /\ a \in named(resolve(Provider), proxy)
  /\ storage' = [storage EXCEPT ![proxy][a[2]] = initialized(item.impl)]
  /\ revision' = [revision EXCEPT ![proxy][a[2]] = getRevision(item.impl)]
  /\ UNCHANGED deployed

LEMMA SetImplCases ==
    ASSUME Inv, SetImpl
    PROVE  /\ item \in Items /\ item.do = "setImpl" /\ UNCHANGED <<files, pools>>
           /\ item.impl \in {"LendingPoolImpl", "LendingPoolTmpImpl", "LendingPoolV4Impl",
                             "LendingPoolConfiguratorImpl"}
           /\ known(Provider) /\ db[Provider] \in Instances /\ db[Provider] # 0 /\ upgradable(item.impl)
           /\ \E proxy \in Proxies : /\ proxy = proxyOf(item.impl)
                                     /\ \/ \E new : Creates(proxy, new)
                                        \/ \E a : Upgrades(proxy, a)
<1> DEFINE proxy == proxyOf(item.impl)
           new   == deployed[proxy] + 1
<1>1. item \in Items /\ item.do = "setImpl" /\ accepted(item)
  BY Proceeding DEF Inv, SetImpl, perform, doing
<1>2. item.impl \in {"LendingPoolImpl", "LendingPoolTmpImpl", "LendingPoolV4Impl",
                     "LendingPoolConfiguratorImpl"}
  BY <1>1, ItemFields
<1>3. known(Provider) /\ upgradable(item.impl) /\ UNCHANGED <<files, pools>>
  BY <1>1, Accepted DEF SetImpl
<1>4. Provider \in Ids /\ Provider \in Names /\ proxy \in Proxies
  BY DeploymentNames, InitializationNames DEF Contracts, proxyOf, Proxies
<1>5. db[Provider] \in Instances /\ db[Provider] # 0
  BY <1>3, <1>4, Resolved DEF known
<1>6. CASE named(resolve(Provider), proxy) = {}
  BY <1>1, <1>2, <1>3, <1>4, <1>5, <1>6 DEF SetImpl, Creates
<1>7. CASE named(resolve(Provider), proxy) # {}
  BY <1>1, <1>2, <1>3, <1>4, <1>5, <1>7 DEF SetImpl, Upgrades
<1> QED
  BY <1>6, <1>7

\* What initialize(provider) stores, field by field.
LEMMA InitializedFields ==
    ASSUME NEW impl
    PROVE  /\ {r[2] : r \in {x \in initialized(impl) : x[1] = "addressesProvider"}} = {resolve(Provider)}
           /\ proxyOf(impl) # "LendingPool" =>
                {r[2] : r \in {x \in initialized(impl) : x[1] = "pool"}} = currentPool
<1> DEFINE p == IF proxyOf(impl) = "LendingPool" THEN {} ELSE {<<"pool", a>> : a \in currentPool}
           i == <<"implementation", resolve(impl)>>
           j == <<"addressesProvider", resolve(Provider)>>
<1>1. initialized(impl) = {i, j} \cup p
  BY DEF initialized
<1>2. /\ i[1] = "implementation" /\ j[1] = "addressesProvider" /\ j[2] = resolve(Provider)
      /\ \A x \in p : x[1] = "pool" /\ x[2] \in currentPool
  OBVIOUS
<1>3. ASSUME proxyOf(impl) # "LendingPool", NEW a \in currentPool
      PROVE  \E r \in p : r[2] = a
  <2>1. <<"pool", a>> \in p /\ <<"pool", a>>[2] = a
    BY <1>3
  <2> QED
    BY <2>1
<1> HIDE DEF i, j, p
<1>4. {x \in initialized(impl) : x[1] = "addressesProvider"} = {j}
  BY <1>1, <1>2
<1>5. {x \in initialized(impl) : x[1] = "pool"} = p
  BY <1>1, <1>2
<1>6. ASSUME proxyOf(impl) # "LendingPool" PROVE {r[2] : r \in p} = currentPool
  BY <1>2, <1>3, <1>6
<1> QED
  BY <1>2, <1>4, <1>5, <1>6

\* A created proxy is the only one of its provider and new to all; nothing else changes.
LEMMA CreateWrites ==
    ASSUME Inv, NEW proxy \in Proxies, NEW new, Creates(proxy, new), UNCHANGED <<files, pools>>,
           db[Provider] \in Instances
    PROVE  /\ \A id \in Contracts : \A field :
                (id # Provider \/ field # proxy) => sameField(id, field)
           /\ \A p \in Proxies, n \in Instances :
                storage'[p][n] = IF p = proxy /\ n = new THEN initialized(item.impl) ELSE storage[p][n]
           /\ \A n \in Instances : \A p \in Proxies :
                named(<<Provider, n>>, p)' =
                  IF n = db[Provider] /\ p = proxy THEN {<<proxy, new>>} ELSE named(<<Provider, n>>, p)
           /\ \A n \in Instances : n # db[Provider] => storage'[Provider][n] = storage[Provider][n]
           /\ \A p \in Proxies, n \in Instances :
                revision'[p][n] = IF p = proxy /\ n = new THEN getRevision(item.impl)
                                                          ELSE revision[p][n]
           /\ \A p \in Proxies : deployed'[p] = IF p = proxy THEN new ELSE deployed[p]
<1> DEFINE ref == <<proxy, <<proxy, new>>>>
           old == storage[Provider][db[Provider]]
<1>1. /\ storage \in [Ids -> [Instances -> SUBSET Refs(AllFields)]]
      /\ revision \in [Proxies -> [Instances -> 0..4]] /\ deployed \in [Ids -> 0..MaxInstances]
      /\ db \in [Ids -> Nat]
  BY DEF Inv, TypeOK
<1>2. /\ Provider \in Ids /\ Provider \notin Proxies /\ proxy \in Ids /\ proxy # Provider
      /\ \A p \in Proxies : p \in Ids
  BY DeploymentNames DEF Contracts, Ids
<1>3. /\ storage' = [storage EXCEPT ![proxy][new] = initialized(item.impl),
                       ![Provider][db[Provider]] = @ \cup {<<proxy, <<proxy, new>>>>}]
      /\ revision' = [revision EXCEPT ![proxy][new] = getRevision(item.impl)]
      /\ deployed' = [deployed EXCEPT ![proxy] = new]
      /\ new \in Instances /\ UNCHANGED db
      /\ named(resolve(Provider), proxy) = {}
  BY DEF Creates, files
<1>4. \A id \in Ids : id # Provider /\ id # proxy => storage'[id] = storage[id]
  BY <1>1, <1>2, <1>3
<1>5. \A n \in Instances :
        /\ storage'[proxy][n] = IF n = new THEN initialized(item.impl) ELSE storage[proxy][n]
        /\ storage'[Provider][n] = IF n = db[Provider] THEN old \cup {ref} ELSE storage[Provider][n]
  BY <1>1, <1>2, <1>3
<1>6. \A p \in Proxies, n \in Instances :
        revision'[p][n] = IF p = proxy /\ n = new THEN getRevision(item.impl) ELSE revision[p][n]
  BY <1>1, <1>3
<1>7. \A p \in Proxies : deployed'[p] = IF p = proxy THEN new ELSE deployed[p]
  BY <1>1, <1>2, <1>3
<1> HIDE DEF old
<1>8. \A id \in Contracts : \A field : (id # Provider \/ field # proxy) => sameField(id, field)
  <2> TAKE id \in Contracts
  <2> TAKE field
  <2>1. CASE id # Provider
    BY <1>2, <1>3, <1>4, <2>1 DEF sameField, Contracts
  <2>2. CASE id = Provider /\ field # proxy
    <3>1. \A x : x[1] = field => (x \in old \cup {ref} <=> x \in old)
      BY <2>2
    <3>2. storage'[id][db[id]] = old \cup {ref} /\ storage[id][db[id]] = old
      BY <1>5, <2>2 DEF old
    <3> HIDE DEF ref
    <3> QED
      BY <1>3, <3>1, <3>2 DEF sameField
  <2> QED
    BY <2>1, <2>2
<1>9. ASSUME NEW n \in Instances, NEW p \in Proxies
      PROVE  named(<<Provider, n>>, p)' =
               IF n = db[Provider] /\ p = proxy THEN {<<proxy, new>>} ELSE named(<<Provider, n>>, p)
  <2>1. /\ named(<<Provider, n>>, p)' = {r[2] : r \in {x \in storage'[Provider][n] : x[1] = p}}
        /\ named(<<Provider, n>>, p) = {r[2] : r \in {x \in storage[Provider][n] : x[1] = p}}
    BY DEF named
  <2>2. CASE n # db[Provider]
    BY <1>5, <2>1, <2>2
  <2>3. CASE n = db[Provider] /\ p # proxy
    <3>1. {x \in old \cup {ref} : x[1] = p} = {x \in old : x[1] = p}
      BY <2>3
    <3> QED
      BY <1>5, <2>1, <2>3, <3>1 DEF old
  <2>4. CASE n = db[Provider] /\ p = proxy
    <3>1. {r[2] : r \in {x \in old : x[1] = p}} = {}
      BY <1>2, <1>3, <2>4, NamedHere DEF old
    <3>2. \A x \in old : x[1] # p
      BY <3>1
    <3>3. {x \in old \cup {ref} : x[1] = p} = {ref}
      BY <2>4, <3>2
    <3>4. {r[2] : r \in {ref}} = {<<proxy, new>>}
      OBVIOUS
    <3> HIDE DEF ref
    <3> QED
      BY <1>5, <2>1, <2>4, <3>3, <3>4
  <2> QED
    BY <2>2, <2>3, <2>4
<1>10. ASSUME NEW p \in Proxies, NEW n \in Instances
       PROVE  storage'[p][n] = IF p = proxy /\ n = new THEN initialized(item.impl) ELSE storage[p][n]
  BY <1>2, <1>4, <1>5
<1> QED
  BY <1>5, <1>6, <1>7, <1>8, <1>9, <1>10

\* An upgrade changes the proxy alone.
LEMMA UpgradeWrites ==
    ASSUME Inv, NEW proxy \in Proxies, NEW a, Upgrades(proxy, a), UNCHANGED <<files, pools>>,
           db[Provider] \in Instances
    PROVE  /\ \A id \in Contracts : \A field : sameField(id, field)
           /\ \A p \in Proxies, n \in Instances :
                storage'[p][n] = IF p = proxy /\ n = a[2] THEN initialized(item.impl)
                                                          ELSE storage[p][n]
           /\ storage'[Provider] = storage[Provider]
           /\ \A p \in Proxies, n \in Instances :
                revision'[p][n] = IF p = proxy /\ n = a[2] THEN getRevision(item.impl)
                                                           ELSE revision[p][n]
           /\ UNCHANGED deployed
           /\ a = <<proxy, a[2]>> /\ a[2] \in Instances /\ Exists(a)
           /\ a \in named(<<Provider, db[Provider]>>, proxy)
<1>1. /\ storage \in [Ids -> [Instances -> SUBSET Refs(AllFields)]]
      /\ revision \in [Proxies -> [Instances -> 0..4]] /\ deployed \in [Ids -> 0..MaxInstances]
  BY DEF Inv, TypeOK
<1>2. /\ Provider \in Ids /\ Provider \notin Proxies /\ proxy \in Ids /\ proxy # Provider
      /\ \A p \in Proxies : p \in Ids
  BY DeploymentNames DEF Contracts, Ids
<1>3. /\ storage' = [storage EXCEPT ![proxy][a[2]] = initialized(item.impl)]
      /\ revision' = [revision EXCEPT ![proxy][a[2]] = getRevision(item.impl)]
      /\ UNCHANGED deployed /\ UNCHANGED db
      /\ a \in named(<<Provider, db[Provider]>>, proxy)
  BY <1>2 DEF Upgrades, files, resolve
<1>4. \A id \in Ids : id # proxy => storage'[id] = storage[id]
  BY <1>1, <1>2, <1>3
<1>5. \A p \in Proxies, n \in Instances :
        storage'[p][n] = IF p = proxy /\ n = a[2] THEN initialized(item.impl) ELSE storage[p][n]
  BY <1>1, <1>2, <1>3
<1>6. \A p \in Proxies, n \in Instances :
        revision'[p][n] = IF p = proxy /\ n = a[2] THEN getRevision(item.impl) ELSE revision[p][n]
  BY <1>1, <1>3
<1>7. a \in Addresses /\ Exists(a) /\ a[1] = proxy
  BY <1>2, <1>3, Held
<1>8. a[2] \in 1..deployed[proxy] /\ a = <<proxy, a[2]>>
  BY <1>2, <1>7 DEF Exists, Addresses
<1>9. a[2] \in Instances
  BY <1>1, <1>2, <1>8, DeploymentAssumption DEF Instances
<1>10. \A id \in Contracts : \A field : sameField(id, field)
  BY <1>3, <1>4 DEF sameField, Contracts
<1> QED
  BY <1>2, <1>3, <1>4, <1>5, <1>6, <1>7, <1>8, <1>9, <1>10

\* What is known of a provider's proxies and of the instances nothing stands for.
Sound == OneProxy /\ OfProvider /\ Fresh /\ Revised /\ Pristine

\* Where no proxy and no reserve changes, the fields of every provider for them are the same or
\* empty, and a provider that is not yet in the file stays as it was constructed, all stays sound.
LEMMA SoundSame ==
    ASSUME Inv, Sound,
           \A p \in Proxies : storage'[p] = storage[p],
           \A n \in Instances : \/ \A p \in Proxies : named(<<Provider, n>>, p)' = named(<<Provider, n>>, p)
                                \/ \A p \in Proxies : named(<<Provider, n>>, p)' = {},
           UNCHANGED <<revision, pools>>, \A p \in Proxies : deployed'[p] = deployed[p],
           Fresh'
    PROVE  Sound'
<1>1. OneProxy'
  BY DEF Sound, OneProxy
<1>2. OfProvider'
  <2> SUFFICES ASSUME NEW n \in Instances, NEW p \in Proxies, NEW a \in named(<<Provider, n>>, p)'
               PROVE  /\ named(a, "addressesProvider")' = {<<Provider, n>>}
                      /\ p = "LendingPoolConfigurator" =>
                           /\ named(<<Provider, n>>, "LendingPool")' # {}
                           /\ named(a, "pool")' = named(<<Provider, n>>, "LendingPool")'
    BY DEF OfProvider
  <2>1. \A q \in Proxies : named(<<Provider, n>>, q)' = named(<<Provider, n>>, q)
    OBVIOUS
  <2>2. a \in named(<<Provider, n>>, p) /\ "LendingPool" \in Proxies
    BY <2>1 DEF Proxies
  <2>3. a[1] = p
    BY <2>2, DeploymentNames, Held DEF Contracts
  <2>4. \A field : named(a, field)' = named(a, field)
    BY <2>3 DEF named
  <2>5. /\ named(a, "addressesProvider") = {<<Provider, n>>}
        /\ p = "LendingPoolConfigurator" =>
             /\ named(<<Provider, n>>, "LendingPool") # {}
             /\ named(a, "pool") = named(<<Provider, n>>, "LendingPool")
    BY <2>2 DEF Sound, OfProvider
  <2> QED
    BY <2>1, <2>2, <2>4, <2>5
<1>3. Revised' /\ Pristine'
  <2>1. deployed'["LendingPool"] = deployed["LendingPool"]
    BY DEF Proxies
  <2> QED
    BY <2>1 DEF Sound, Revised, Pristine
<1> QED
  BY <1>1, <1>2, <1>3 DEF Sound

\* The provider's fields for proxies, in the provider of the file and in the others.
LEMMA ProviderSame ==
    ASSUME Inv, \A n \in Instances : n # db[Provider] => storage'[Provider][n] = storage[Provider][n],
           \A p \in Proxies : sameField(Provider, p)
    PROVE  \A n \in Instances, p \in Proxies : named(<<Provider, n>>, p)' = named(<<Provider, n>>, p)
<1> TAKE n \in Instances, p \in Proxies
<1>1. /\ named(<<Provider, n>>, p)' = {r[2] : r \in {x \in storage'[Provider][n] : x[1] = p}}
      /\ named(<<Provider, n>>, p) = {r[2] : r \in {x \in storage[Provider][n] : x[1] = p}}
  BY DEF named
<1>2. CASE n # db[Provider]
  BY <1>1, <1>2
<1>3. CASE n = db[Provider]
  <2>1. n # 0
    BY DeploymentAssumption DEF Instances
  <2>2. {x \in storage'[Provider][n] : x[1] = p} = {x \in storage[Provider][n] : x[1] = p}
    BY <1>3, <2>1 DEF sameField
  <2> QED
    BY <1>1, <2>2
<1> QED
  BY <1>2, <1>3

\* Steps that write into one contract of the file.
LEMMA SoundWritten ==
    ASSUME Inv, Sound, SetAddress \/ Authorize \/ InitializeOnce
    PROVE  Sound'
<1>1. \A p \in Proxies : storage'[p] = storage[p]
  BY SetStep, InitializeStep
<1>2. \A p \in Proxies : sameField(Provider, p)
  <2>1. Provider \in Ids /\ \A p \in Proxies : p \notin Fields
    BY DeploymentNames, InitializationNames DEF Contracts
  <2>2. CASE SetAddress \/ Authorize
    <3>1. /\ \A id \in Ids : \A field : (id # item.on \/ field # item.field) => sameField(id, field)
          /\ item.field \in Fields
      BY <2>2, SetWrites
    <3> QED
      BY <2>1, <3>1
  <2>3. CASE InitializeOnce
    <3>1. /\ \A id \in Ids : \A field :
               (id # item.on \/ \A f \in item.fields : f[1] # field) => sameField(id, field)
          /\ item.fields \in SUBSET (Fields \X Names)
      BY <2>3, InitializeWrites
    <3> QED
      BY <2>1, <3>1
  <2> QED
    BY <2>2, <2>3
<1>3. PICK on, S : storage' = [storage EXCEPT ![on][db[on]] = S]
  BY DEF SetAddress, Authorize, InitializeOnce
<1>4. UNCHANGED <<calldata, db, deployed, revision, pools>>
  BY DEF SetAddress, Authorize, InitializeOnce, files
<1>5. \A n \in Instances : n # db[Provider] => storage'[Provider][n] = storage[Provider][n]
  <2>1. storage \in [Ids -> [Instances -> SUBSET Refs(AllFields)]]
    BY DEF Inv, TypeOK
  <2>2. Provider \in Ids
    BY DeploymentNames DEF Contracts
  <2> QED
    BY <1>3, <2>1, <2>2
<1>6. \A n \in Instances, p \in Proxies : named(<<Provider, n>>, p)' = named(<<Provider, n>>, p)
  BY <1>2, <1>5, ProviderSame
<1>7. Fresh'
  <2>1. \A n \in Instances : n > db[Provider] => n # db[Provider]
    <3>1. db[Provider] \in Nat
      BY DeploymentNames DEF Inv, TypeOK, Contracts
    <3> QED
      BY <3>1, DeploymentAssumption DEF Instances
  <2> QED
    BY <1>4, <1>5, <2>1 DEF Sound, Fresh
<1> QED
  BY <1>1, <1>4, <1>6, <1>7, SoundSame

\* A provider is deployed as it is constructed, and has no proxies yet.
LEMMA SoundDeployed == ASSUME Inv, Sound, DeployToOasysTestnet PROVE Sound'
<1>1. item \in Items /\ item.do = "deploy" /\ TypeOK
  BY Proceeding DEF Inv, DeployToOasysTestnet, perform, doing
<1>2. item.id \in Contracts /\ item.id \in Ids
  BY <1>1, ItemFields DEF Contracts
<1>3. PICK refs \in calldata[item.id] :
        storage' = [storage EXCEPT ![item.id][deployed[item.id] + 1] = refs]
  BY DEF DeployToOasysTestnet
<1>4. /\ UNCHANGED <<calldata, db, revision, pools>>
      /\ deployed' = [deployed EXCEPT ![item.id] = @ + 1]
  BY DEF DeployToOasysTestnet, files
<1>5. \A p \in Proxies : storage'[p] = storage[p] /\ deployed'[p] = deployed[p]
  <2>1. \A p \in Proxies : p # item.id
    BY <1>2 DEF Contracts
  <2>2. deployed \in [Ids -> 0..MaxInstances] /\ \A p \in Proxies : p \in Ids
    BY DEF Inv, TypeOK, Ids
  <2> QED
    BY <1>4, <2>1, <2>2, DeployStep
<1>6. \A r \in refs : r[1] \in Constructor
  BY <1>2 DEF Sound, Fresh
<1>7. \A n \in Instances : storage'[Provider][n] \in {storage[Provider][n], refs}
  <2>1. storage \in [Ids -> [Instances -> SUBSET Refs(AllFields)]] /\ Provider \in Ids
    BY DeploymentNames DEF Inv, TypeOK, Contracts
  <2> QED
    BY <1>2, <1>3, <2>1
<1>8. ASSUME NEW n \in Instances
      PROVE  \/ \A p \in Proxies : named(<<Provider, n>>, p)' = named(<<Provider, n>>, p)
             \/ \A p \in Proxies : named(<<Provider, n>>, p)' = {}
  <2>1. \A p : named(<<Provider, n>>, p)' = {r[2] : r \in {x \in storage'[Provider][n] : x[1] = p}}
    BY DEF named
  <2>2. CASE storage'[Provider][n] = storage[Provider][n]
    BY <2>2 DEF named
  <2>3. CASE storage'[Provider][n] = refs
    <3>1. \A p \in Proxies : {x \in refs : x[1] = p} = {}
      BY <1>6 DEF Constructor, Proxies
    <3> QED
      BY <2>1, <2>3, <3>1
  <2> QED
    BY <1>7, <2>2, <2>3
<1>9. Fresh'
  BY <1>4, <1>6, <1>7 DEF Sound, Fresh
<1> QED
  BY <1>4, <1>5, <1>8, <1>9, SoundSame

\* Steps that leave the storage alone.
LEMMA SoundStored ==
    ASSUME Inv, Sound, UNCHANGED <<storage, deployed, revision, pools>>, Fresh'
    PROVE  Sound'
<1>1. \A n, p : named(<<Provider, n>>, p)' = named(<<Provider, n>>, p)
  BY DEF named
<1> QED
  BY <1>1, SoundSame

\* Call data is exported, and contracts and proxies are written to the file.
LEMMA SoundFiles ==
    ASSUME Inv, Sound, SaveDeploymentCallData \/ RegisterContractAddress \/ InsertProxyAddress
    PROVE  Sound'
<1>1. UNCHANGED <<storage, deployed, revision, pools>>
  BY DEF SaveDeploymentCallData, RegisterContractAddress, InsertProxyAddress, chain
<1>2. CASE SaveDeploymentCallData
  <2>1. /\ calldata' = [id \in Ids |-> IF id \in item.ids THEN {constructed(id)} ELSE calldata[id]]
        /\ UNCHANGED db
    BY <1>2 DEF SaveDeploymentCallData
  <2>2. \A id : \A r \in constructed(id) : r[1] \in Constructor
    BY DEF constructed, Constructor
  <2>3. Fresh'
    BY <1>1, <2>1, <2>2 DEF Sound, Fresh
  <2> QED
    BY <1>1, <2>3, SoundStored
<1>3. CASE RegisterContractAddress \/ InsertProxyAddress
  <2>1. UNCHANGED calldata /\ db'[Provider] >= db[Provider] /\ db'[Provider] \in Nat /\ db[Provider] \in Nat
    <3>1. /\ db \in [Ids -> Nat] /\ deployed \in [Ids -> 0..MaxInstances] /\ Provider \in Ids
          /\ MaxInstances \in Nat /\ db[Provider] <= deployed[Provider]
      BY DeploymentNames, DeploymentAssumption DEF Inv, TypeOK, NoDanglingReference, Contracts
    <3>2. CASE RegisterContractAddress
      <4>1. db' = [db EXCEPT ![item.id] = deployed[item.id]] /\ UNCHANGED calldata
        BY <3>2 DEF RegisterContractAddress
      <4>2. db'[Provider] \in {db[Provider], deployed[Provider]}
        BY <3>1, <4>1
      <4> QED
        BY <3>1, <4>1, <4>2
    <3>3. CASE InsertProxyAddress
      <4>1. item \in Items /\ item.do = "insertProxy"
        BY <3>3, Proceeding DEF Inv, InsertProxyAddress, perform, doing
      <4>2. item.id \in Proxies /\ Provider \notin Proxies
        BY <4>1, ItemFields, DeploymentNames DEF Contracts
      <4>3. PICK n : db' = [db EXCEPT ![item.id] = n]
        BY <3>3 DEF InsertProxyAddress
      <4>4. db'[Provider] = db[Provider]
        BY <3>1, <4>2, <4>3
      <4> QED
        BY <3>1, <3>3, <4>4 DEF InsertProxyAddress
    <3> QED
      BY <1>3, <3>2, <3>3
  <2>2. \A n \in Instances : n > db'[Provider] => n > db[Provider]
    BY <2>1, DeploymentAssumption DEF Instances
  <2>3. Fresh'
    BY <1>1, <2>1, <2>2 DEF Sound, Fresh
  <2> QED
    BY <1>1, <2>3, SoundStored
<1> QED
  BY <1>2, <1>3

-----------------------------------------------------------------------------
(* Proxies read, created and upgraded                                      *)

\* The proxy read from the provider is the one the file names afterwards.
LEMMA InsertStands ==
    ASSUME Inv, Sound, InsertProxyAddress, NEW c \in Conditions, Establishes(item, c)
    PROVE  Stands(c)'
<1>1. item \in Items /\ item.do = "insertProxy" /\ accepted(item)
  BY Proceeding DEF Inv, InsertProxyAddress, perform, doing
<1>2. PICK id : id = item.id
  OBVIOUS
<1>3. id \in Proxies /\ id \in Ids /\ id # Provider /\ Provider \in Ids /\ Provider \in Names
      /\ known(Provider)
  BY <1>1, <1>2, ItemFields, Accepted, DeploymentNames, InitializationNames DEF Contracts, Ids
<1>4. c = Is(Provider, id, id)
  BY <1>1, <1>2 DEF Establishes
<1>5. PICK a \in named(resolve(Provider), id) : db' = [db EXCEPT ![id] = a[2]]
  BY <1>2 DEF InsertProxyAddress
<1>6. db[Provider] \in Instances /\ db[Provider] # 0 /\ resolve(Provider) = <<Provider, db[Provider]>>
  BY <1>3, Resolved DEF known, resolve
<1>7. a \in Addresses /\ a[1] = id
  BY <1>3, <1>5, <1>6, Held
<1>8. named(resolve(Provider), id) = {a}
  BY <1>3, <1>5, <1>6 DEF Sound, OneProxy
<1>9. db \in [Ids -> Nat] /\ UNCHANGED storage
  BY DEF Inv, TypeOK, InsertProxyAddress, chain
<1>10. db'[Provider] = db[Provider] /\ db'[id] = a[2]
  BY <1>3, <1>5, <1>9
<1>11. sameField(Provider, id)
  BY <1>9, <1>10 DEF sameField
<1>12. named(resolve(Provider), id)' = {a}
  BY <1>3, <1>6, <1>8, <1>11, NamedSame
<1>13. resolve(id)' = a
  BY <1>3, <1>7, <1>10 DEF resolve, Addresses
<1> QED
  BY <1>4, <1>6, <1>10, <1>12, <1>13 DEF Stands, Is

\* A proxy of another provider, or another proxy, is not the new one.
LEMMA OtherProxy ==
    ASSUME Inv, NEW n \in Instances, NEW p \in Proxies, NEW a \in named(<<Provider, n>>, p)
    PROVE  /\ a = <<p, a[2]>> /\ a[2] \in Instances /\ a[2] <= deployed[p]
           /\ \A field : /\ named(a, field) = {r[2] : r \in {x \in storage[p][a[2]] : x[1] = field}}
                         /\ named(a, field)' = {r[2] : r \in {x \in storage'[p][a[2]] : x[1] = field}}
<1>1. Provider \in Ids /\ p \in Ids
  BY DeploymentNames DEF Contracts, Ids
<1>2. a \in Addresses /\ Exists(a) /\ a[1] = p
  BY <1>1, Held
<1>3. a[2] \in 1..deployed[p] /\ a = <<p, a[2]>> /\ deployed[p] \in 0..MaxInstances
  BY <1>1, <1>2 DEF Exists, Addresses, Inv, TypeOK
<1>4. a[2] \in Instances /\ a[2] <= deployed[p]
  BY <1>3, DeploymentAssumption DEF Instances
<1> QED
  BY <1>2, <1>3, <1>4 DEF named

\* A proxy is created for the provider of the file and with its pool.
LEMMA SoundCreated ==
    ASSUME Inv, Sound, SetImpl,
           item.impl = "LendingPoolConfiguratorImpl" =>
             Stands(Is(Provider, "LendingPool", "LendingPool")),
           NEW proxy \in Proxies, proxy = proxyOf(item.impl), NEW new, Creates(proxy, new)
    PROVE  Sound'
<1>1. /\ UNCHANGED <<files, pools>> /\ db[Provider] \in Instances
      /\ item.impl \in {"LendingPoolImpl", "LendingPoolTmpImpl", "LendingPoolV4Impl",
                        "LendingPoolConfiguratorImpl"}
  BY SetImplCases
<1>2. /\ \A p \in Proxies, n \in Instances :
           storage'[p][n] = IF p = proxy /\ n = new THEN initialized(item.impl) ELSE storage[p][n]
      /\ \A n \in Instances : \A p \in Proxies :
           named(<<Provider, n>>, p)' =
             IF n = db[Provider] /\ p = proxy THEN {<<proxy, new>>} ELSE named(<<Provider, n>>, p)
      /\ \A n \in Instances : n # db[Provider] => storage'[Provider][n] = storage[Provider][n]
      /\ \A p \in Proxies, n \in Instances :
           revision'[p][n] = IF p = proxy /\ n = new THEN getRevision(item.impl) ELSE revision[p][n]
      /\ \A p \in Proxies : deployed'[p] = IF p = proxy THEN new ELSE deployed[p]
  <2>1. UNCHANGED <<files, pools>> /\ db[Provider] \in Instances /\ Creates(proxy, new) /\ Inv
        /\ proxy \in Proxies
    BY <1>1
  <2> QED
    BY ONLY <2>1, CreateWrites
<1>3. /\ new \in Instances /\ new = deployed[proxy] + 1 /\ named(resolve(Provider), proxy) = {}
      /\ deployed[proxy] \in Nat
  <2>1. proxy \in Ids /\ MaxInstances \in Nat
    BY DeploymentAssumption DEF Ids
  <2> QED
    BY <2>1 DEF Creates, Inv, TypeOK
<1>4. /\ resolve(Provider) = <<Provider, db[Provider]>>
      /\ "LendingPool" \in Proxies /\ "LendingPoolConfigurator" \in Proxies
      /\ proxy = "LendingPoolConfigurator" => item.impl = "LendingPoolConfiguratorImpl"
      /\ proxy = "LendingPool" => item.impl # "LendingPoolConfiguratorImpl"
  BY DeploymentNames DEF resolve, Contracts, Proxies, proxyOf
<1>5. OneProxy'
  <2> SUFFICES ASSUME NEW n \in Instances, NEW p \in Proxies,
                      NEW a \in named(<<Provider, n>>, p)', NEW b \in named(<<Provider, n>>, p)'
               PROVE  a = b
    BY DEF OneProxy
  <2> QED
    BY <1>2 DEF Sound, OneProxy
<1>6. OfProvider'
  <2> SUFFICES ASSUME NEW n \in Instances, NEW p \in Proxies, NEW a \in named(<<Provider, n>>, p)'
               PROVE  /\ named(a, "addressesProvider")' = {<<Provider, n>>}
                      /\ p = "LendingPoolConfigurator" =>
                           /\ named(<<Provider, n>>, "LendingPool")' # {}
                           /\ named(a, "pool")' = named(<<Provider, n>>, "LendingPool")'
    BY DEF OfProvider
  <2>1. CASE n = db[Provider] /\ p = proxy
    <3>1. a = <<proxy, new>>
      BY <1>2, <2>1
    <3>2. storage'[proxy][new] = initialized(item.impl)
      BY <1>2, <1>3
    <3>3. \A field : named(a, field)' = {r[2] : r \in {x \in initialized(item.impl) : x[1] = field}}
      BY <3>1, <3>2 DEF named
    <3>4. named(a, "addressesProvider")' = {<<Provider, n>>}
      BY <1>4, <2>1, <3>3, InitializedFields
    <3>5. ASSUME p = "LendingPoolConfigurator"
          PROVE  /\ named(<<Provider, n>>, "LendingPool")' # {}
                 /\ named(a, "pool")' = named(<<Provider, n>>, "LendingPool")'
      <4>1. named(<<Provider, n>>, "LendingPool")' = currentPool
        BY <1>2, <1>4, <2>1, <3>5 DEF currentPool
      <4>2. named(a, "pool")' = currentPool
        BY <2>1, <3>3, <3>5, InitializedFields
      <4>3. Stands(Is(Provider, "LendingPool", "LendingPool"))
        BY <1>4, <2>1, <3>5
      <4>4. currentPool = {resolve("LendingPool")}
        BY <4>3 DEF Stands, Is, currentPool
      <4> QED
        BY <4>1, <4>2, <4>4
    <3> QED
      BY <3>4, <3>5
  <2>2. CASE ~(n = db[Provider] /\ p = proxy)
    <3>1. a \in named(<<Provider, n>>, p)
      BY <1>2, <2>2
    <3>2. /\ a[2] \in Instances /\ a[2] <= deployed[p]
          /\ \A field : /\ named(a, field) = {r[2] : r \in {x \in storage[p][a[2]] : x[1] = field}}
                        /\ named(a, field)' = {r[2] : r \in {x \in storage'[p][a[2]] : x[1] = field}}
      BY <3>1, OtherProxy
    <3>3. ~(p = proxy /\ a[2] = new)
      BY <1>3, <3>2 DEF Instances
    <3>4. storage'[p][a[2]] = storage[p][a[2]]
      BY <1>2, <3>2, <3>3
    <3>5. \A field : named(a, field)' = named(a, field)
      BY <3>2, <3>4
    <3>6. /\ named(a, "addressesProvider") = {<<Provider, n>>}
          /\ p = "LendingPoolConfigurator" =>
               /\ named(<<Provider, n>>, "LendingPool") # {}
               /\ named(a, "pool") = named(<<Provider, n>>, "LendingPool")
      BY <3>1 DEF Sound, OfProvider
    <3>7. p = "LendingPoolConfigurator" => ~(n = db[Provider] /\ proxy = "LendingPool")
      BY <1>3, <1>4, <3>6
    <3>8. p = "LendingPoolConfigurator" =>
            named(<<Provider, n>>, "LendingPool")' = named(<<Provider, n>>, "LendingPool")
      BY <1>2, <1>4, <3>7
    <3> QED
      BY <3>5, <3>6, <3>8
  <2> QED
    BY <2>1, <2>2
<1>7. Fresh'
  <2>1. UNCHANGED <<calldata, db>> /\ \A n \in Instances : n > db[Provider] => n # db[Provider]
    BY <1>1, DeploymentAssumption DEF files, Instances
  <2> QED
    BY <1>2, <2>1 DEF Sound, Fresh
<1>8. \A n \in Instances : n <= deployed'["LendingPool"] =>
        n <= deployed["LendingPool"] \/ (proxy = "LendingPool" /\ n = new)
  BY <1>2, <1>3, <1>4, DeploymentAssumption DEF Instances
<1>9. Revised'
  <2>1. proxy = "LendingPool" => getRevision(item.impl) >= 2
    BY <1>1, <1>4 DEF getRevision
  <2> SUFFICES ASSUME NEW n \in Instances, n <= deployed'["LendingPool"]
               PROVE  revision'["LendingPool"][n] >= 2
    BY DEF Revised
  <2>2. CASE proxy = "LendingPool" /\ n = new
    BY <1>2, <1>4, <2>1, <2>2
  <2>3. CASE ~(proxy = "LendingPool" /\ n = new)
    BY <1>2, <1>4, <1>8, <2>3 DEF Sound, Revised
  <2> QED
    BY <2>2, <2>3
<1>10. Pristine'
  <2>1. deployed["LendingPool"] \in Nat
    BY <1>4, DeploymentAssumption DEF Inv, TypeOK, Ids
  <2>2. \A n \in Instances : n > deployed'["LendingPool"] => n > deployed["LendingPool"]
    BY <1>2, <1>3, <1>4, <2>1, DeploymentAssumption DEF Instances
  <2> QED
    BY <1>1, <2>2 DEF Sound, Pristine
<1> QED
  BY <1>5, <1>6, <1>7, <1>9, <1>10 DEF Sound

\* An upgraded proxy keeps its provider and its pool.
LEMMA SoundUpgraded ==
    ASSUME Inv, Sound, SetImpl, NEW proxy \in Proxies, proxy = proxyOf(item.impl), NEW u,
           Upgrades(proxy, u)
    PROVE  Sound'
<1>1. /\ UNCHANGED <<files, pools>> /\ db[Provider] \in Instances
      /\ item.impl \in {"LendingPoolImpl", "LendingPoolTmpImpl", "LendingPoolV4Impl",
                        "LendingPoolConfiguratorImpl"}
  BY SetImplCases
<1>2. /\ \A p \in Proxies, n \in Instances :
           storage'[p][n] = IF p = proxy /\ n = u[2] THEN initialized(item.impl) ELSE storage[p][n]
      /\ storage'[Provider] = storage[Provider]
      /\ \A p \in Proxies, n \in Instances :
           revision'[p][n] = IF p = proxy /\ n = u[2] THEN getRevision(item.impl)
                                                      ELSE revision[p][n]
      /\ UNCHANGED deployed
      /\ u = <<proxy, u[2]>> /\ u[2] \in Instances
      /\ u \in named(<<Provider, db[Provider]>>, proxy)
  BY <1>1, UpgradeWrites
<1>3. /\ resolve(Provider) = <<Provider, db[Provider]>>
      /\ "LendingPool" \in Proxies /\ "LendingPoolConfigurator" \in Proxies
      /\ proxy = "LendingPool" => item.impl # "LendingPoolConfiguratorImpl"
  BY DeploymentNames DEF resolve, Contracts, Proxies, proxyOf
<1>4. \A n, p : named(<<Provider, n>>, p)' = named(<<Provider, n>>, p)
  BY <1>2 DEF named
<1>5. OneProxy'
  BY <1>4 DEF Sound, OneProxy
<1>6. OfProvider'
  <2> SUFFICES ASSUME NEW n \in Instances, NEW p \in Proxies, NEW a \in named(<<Provider, n>>, p)'
               PROVE  /\ named(a, "addressesProvider")' = {<<Provider, n>>}
                      /\ p = "LendingPoolConfigurator" =>
                           /\ named(<<Provider, n>>, "LendingPool")' # {}
                           /\ named(a, "pool")' = named(<<Provider, n>>, "LendingPool")'
    BY DEF OfProvider
  <2>1. a \in named(<<Provider, n>>, p)
    BY <1>4
  <2>2. /\ a = <<p, a[2]>> /\ a[2] \in Instances
        /\ \A field : /\ named(a, field) = {r[2] : r \in {x \in storage[p][a[2]] : x[1] = field}}
                      /\ named(a, field)' = {r[2] : r \in {x \in storage'[p][a[2]] : x[1] = field}}
    BY <2>1, OtherProxy
  <2>3. /\ named(a, "addressesProvider") = {<<Provider, n>>}
        /\ p = "LendingPoolConfigurator" =>
             /\ named(<<Provider, n>>, "LendingPool") # {}
             /\ named(a, "pool") = named(<<Provider, n>>, "LendingPool")
    BY <2>1 DEF Sound, OfProvider
  <2>4. CASE p = proxy /\ a[2] = u[2]
    <3>1. a = u
      BY <1>2, <2>2, <2>4
    <3>2. named(u, "addressesProvider") = {<<Provider, db[Provider]>>}
      BY <1>1, <1>2 DEF Sound, OfProvider
    <3>3. n = db[Provider]
      <4>1. {<<Provider, n>>} = {<<Provider, db[Provider]>>}
        BY <2>3, <3>1, <3>2
      <4>2. <<Provider, n>> = <<Provider, db[Provider]>>
        BY <4>1
      <4> QED
        BY <4>2
    <3>4. \A field : named(a, field)' = {r[2] : r \in {x \in initialized(item.impl) : x[1] = field}}
      BY <1>2, <2>2, <2>4
    <3>5. named(a, "addressesProvider")' = {<<Provider, n>>}
      BY <1>3, <3>3, <3>4, InitializedFields
    <3>6. p = "LendingPoolConfigurator" => named(a, "pool")' = currentPool
      BY <2>4, <3>4, InitializedFields
    <3>7. named(<<Provider, n>>, "LendingPool")' = currentPool
      BY <1>3, <1>4, <3>3 DEF currentPool
    <3>8. named(<<Provider, n>>, "LendingPool")' = named(<<Provider, n>>, "LendingPool")
      BY <1>4
    <3> QED
      BY <2>3, <3>5, <3>6, <3>7, <3>8
  <2>5. CASE ~(p = proxy /\ a[2] = u[2])
    <3>1. storage'[p][a[2]] = storage[p][a[2]]
      BY <1>2, <2>2, <2>5
    <3>2. \A field : named(a, field)' = named(a, field)
      BY <2>2, <3>1
    <3>3. named(<<Provider, n>>, "LendingPool")' = named(<<Provider, n>>, "LendingPool")
      BY <1>4
    <3> QED
      BY <2>3, <3>2, <3>3
  <2> QED
    BY <2>4, <2>5
<1>7. Fresh'
  <2>1. UNCHANGED <<calldata, db>>
    BY <1>1 DEF files
  <2> QED
    BY <1>2, <2>1 DEF Sound, Fresh
<1>8. Revised'
  <2>1. proxy = "LendingPool" => getRevision(item.impl) >= 2
    BY <1>1, <1>3 DEF getRevision
  <2> SUFFICES ASSUME NEW n \in Instances, n <= deployed'["LendingPool"]
               PROVE  revision'["LendingPool"][n] >= 2
    BY DEF Revised
  <2>2. CASE proxy = "LendingPool" /\ n = u[2]
    BY <1>2, <1>3, <2>1, <2>2
  <2>3. CASE ~(proxy = "LendingPool" /\ n = u[2])
    BY <1>2, <1>3, <2>3 DEF Sound, Revised
  <2> QED
    BY <2>2, <2>3
<1>9. Pristine'
  BY <1>1, <1>2 DEF Sound, Pristine
<1> QED
  BY <1>5, <1>6, <1>7, <1>8, <1>9 DEF Sound

\* Both together.
LEMMA SoundSetImpl ==
    ASSUME Inv, Sound, SetImpl,
           item.impl = "LendingPoolConfiguratorImpl" =>
             Stands(Is(Provider, "LendingPool", "LendingPool"))
    PROVE  Sound'
<1>1. PICK proxy \in Proxies : /\ proxy = proxyOf(item.impl)
                               /\ (\E new : Creates(proxy, new)) \/ \E u : Upgrades(proxy, u)
  BY SetImplCases
<1> QED
  BY <1>1, SoundCreated, SoundUpgraded

\* Creating or upgrading a proxy undoes nothing: what a field for a proxy holds stays, and a new
\* pool lists and takes nothing.
LEMMA SetImplStands ==
    ASSUME Inv, Sound, SetImpl, NEW c \in Conditions
    PROVE  /\ Establishes(item, c) => Stands(c)'
           /\ Stands(c) => Stands(c)'
<1>1. PICK proxy \in Proxies : /\ proxy = proxyOf(item.impl)
                               /\ (\E new : Creates(proxy, new)) \/ \E u : Upgrades(proxy, u)
  BY SetImplCases
<1>2. /\ UNCHANGED <<files, pools>> /\ db[Provider] \in Instances /\ db[Provider] # 0
      /\ item.do = "setImpl" /\ upgradable(item.impl)
  BY SetImplCases
<1>3. /\ c.on \in Contracts /\ UNCHANGED db /\ sameReserves
      /\ "LendingPool" \in Proxies /\ resolve(Provider) = <<Provider, db[Provider]>>
      /\ Provider \in Ids
  BY <1>2, WrittenTyped, OfTyped, DeploymentNames
     DEF files, sameReserves, Proxies, resolve, Contracts
<1>4. ASSUME NEW a, Upgrades(proxy, a) PROVE Stands(c)' <=> Stands(c)
  <2>1. \A id \in Contracts : \A field : sameField(id, field)
    BY <1>2, <1>4, UpgradeWrites
  <2> QED
    BY <1>3, <2>1, Untouched
<1>5. ASSUME NEW new, Creates(proxy, new), ~(c.on = Provider /\ c.field = proxy)
      PROVE  Stands(c)' <=> Stands(c)
  <2>1. \A id \in Contracts : \A field : (id # Provider \/ field # proxy) => sameField(id, field)
    BY <1>2, <1>5, CreateWrites
  <2> QED
    BY <1>3, <1>5, <2>1, Untouched
<1>6. ASSUME NEW new, Creates(proxy, new), c.on = Provider, c.field = proxy
      PROVE  /\ Stands(c) => Stands(c)'
             /\ c.kind \in {"plain", "absent"} => Stands(c)'
  <2>1. named(resolve(Provider), proxy) = {}
    BY <1>6 DEF Creates
  <2>2. CASE c \in Written
    <3>1. c = Is(Provider, proxy, proxy)
      BY <1>1, <1>6, <2>2, WrittenTyped
    <3>2. ~Stands(c)
      BY <2>1, <3>1 DEF Stands, Is
    <3> QED
      BY <2>2, <3>2, WrittenTyped
  <2>3. CASE c \notin Written
    <3>1. c.kind \in PoolKinds /\ c.field = "LendingPool" /\ c.to \in Symbols
      BY <2>3, OfTyped
    <3>2. proxy = "LendingPool"
      BY <1>6, <3>1
    <3>3. livePool = {}
      BY <2>1, <3>2 DEF livePool, currentPool
    <3>4. \A n \in Instances : \A p \in Proxies :
            named(<<Provider, n>>, p)' =
              IF n = db[Provider] /\ p = proxy THEN {<<proxy, new>>} ELSE named(<<Provider, n>>, p)
      <4>1. UNCHANGED <<files, pools>> /\ db[Provider] \in Instances /\ Creates(proxy, new) /\ Inv
            /\ proxy \in Proxies
        BY <1>2, <1>6
      <4> TAKE n \in Instances
      <4> TAKE p \in Proxies
      <4> QED
        BY <4>1, CreateWrites
    <3>5. currentPool' = {<<"LendingPool", new>>}
      <4>1. resolve(Provider)' = <<Provider, db[Provider]>>
        BY <1>3, ResolveSame
      <4> QED
        BY <1>2, <1>3, <3>2, <3>4, <4>1 DEF currentPool
    <3>6. livePool' = {<<"LendingPool", new>>}
      BY <1>2, <1>3, <3>5 DEF livePool
    <3>7. new \in Instances /\ new > deployed["LendingPool"]
      BY <1>3, <1>6, <3>2, DeploymentAssumption DEF Creates, Inv, TypeOK, Ids
    <3>8. LET r == pools[new].reserves[c.to] IN ~r.listed /\ ~r.borrowing /\ ~r.collateral
      BY <3>1, <3>7 DEF Sound, Pristine
    <3>9. \A a \in livePool' : pools'[a[2]] = pools[new]
      BY <1>2, <3>6
    <3> QED
      BY <3>1, <3>3, <3>8, <3>9 DEF Stands, PoolKinds
  <2> QED
    BY <2>2, <2>3
<1>7. ASSUME Establishes(item, c) PROVE Stands(c)'
  <2>1. item.impl = "LendingPoolImpl" /\ c.kind \in {"plain", "absent"}
    BY <1>2, <1>7 DEF Establishes
  <2>2. c \notin Written
    BY <2>1, WrittenTyped
  <2>3. c.on = Provider /\ c.field = "LendingPool" /\ proxy = "LendingPool"
    BY <1>1, <2>1, <2>2, OfTyped DEF proxyOf
  <2>4. ASSUME NEW a, Upgrades(proxy, a) PROVE FALSE
    <3>1. a \in named(<<Provider, db[Provider]>>, "LendingPool")
      BY <1>3, <2>3, <2>4 DEF Upgrades
    <3>2. a = <<"LendingPool", a[2]>> /\ a[2] \in Instances /\ a[2] <= deployed["LendingPool"]
      BY <1>2, <1>3, <3>1, OtherProxy
    <3>3. revision["LendingPool"][a[2]] >= 2
      BY <3>2 DEF Sound, Revised
    <3>4. 2 > revision[a[1]][a[2]]
      BY <1>2, <1>3, <2>1, <2>3, <3>1 DEF upgradable, proxyOf, getRevision
    <3>5. revision["LendingPool"][a[2]] \in 0..4 /\ a[1] = "LendingPool"
      BY <1>3, <3>2 DEF Inv, TypeOK
    <3> QED
      BY <3>3, <3>4, <3>5
  <2> QED
    BY <1>1, <1>6, <2>1, <2>3, <2>4
<1> QED
  BY <1>1, <1>4, <1>5, <1>6, <1>7

-----------------------------------------------------------------------------
(* Reserves listed and configured                                          *)

\* What a pool keeps of the reserves, and those of S listed besides.
listedBesides(q, pool, S) ==
  \A z \in Symbols : /\ q.reserves[z].listed <=> z \in S \/ pool.reserves[z].listed
                     /\ q.reserves[z].borrowing <=> pool.reserves[z].borrowing
                     /\ q.reserves[z].collateral <=> pool.reserves[z].collateral

\* initReserve lists one reserve.
LEMMA InitReserveLists ==
    ASSUME NEW rev, NEW pool \in Orderly, NEW s \in Symbols
    PROVE  listedBesides(initReserve(rev, pool, s), pool, {s})
<1> DEFINE added == alreadyAdded(pool, s)
           r     == [pool.reserves[s] EXCEPT !.listed = TRUE, !.liquid = FALSE,
                       !.id = IF added THEN @ ELSE Len(pool.list),
                       !.indexed = @ \/ rev # getRevision("LendingPoolTmpImpl")]
           list  == IF added THEN pool.list ELSE Append(pool.list, s)
           rs    == [pool.reserves EXCEPT ![s] = r]
<1>1. pool.reserves \in [Symbols -> Reserve]
  BY OrderlyParts DEF inOrder
<1>2. initReserve(rev, pool, s) = [list |-> list, reserves |-> rs]
  BY DEF initReserve
<1>3. /\ r.listed = TRUE /\ r.borrowing = pool.reserves[s].borrowing
      /\ r.collateral = pool.reserves[s].collateral
  <2>1. pool.reserves[s] \in Reserve
    BY <1>1
  <2> HIDE DEF added
  <2> QED
    BY <2>1 DEF Reserve
<1> HIDE DEF added, r
<1>4. \A z \in Symbols : rs[z] = IF z = s THEN r ELSE pool.reserves[z]
  BY <1>1
<1> HIDE DEF list, rs
<1>5. \A z \in Symbols : initReserve(rev, pool, s).reserves[z] = IF z = s THEN r ELSE pool.reserves[z]
  BY <1>2, <1>4
<1> QED
  BY <1>3, <1>5 DEF listedBesides

\* And a batch those of a sequence, one after the other.
LEMMA BatchLists ==
    ASSUME NEW rev, NEW pool \in Orderly, NEW assets \in Seq(Symbols)
    PROVE  listedBesides(batchListed(rev, pool, assets), pool, {s \in Symbols : among(s, assets)})
<1> DEFINE D == DOMAIN assets
           h == foldsOf(rev, pool, assets, D)
           of(T) == {assets[k] : k \in T}
           G == {T \in SUBSET D : h[T] \in Orderly /\ listedBesides(h[T], pool, of(T))}
<1>1. D \in SUBSET Nat /\ IsFiniteSet(D) /\ \A k \in D : assets[k] \in Symbols
  <2>1. D = 1..Len(assets) /\ Len(assets) \in Nat
    OBVIOUS
  <2>2. IsFiniteSet(1..Len(assets))
    BY <2>1, FS_Interval
  <2> QED
    BY <2>1, <2>2
<1>2. Folds(rev, pool, assets, D, h)
  <2>1. \E g : Folds(rev, pool, assets, D, g)
    BY <1>1, FoldExists
  <2> QED
    BY <2>1 DEF foldsOf
<1>3. batchListed(rev, pool, assets) = h[D]
  BY FoldIsFold
<1>4. of(D) = {s \in Symbols : among(s, assets)}
  BY <1>1 DEF among
<1> HIDE DEF h, D
<1>5. ASSUME NEW T \in SUBSET D, \A U \in SUBSET T : U # T => U \in G
      PROVE  T \in G
  <2>1. h[T] = foldStep(rev, pool, assets, h, T)
    BY <1>2 DEF Folds
  <2>2. CASE T = {}
    <3>1. h[T] = pool /\ of(T) = {}
      BY <2>1, <2>2 DEF foldStep
    <3> QED
      BY <3>1 DEF listedBesides
  <2>3. CASE T # {}
    <3> DEFINE m == Max(T)
               U == T \ {m}
               q == h[U]
    <3>1. m \in T
      BY <1>1, <2>3, Greatest
    <3>2. U \in SUBSET T /\ U # T
      BY <3>1
    <3>3. U \in G
      BY <1>5, <3>2
    <3>4. q \in Orderly /\ assets[m] \in Symbols /\ listedBesides(q, pool, of(U))
      BY <1>1, <3>1, <3>3
    <3>5. h[T] = initReserve(rev, q, assets[m])
      BY <2>1, <2>3 DEF foldStep
    <3>6. of(T) = of(U) \cup {assets[m]}
      BY <3>1
    <3> HIDE DEF q, U, m, of
    <3>7. h[T] \in Orderly /\ listedBesides(h[T], q, {assets[m]})
      BY <3>4, <3>5, InitReserveOrderly, InitReserveLists
    <3>8. listedBesides(h[T], pool, of(T))
      BY <3>4, <3>6, <3>7 DEF listedBesides
    <3> QED
      BY <3>7, <3>8
  <2> QED
    BY <2>2, <2>3
<1>6. \A T \in SUBSET D : T \in G
  <2> HIDE DEF G
  <2> QED
    BY <1>1, <1>5, SubsetInduction
<1>7. listedBesides(h[D], pool, of(D))
  BY <1>6
<1> QED
  BY <1>3, <1>4, <1>7

\* Where the file names the configurator of its provider, that and the helper change the pool of
\* the provider.
LEMMA ConfiguratorPool ==
    ASSUME Inv, Sound, \A c \in Core : Stands(c)
    PROVE  \E a : /\ livePool = {a} /\ a = <<"LendingPool", a[2]>>
                  /\ a[2] \in Instances /\ a[2] <= deployed["LendingPool"]
                  /\ named(resolve("LendingPoolConfigurator"), "pool") = {a}
                  /\ named(resolve("LTokensAndRatesHelper"), "poolConfigurator") =
                       {resolve("LendingPoolConfigurator")}
<1>1. /\ Stands(Is(Provider, "LendingPoolConfigurator", "LendingPoolConfigurator"))
      /\ Stands(Is("LTokensAndRatesHelper", "poolConfigurator", "LendingPoolConfigurator"))
  BY DEF Core
<1>2. /\ db[Provider] # 0
      /\ named(resolve(Provider), "LendingPoolConfigurator") = {resolve("LendingPoolConfigurator")}
      /\ named(resolve("LTokensAndRatesHelper"), "poolConfigurator") =
           {resolve("LendingPoolConfigurator")}
  BY <1>1 DEF Stands, Is
<1>3. /\ db[Provider] \in Instances /\ livePool = currentPool
      /\ resolve(Provider) = <<Provider, db[Provider]>>
      /\ "LendingPool" \in Proxies /\ "LendingPoolConfigurator" \in Proxies
  BY <1>2, LiveTyped DEF Proxies
<1>4. resolve("LendingPoolConfigurator") \in named(<<Provider, db[Provider]>>, "LendingPoolConfigurator")
  BY <1>2, <1>3
<1>5. /\ currentPool # {}
      /\ named(resolve("LendingPoolConfigurator"), "pool") = currentPool
  BY <1>3, <1>4 DEF Sound, OfProvider, currentPool
<1>6. PICK a : a \in currentPool
  BY <1>5
<1>7. a \in named(<<Provider, db[Provider]>>, "LendingPool")
  BY <1>3, <1>6 DEF currentPool
<1>8. currentPool = {a}
  BY <1>3, <1>6 DEF Sound, OneProxy, currentPool
<1>9. a = <<"LendingPool", a[2]>> /\ a[2] \in Instances /\ a[2] <= deployed["LendingPool"]
  BY <1>3, <1>7, OtherProxy
<1> QED
  BY <1>2, <1>3, <1>5, <1>8, <1>9

\* Where only pools change, and those not created do not, all stays sound.
LEMMA SoundPools ==
    ASSUME Inv, Sound, UNCHANGED <<files, deployed, storage, revision>>, Pristine'
    PROVE  Sound'
<1>1. \A a, f : named(a, f)' = named(a, f)
  BY DEF named
<1>2. OneProxy' /\ OfProvider'
  BY <1>1 DEF Sound, OneProxy, OfProvider
<1>3. Fresh' /\ Revised'
  BY DEF Sound, Fresh, Revised, files
<1> QED
  BY <1>2, <1>3 DEF Sound

\* batchInitReserve lists the assets in the pool of the provider.
LEMMA BatchWrites ==
    ASSUME Inv, Sound, PoolsOK, BatchInitReserve, \A c \in Core : Stands(c)
    PROVE  /\ item \in Items /\ item.do = "batchInitReserve"
           /\ \A s : among(s, item.assets) => s \in ReserveAssets
           /\ UNCHANGED <<files, deployed, storage, revision>>
           /\ \E a : /\ livePool = {a} /\ a[2] \in Instances /\ a[2] <= deployed["LendingPool"]
                     /\ \A n \in Instances : n # a[2] => pools'[n] = pools[n]
                     /\ listedBesides(pools'[a[2]], pools[a[2]],
                                      {s \in Symbols : among(s, item.assets)})
<1>1. item \in Items /\ item.do = "batchInitReserve" /\ accepted(item)
  BY Proceeding DEF Inv, BatchInitReserve, perform, doing
<1>2. item.assets \in Seq(Symbols)
  BY <1>1, ItemFields
<1>3. \A s : among(s, item.assets) => s \in ReserveAssets
  BY <1>1 DEF accepted, among
<1>4. PICK pool \in administered(resolve("LendingPoolConfigurator"), resolve("deployer")) :
        pools' = [pools EXCEPT ![pool[2]] =
                    batchListed(revision["LendingPool"][pool[2]], @, item.assets)]
  BY DEF BatchInitReserve, batchListed
<1>5. PICK a : /\ livePool = {a} /\ a[2] \in Instances /\ a[2] <= deployed["LendingPool"]
               /\ named(resolve("LendingPoolConfigurator"), "pool") = {a}
  BY ConfiguratorPool
<1>6. pool = a
  BY <1>4, <1>5 DEF administered
<1>7. /\ \A n \in Instances : n # a[2] => pools'[n] = pools[n]
      /\ pools'[a[2]] = batchListed(revision["LendingPool"][a[2]], pools[a[2]], item.assets)
  BY <1>4, <1>5, <1>6 DEF PoolsOK
<1>8. pools[a[2]] \in Orderly
  BY <1>5 DEF PoolsOK
<1>9. listedBesides(pools'[a[2]], pools[a[2]], {s \in Symbols : among(s, item.assets)})
  BY <1>2, <1>7, <1>8, BatchLists
<1>10. UNCHANGED <<files, deployed, storage, revision>>
  BY DEF BatchInitReserve
<1> QED
  BY <1>1, <1>3, <1>5, <1>7, <1>9, <1>10

\* So the assets are listed, and the other conditions stay.
LEMMA BatchStands ==
    ASSUME Inv, Sound, PoolsOK, BatchInitReserve, \A c \in Core : Stands(c)
    PROVE  /\ Sound'
           /\ \A c \in Conditions : /\ Establishes(item, c) => Stands(c)'
                                    /\ (Stands(c) /\ ~Disturbs(item, c)) => Stands(c)'
<1> DEFINE assets == {s \in Symbols : among(s, item.assets)}
<1>1. /\ item.do = "batchInitReserve"
      /\ \A s : among(s, item.assets) => s \in ReserveAssets
      /\ UNCHANGED <<files, deployed, storage, revision>>
  BY BatchWrites
<1>2. PICK a : /\ livePool = {a} /\ a[2] \in Instances /\ a[2] <= deployed["LendingPool"]
               /\ \A n \in Instances : n # a[2] => pools'[n] = pools[n]
               /\ listedBesides(pools'[a[2]], pools[a[2]], assets)
  BY BatchWrites
<1>3. UNCHANGED db /\ \A id, field : sameField(id, field)
  BY <1>1 DEF files, sameField
<1>4. livePool' = {a}
  BY <1>2, <1>3, LiveSame
<1>5. Pristine'
  <2> SUFFICES ASSUME NEW n \in Instances, NEW s \in Symbols
               PROVE  LET r == pools'[n].reserves[s]
                      IN /\ n > deployed["LendingPool"] => ~r.listed /\ ~r.borrowing /\ ~r.collateral
                         /\ r.borrowing => r.listed
    BY <1>1 DEF Pristine
  <2>1. LET r == pools[n].reserves[s]
        IN /\ n > deployed["LendingPool"] => ~r.listed /\ ~r.borrowing /\ ~r.collateral
           /\ r.borrowing => r.listed
    BY DEF Sound, Pristine
  <2>2. CASE n # a[2]
    BY <1>2, <2>1, <2>2
  <2>3. CASE n = a[2]
    <3>1. ~(n > deployed["LendingPool"])
      <4>1. "LendingPool" \in Ids
        BY DEF Ids, Proxies
      <4>2. deployed["LendingPool"] \in Nat
        BY <4>1, DeploymentAssumption DEF Inv, TypeOK
      <4> QED
        BY <1>2, <2>3, <4>2 DEF Instances
    <3> QED
      BY <1>2, <2>1, <2>3, <3>1 DEF listedBesides
  <2> QED
    BY <2>2, <2>3
<1>6. Sound'
  BY <1>1, <1>5, SoundPools
<1>7. ASSUME NEW c \in Conditions
      PROVE  /\ Establishes(item, c) => Stands(c)'
             /\ (Stands(c) /\ ~Disturbs(item, c)) => Stands(c)'
  <2>1. CASE c \in Written
    <3>1. c.kind \in {"is", "has"}
      BY <2>1, WrittenTyped
    <3>2. ~Establishes(item, c)
      BY <1>1, <3>1 DEF Establishes
    <3>3. Stands(c)' <=> Stands(c)
      BY <1>3, <2>1, Untouched
    <3> QED
      BY <3>2, <3>3
  <2>2. CASE c \notin Written
    <3>1. c.kind \in PoolKinds /\ c.to \in Symbols
      BY <2>2, OfTyped
    <3>2. LET q == pools'[a[2]].reserves[c.to]
              r == pools[a[2]].reserves[c.to]
          IN /\ q.listed <=> c.to \in assets \/ r.listed
             /\ q.borrowing <=> r.borrowing
             /\ q.collateral <=> r.collateral
      BY <1>2, <3>1 DEF listedBesides
    <3>3. /\ Establishes(item, c) => c.kind = "listed" /\ c.to \in assets
          /\ c.kind = "absent" /\ ~Disturbs(item, c) => c.to \notin assets
      BY <1>1, <3>1 DEF Establishes, Disturbs
    <3>4. c.to \in assets => c.to \in ReserveAssets
      BY <1>1
    <3> HIDE DEF assets
    <3> QED
      BY <1>2, <1>4, <3>1, <3>2, <3>3, <3>4 DEF Stands, PoolKinds
  <2> QED
    BY <2>1, <2>2
<1> QED
  BY <1>6, <1>7

\* What a pool keeps of the reserves, and those of S configured besides.
configuredBesides(q, pool, S) ==
  \A z \in Symbols : /\ q.reserves[z].listed <=> pool.reserves[z].listed
                     /\ q.reserves[z].borrowing <=> z \in S \/ pool.reserves[z].borrowing
                     /\ z \notin S => (q.reserves[z].collateral <=> pool.reserves[z].collateral)

\* The helper configures the assets in the pool of the provider.
LEMMA ConfigureWrites ==
    ASSUME Inv, Sound, PoolsOK, ConfigureReserves, \A c \in Core : Stands(c)
    PROVE  /\ item.do = "configure"
           /\ UNCHANGED <<files, deployed, storage, revision>>
           /\ \E a : /\ livePool = {a} /\ a[2] \in Instances /\ a[2] <= deployed["LendingPool"]
                     /\ \A n \in Instances : n # a[2] => pools'[n] = pools[n]
                     /\ configuredBesides(pools'[a[2]], pools[a[2]], item.assets)
<1>1. item.do = "configure" /\ UNCHANGED <<files, deployed, storage, revision>>
  BY DEF ConfigureReserves, perform, doing
<1>2. PICK a : /\ livePool = {a} /\ a[2] \in Instances /\ a[2] <= deployed["LendingPool"]
               /\ named(resolve("LendingPoolConfigurator"), "pool") = {a}
               /\ named(resolve("LTokensAndRatesHelper"), "poolConfigurator") =
                    {resolve("LendingPoolConfigurator")}
  BY ConfiguratorPool
<1>3. PICK c \in named(resolve("LTokensAndRatesHelper"), "poolConfigurator") :
      \E pool \in administered(c, resolve("LTokensAndRatesHelper")) :
         pools' = [pools EXCEPT ![pool[2]].reserves = [s \in Symbols |->
           IF s \in item.assets
           THEN [@[s] EXCEPT !.collateral = (Collateral[s] = "some"), !.borrowing = TRUE]
           ELSE @[s]]]
  BY DEF ConfigureReserves
<1>4. PICK pool \in administered(c, resolve("LTokensAndRatesHelper")) :
         pools' = [pools EXCEPT ![pool[2]].reserves = [s \in Symbols |->
           IF s \in item.assets
           THEN [@[s] EXCEPT !.collateral = (Collateral[s] = "some"), !.borrowing = TRUE]
           ELSE @[s]]]
  BY <1>3
<1>5. pool = a
  BY <1>2, <1>3, <1>4 DEF administered
<1> DEFINE n   == a[2]
           old == pools[n]
           new(s) == IF s \in item.assets
                     THEN [old.reserves[s] EXCEPT !.collateral = (Collateral[s] = "some"),
                                                  !.borrowing = TRUE]
                     ELSE old.reserves[s]
           rs  == [s \in Symbols |-> new(s)]
<1>6. pools' = [pools EXCEPT ![n] = [old EXCEPT !.reserves = rs]]
  BY <1>4, <1>5
<1>7. old \in Orderly
  BY <1>2 DEF PoolsOK
<1>8. old.reserves \in [Symbols -> Reserve]
  BY <1>7, OrderlyParts DEF inOrder
<1>9. ASSUME NEW s \in Symbols
      PROVE  /\ new(s).listed <=> old.reserves[s].listed
             /\ new(s).borrowing <=> s \in item.assets \/ old.reserves[s].borrowing
             /\ s \notin item.assets => (new(s).collateral <=> old.reserves[s].collateral)
  <2>1. old.reserves[s] \in Reserve
    BY <1>8
  <2> HIDE DEF old
  <2> QED
    BY <2>1 DEF Reserve
<1>10. [old EXCEPT !.reserves = rs].reserves = rs
  <2>1. PICK list, was : old = [list |-> list, reserves |-> was]
    BY <1>7, OrderlyParts
  <2> HIDE DEF old, rs
  <2> QED
    BY <2>1
<1>11. \A s \in Symbols : rs[s] = new(s)
  OBVIOUS
<1> HIDE DEF old, new, rs
<1>12. pools'[n].reserves = rs /\ \A m \in Instances : m # n => pools'[m] = pools[m]
  BY <1>2, <1>6, <1>10 DEF PoolsOK
<1>13. configuredBesides(pools'[n], pools[n], item.assets)
  BY <1>9, <1>11, <1>12 DEF configuredBesides, old
<1> QED
  BY <1>1, <1>2, <1>12, <1>13

\* So the assets are lent, and the other conditions stay.
LEMMA ConfigureStands ==
    ASSUME Inv, Sound, PoolsOK, ConfigureReserves, \A c \in Core : Stands(c),
           \A s \in item.assets : Stands(Of("listed", s))
    PROVE  /\ Sound'
           /\ \A c \in Conditions : /\ Establishes(item, c) => Stands(c)'
                                    /\ (Stands(c) /\ ~Disturbs(item, c)) => Stands(c)'
<1> DEFINE assets == item.assets
<1>1. item.do = "configure" /\ UNCHANGED <<files, deployed, storage, revision>>
  BY ConfigureWrites
<1>2. PICK a : /\ livePool = {a} /\ a[2] \in Instances /\ a[2] <= deployed["LendingPool"]
               /\ \A n \in Instances : n # a[2] => pools'[n] = pools[n]
               /\ configuredBesides(pools'[a[2]], pools[a[2]], assets)
  BY ConfigureWrites
<1>3. UNCHANGED db /\ \A id, field : sameField(id, field)
  BY <1>1 DEF files, sameField
<1>4. livePool' = {a}
  BY <1>2, <1>3, LiveSame
<1>5. \A s \in assets : pools[a[2]].reserves[s].listed
  BY <1>2 DEF Stands, Of
<1>6. Pristine'
  <2> SUFFICES ASSUME NEW n \in Instances, NEW s \in Symbols
               PROVE  LET r == pools'[n].reserves[s]
                      IN /\ n > deployed["LendingPool"] => ~r.listed /\ ~r.borrowing /\ ~r.collateral
                         /\ r.borrowing => r.listed
    BY <1>1 DEF Pristine
  <2>1. LET r == pools[n].reserves[s]
        IN /\ n > deployed["LendingPool"] => ~r.listed /\ ~r.borrowing /\ ~r.collateral
           /\ r.borrowing => r.listed
    BY DEF Sound, Pristine
  <2>2. CASE n # a[2]
    BY <1>2, <2>1, <2>2
  <2>3. CASE n = a[2]
    <3>1. ~(n > deployed["LendingPool"])
      <4>1. "LendingPool" \in Ids
        BY DEF Ids, Proxies
      <4>2. deployed["LendingPool"] \in Nat
        BY <4>1, DeploymentAssumption DEF Inv, TypeOK
      <4> QED
        BY <1>2, <2>3, <4>2 DEF Instances
    <3> QED
      BY <1>2, <1>5, <2>1, <2>3, <3>1 DEF configuredBesides
  <2> QED
    BY <2>2, <2>3
<1>7. Sound'
  BY <1>1, <1>6, SoundPools
<1>8. ASSUME NEW c \in Conditions
      PROVE  /\ Establishes(item, c) => Stands(c)'
             /\ (Stands(c) /\ ~Disturbs(item, c)) => Stands(c)'
  <2>1. CASE c \in Written
    <3>1. c.kind \in {"is", "has"}
      BY <2>1, WrittenTyped
    <3>2. ~Establishes(item, c)
      BY <1>1, <3>1 DEF Establishes
    <3>3. Stands(c)' <=> Stands(c)
      BY <1>3, <2>1, Untouched
    <3> QED
      BY <3>2, <3>3
  <2>2. CASE c \notin Written
    <3>1. c.kind \in PoolKinds /\ c.to \in Symbols
      BY <2>2, OfTyped
    <3>2. LET q == pools'[a[2]].reserves[c.to]
              r == pools[a[2]].reserves[c.to]
          IN /\ q.listed <=> r.listed
             /\ q.borrowing <=> c.to \in assets \/ r.borrowing
             /\ c.to \notin assets => (q.collateral <=> r.collateral)
      BY <1>2, <3>1 DEF configuredBesides
    <3>3. /\ Establishes(item, c) => c.kind = "borrowing" /\ c.to \in assets
          /\ c.kind = "plain" /\ ~Disturbs(item, c) => c.to \notin assets
      BY <1>1, <3>1 DEF Establishes, Disturbs
    <3> HIDE DEF assets
    <3> QED
      BY <1>2, <1>4, <3>1, <3>2, <3>3 DEF Stands, PoolKinds
  <2> QED
    BY <2>1, <2>2
<1> QED
  BY <1>7, <1>8

\* A deposit leaves what is known of the pools as it is.
LEMMA SoundDeposit == ASSUME Inv, Sound, PoolsOK, Deposit PROVE Sound'
<1>1. UNCHANGED <<files, deployed, storage, revision>> /\ sameReserves
  BY DepositSame DEF Deposit
<1>2. Pristine'
  BY <1>1 DEF Sound, Pristine, sameReserves
<1> QED
  BY <1>1, <1>2, SoundPools

\* As do the steps that change the script alone.
LEMMA SoundScript ==
    ASSUME Inv, Sound, UNCHANGED <<files, chain>>
    PROVE  Sound' /\ \A c \in Conditions : Stands(c)' <=> Stands(c)
<1>1. UNCHANGED <<calldata, db, storage, deployed, revision, pools>>
  BY DEF files, chain
<1>2. Fresh'
  BY <1>1 DEF Sound, Fresh
<1> QED
  BY <1>1, <1>2, SoundStored, OnlyScripts

-----------------------------------------------------------------------------
(* What a step relies on stands, and what it should establish does         *)

\* A step that is performed, other than the collecting of reserves.
Performs ==
  \/ SaveDeploymentCallData \/ DeployToOasysTestnet \/ RegisterContractAddress
  \/ SetAddress \/ Authorize \/ InitializeOnce \/ SetImpl \/ InsertProxyAddress
  \/ BatchInitReserve \/ ConfigureReserves

\* What it establishes and keeps.
Effective ==
  /\ Sound'
  /\ \A c \in Conditions : /\ Establishes(item, c) => Stands(c)'
                           /\ (Stands(c) /\ ~Disturbs(item, c)) => Stands(c)'

\* What a step relies on are conditions.
LEMMA NeedsTyped ==
    ASSUME NEW i \in Items, NEW stage
    PROVE  /\ needs(i, stage) \subseteq Conditions /\ Core \subseteq Written /\ Core \subseteq Conditions
           /\ Is(Provider, "LendingPool", "LendingPool") \in Written
           /\ \A c \in needs(i, stage) : c.kind # "borrowing"
<1>1. /\ <<Provider, "PRICE_ORACLE", "PalmyOracle">> \in Wiring
      /\ <<Provider, "LENDING_RATE_ORACLE", "LendingRateOracle">> \in Wiring
      /\ <<Provider, "LendingPoolConfigurator", "LendingPoolConfigurator">> \in Wiring
      /\ <<"LTokensAndRatesHelper", "poolConfigurator", "LendingPoolConfigurator">> \in Wiring
      /\ <<Provider, "LendingPool", "LendingPool">> \in Wiring
      /\ <<"PalmyOracle", "priceAggregator", "PriceAggregatorAdapterChainsightImpl">> \in Wiring
  BY DEF Wiring
<1>2. Provider \notin Proxies /\ "LTokensAndRatesHelper" \notin Proxies /\ "PalmyOracle" \notin Proxies
  BY DeploymentNames DEF Contracts
<1>3. \A w \in Wiring : w[1] \notin Proxies => Is(w[1], w[2], w[3]) \in Written
  BY DEF Written
<1>4. /\ Is(Provider, "PRICE_ORACLE", "PalmyOracle") \in Written
      /\ Is(Provider, "LENDING_RATE_ORACLE", "LendingRateOracle") \in Written
      /\ Is(Provider, "LendingPoolConfigurator", "LendingPoolConfigurator") \in Written
      /\ Is("LTokensAndRatesHelper", "poolConfigurator", "LendingPoolConfigurator") \in Written
      /\ Is(Provider, "LendingPool", "LendingPool") \in Written
      /\ Is("PalmyOracle", "priceAggregator", "PriceAggregatorAdapterChainsightImpl") \in Written
  <2>1. \A x, y, z : <<x, y, z>>[1] = x /\ <<x, y, z>>[2] = y /\ <<x, y, z>>[3] = z
    OBVIOUS
  <2> QED
    BY ONLY <1>1, <1>2, <1>3, <2>1
<1>5. /\ Core \subseteq Written /\ Core \subseteq Conditions
      /\ {SourceSet, AggregatorSet} \cup RatesSet \subseteq Written /\ Written \subseteq Conditions
  <2>1. SourceSet \in Written
    BY DEF SourceSet, Written, Authorizations
  <2>2. AggregatorSet \in Written /\ RatesSet \subseteq Written
    BY <1>4 DEF AggregatorSet, Written
  <2>3. Core \subseteq Written
    BY <1>4, <2>1, <2>2 DEF Core, Priced
  <2> QED
    BY <2>1, <2>2, <2>3 DEF Conditions
<1>6. \A c \in Written : c.kind # "borrowing"
  BY WrittenTyped
<1>7. \A kind \in PoolKinds, s \in Symbols : Of(kind, s) \in Conditions /\ Of(kind, s).kind = kind
  BY DEF Conditions, Of
<1>8. needs(i, stage) \subseteq Conditions /\ \A c \in needs(i, stage) : c.kind # "borrowing"
  <2>1. CASE i.do = "setImpl"
    BY <1>4, <1>6, <2>1 DEF needs, Conditions
  <2>2. CASE i.do = "batchInitReserve"
    BY <1>5, <1>6, <2>2 DEF needs
  <2>3. CASE i.do = "collect"
    <3> DEFINE kinds == {"listed"} \cup (IF stage = 3 THEN {"plain"} ELSE {})
    <3>1. needs(i, stage) =
            Core \cup {Of(kind, s) : kind \in kinds, s \in {x \in Symbols : among(x, i.assets)}}
      BY <2>3 DEF needs
    <3>2. \A kind \in kinds : kind \in PoolKinds /\ kind # "borrowing"
      BY DEF PoolKinds
    <3> HIDE DEF kinds
    <3> QED
      BY <1>5, <1>6, <1>7, <3>1, <3>2
  <2>4. CASE i.do = "configure"
    <3>1. needs(i, stage) = Core \cup {Of("listed", s) : s \in i.assets}
      BY <2>4 DEF needs
    <3>2. i.assets \in SUBSET Symbols
      BY <2>4 DEF Items
    <3> QED
      BY <1>5, <1>6, <1>7, <3>1, <3>2 DEF PoolKinds
  <2>5. CASE i.do \notin {"setImpl", "batchInitReserve", "collect", "configure"}
    <3>1. needs(i, stage) \subseteq {SourceSet, AggregatorSet} \cup RatesSet
      BY <2>5 DEF needs
    <3> QED
      BY <1>5, <1>6, <3>1
  <2> QED
    BY <2>1, <2>2, <2>3, <2>4, <2>5
<1> QED
  BY <1>4, <1>5, <1>8

\* What the first step relies on stands.
LEMMA ReadyNow ==
    ASSUME TypeOK, Ready, script # <<>>
    PROVE  \A c \in needs(item, next) : Stands(c)
<1>1. script \in Seq(Items)
  BY DEF TypeOK
<1>2. 1 \in DOMAIN script /\ item = script[1]
  BY <1>1 DEF item
<1>3. \A c \in needs(item, next) : DueAt(script, 1, c)
  BY <1>2 DEF Ready
<1>4. \A c : Stands(c) \in BOOLEAN
  BY DEF Stands
<1> QED
  BY <1>3, <1>4, DueNow DEF DueAt

\* Every step that is performed has its effect.
LEMMA Performed ==
    ASSUME Inv, PoolsOK, Sound, Ready, Performs
    PROVE  Effective
<1>1. script # <<>> /\ item \in Items
  BY Proceeding
     DEF Inv, Performs, SaveDeploymentCallData, DeployToOasysTestnet, RegisterContractAddress,
         SetAddress, Authorize, InitializeOnce, SetImpl, InsertProxyAddress, BatchInitReserve,
         ConfigureReserves, perform, doing
<1>2. \A c \in needs(item, next) : Stands(c)
  BY <1>1, ReadyNow DEF Inv
<1>3. CASE SaveDeploymentCallData
  <2>1. item.do = "save" /\ UNCHANGED <<db, storage, pools>>
    BY <1>3 DEF SaveDeploymentCallData, perform, doing, chain
  <2>2. \A c \in Conditions : Stands(c)' <=> Stands(c)
    BY <2>1, OnlyScripts
  <2> QED
    BY <1>3, <2>1, <2>2, SoundFiles DEF Effective, Establishes
<1>4. CASE DeployToOasysTestnet
  <2>1. item.do = "deploy"
    BY <1>4 DEF DeployToOasysTestnet, perform, doing
  <2> QED
    BY <1>4, <2>1, DeploySame, SoundDeployed DEF Effective, Establishes
<1>5. CASE RegisterContractAddress
  <2>1. item.do = "register"
    BY <1>5 DEF RegisterContractAddress, perform, doing
  <2>2. \A c : ~Establishes(item, c)
    BY <2>1 DEF Establishes
  <2> QED
    BY <1>5, <2>2, RegisterSame, SoundFiles DEF Effective
<1>6. CASE SetAddress \/ Authorize
  BY <1>6, SetStands, SoundWritten DEF Effective
<1>7. CASE InitializeOnce
  BY <1>7, InitializeStands, SoundWritten DEF Effective
<1>8. CASE SetImpl
  <2>1. item.do = "setImpl"
    BY <1>8, SetImplCases
  <2>2. item.impl = "LendingPoolConfiguratorImpl" =>
          Stands(Is(Provider, "LendingPool", "LendingPool"))
    BY <1>2, <2>1 DEF needs
  <2> QED
    BY <1>8, <2>2, SetImplStands, SoundSetImpl DEF Effective
<1>9. CASE InsertProxyAddress
  BY <1>9, InsertStands, InsertSame, SoundFiles DEF Effective
<1>10. CASE BatchInitReserve
  <2>1. item.do = "batchInitReserve"
    BY <1>10 DEF BatchInitReserve, perform, doing
  <2>2. \A c \in Core : Stands(c)
    BY <1>2, <2>1 DEF needs
  <2> QED
    BY <1>10, <2>2, BatchStands DEF Effective
<1>11. CASE ConfigureReserves
  <2>1. item.do = "configure"
    BY <1>11 DEF ConfigureReserves, perform, doing
  <2>2. needs(item, next) = Core \cup {Of("listed", s) : s \in item.assets}
    BY <2>1 DEF needs
  <2> QED
    BY <1>2, <1>11, <2>2, ConfigureStands DEF Effective
<1> QED
  BY <1>3, <1>4, <1>5, <1>6, <1>7, <1>8, <1>9, <1>10, <1>11 DEF Performs

-----------------------------------------------------------------------------
(* The script goes on                                                      *)

\* What is known of the scripts.
Going == Ready /\ Launching /\ Running /\ Shaped /\ operations \in Nat

\* A condition stands or does not.
LEMMA StandsBoolean == ASSUME NEW c PROVE Stands(c) \in BOOLEAN /\ Stands(c)' \in BOOLEAN
BY DEF Stands

\* A step that is performed is the first of the script; with the last the stage is over.
LEMMA Goes ==
    ASSUME TypeOK, Performs
    PROVE  /\ script # <<>> /\ script \in Seq(Items) /\ item \in Items /\ item = script[1]
           /\ script' = Tail(script) /\ script' \in Seq(Items)
           /\ Len(script) \in Nat /\ Len(script) >= 1 /\ Len(script') = Len(script) - 1
           /\ \A k \in DOMAIN script' : /\ k \in Nat /\ k + 1 \in DOMAIN script /\ k + 1 \in 2..Len(script)
                                        /\ script'[k] = script[k + 1]
           /\ DOMAIN script' = 1..Len(script) - 1
           /\ next' = (IF Len(script) = 1 /\ next < Launched THEN next + 1 ELSE next)
           /\ UNCHANGED <<crashes, operations>>
<1>1. script # <<>> /\ proceed
  BY DEF Performs, SaveDeploymentCallData, DeployToOasysTestnet, RegisterContractAddress,
         SetAddress, Authorize, InitializeOnce, SetImpl, InsertProxyAddress, BatchInitReserve,
         ConfigureReserves, perform, doing
<1>2. script \in Seq(Items) /\ item \in Items /\ script' = Tail(script)
  BY <1>1, Proceeding DEF TypeOK, proceed
<1>3. /\ script' \in Seq(Items) /\ Len(script') = Len(script) - 1
      /\ Len(script) \in Nat /\ Len(script) >= 1 /\ item = script[1]
      /\ \A k \in 1..Len(script) - 1 : script'[k] = script[k + 1]
  BY <1>1, <1>2, Rest DEF item
<1>4. DOMAIN script' = 1..Len(script) - 1 /\ DOMAIN script = 1..Len(script)
  BY <1>2, <1>3
<1>5. \A k \in 1..Len(script) - 1 : k \in Nat /\ k + 1 \in 1..Len(script) /\ k + 1 \in 2..Len(script)
  BY <1>3
<1> QED
  BY <1>1, <1>2, <1>3, <1>4, <1>5 DEF proceed, incidents

\* What was due is due one step earlier.
LEMMA DueNext ==
    ASSUME TypeOK, Performs, Effective, NEW c \in Conditions, NEW k, k \in 2..Len(script) + 1,
           DueAt(script, k, c)
    PROVE  DueAt(script, k - 1, c)'
<1>1. /\ script # <<>> /\ script \in Seq(Items) /\ item = script[1]
      /\ script' = Tail(script)
  BY Goes
<1>2. /\ Establishes(script[1], c) => Stands(c)'
      /\ (Stands(c) /\ ~Disturbs(script[1], c)) => Stands(c)'
  BY <1>1 DEF Effective
<1>3. Stands(c) \in BOOLEAN /\ Stands(c)' \in BOOLEAN
  BY StandsBoolean
<1>4. DueIf(Stands(c), script, k, c)
  BY DEF DueAt
<1>5. DueIf(Stands(c)', Tail(script), k - 1, c)
  <2> DEFINE now == Stands(c)
             then == Stands(c)'
  <2>1. /\ now \in BOOLEAN /\ then \in BOOLEAN /\ DueIf(now, script, k, c)
        /\ Establishes(script[1], c) => then
        /\ now /\ ~Disturbs(script[1], c) => then
    BY <1>2, <1>3, <1>4
  <2> HIDE DEF now, then
  <2>2. DueIf(then, Tail(script), k - 1, c)
    BY <1>1, <2>1, DueStep
  <2> QED
    BY <2>2 DEF then
<1> QED
  BY <1>1, <1>5 DEF DueAt

\* With the last step of the launch what it should leave behind stands.
LEMMA Achieves ==
    ASSUME Inv, Going, Performs, Effective, next = 3, Len(script) = 1, NEW c \in Achieved
    PROVE  Stands(c)'
<1>1. script # <<>> /\ TypeOK /\ Len(script) + 1 = 2 /\ 2 \in 2..Len(script) + 1
  BY Goes DEF Inv
<1>2. c \in Conditions
  BY DEF Achieved, Conditions, PoolKinds
<1>3. DueIf(Stands(c), script, 2, c)
  BY <1>1 DEF Going, Launching, Due, DueAt
<1>4. DueAt(script, 2, c)
  BY <1>3 DEF DueAt
<1>5. DueAt(script, 2 - 1, c)'
  BY <1>1, <1>2, <1>4, DueNext
<1>6. DueIf(Stands(c)', script', 1, c)
  BY <1>5 DEF DueAt
<1> QED
  BY <1>6, DueNow, StandsBoolean

\* So every step is still ready, and the launch on its way.
LEMMA Proceeds == ASSUME Inv, Going, Performs, Effective PROVE Going'
<1>1. /\ script # <<>> /\ script \in Seq(Items) /\ item \in Items /\ item = script[1]
      /\ script' = Tail(script) /\ script' \in Seq(Items)
      /\ Len(script) \in Nat /\ Len(script) >= 1 /\ Len(script') = Len(script) - 1
      /\ \A k \in DOMAIN script' : /\ k \in Nat /\ k + 1 \in DOMAIN script /\ k + 1 \in 2..Len(script)
                                   /\ script'[k] = script[k + 1]
      /\ DOMAIN script' = 1..Len(script) - 1
      /\ next' = (IF Len(script) = 1 /\ next < Launched THEN next + 1 ELSE next)
      /\ UNCHANGED <<crashes, operations>>
  BY Goes DEF Inv
<1>2. TypeOK /\ next \in 1..4 /\ DOMAIN script = 1..Len(script)
  BY <1>1 DEF Inv, TypeOK, Launched
<1>3. script' # <<>> => next' = next /\ Len(script) > 1
  BY <1>1
<1>4. Ready'
  <2> SUFFICES ASSUME NEW k \in DOMAIN script', NEW c \in needs(script'[k], next')
               PROVE  DueAt(script, k, c)'
    BY DEF Ready
  <2>1. k + 1 \in DOMAIN script /\ script'[k] = script[k + 1] /\ next' = next
        /\ k + 1 \in 2..Len(script) + 1 /\ (k + 1) - 1 = k
    BY <1>1, <1>3
  <2>2. script[k + 1] \in Items
    BY <1>1, <2>1
  <2>3. c \in Conditions /\ DueAt(script, k + 1, c)
    BY <2>1, <2>2, NeedsTyped DEF Going, Ready
  <2>4. DueAt(script, (k + 1) - 1, c)'
    BY <1>2, <2>1, <2>3, DueNext
  <2> QED
    BY <2>1, <2>4
<1>5. ASSUME NEW c \in Conditions, Due(script, c)
      PROVE  Due(script, c)'
  <2>1. PICK k : k = Len(script) + 1
    OBVIOUS
  <2>2. DueAt(script, k, c) /\ k \in 2..Len(script) + 1 /\ k - 1 = Len(script') + 1
    BY <1>1, <1>5, <2>1 DEF Due
  <2>3. DueAt(script, k - 1, c)'
    BY <1>2, <2>2, DueNext
  <2>4. DueIf(Stands(c)', script', Len(script') + 1, c)
    BY <2>2, <2>3 DEF DueAt
  <2> QED
    BY <2>4 DEF Due, DueAt
<1>6. Achieved \subseteq Conditions
  BY DEF Achieved, Conditions, PoolKinds
<1>7. Launching'
  BY <1>3, <1>5, <1>6 DEF Going, Launching
<1>8. Running'
  <2>1. CASE next = Launched
    <3>1. ASSUME NEW c \in Core
          PROVE  Stands(c)' /\ \A k \in DOMAIN script' : ~Disturbs(script'[k], c)
      <4>1. c \in Conditions /\ Stands(c) /\ \A k \in DOMAIN script : ~Disturbs(script[k], c)
        BY <1>1, <2>1, NeedsTyped DEF Going, Running
      <4>2. ~Disturbs(item, c)
        BY <1>1, <1>2, <4>1
      <4> QED
        BY <1>1, <4>1, <4>2 DEF Effective
    <3>2. operations # 0
      BY <1>1, <2>1 DEF Going, Running
    <3> QED
      BY <1>1, <3>1, <3>2 DEF Running
  <2>2. CASE next # Launched /\ next' = Launched
    <3>1. next = 3 /\ Len(script) = 1 /\ script' = <<>>
      <4>1. next = 3 /\ Len(script) = 1
        BY <1>1, <1>2, <2>2 DEF Launched
      <4> QED
        BY <1>1, <4>1
    <3>2. \A c \in Achieved : Stands(c)'
      BY <3>1, Achieves
    <3>3. Core \subseteq Achieved /\ Written \subseteq Achieved
      BY <1>1, NeedsTyped DEF Achieved
    <3>4. DOMAIN script' = {}
      BY <3>1
    <3> QED
      BY <3>1, <3>2, <3>3, <3>4 DEF Running
  <2> QED
    BY <2>1, <2>2 DEF Running
<1>9. Shaped'
  <2>1. ASSUME NEW k \in DOMAIN script'
        PROVE  fits(script'[k], next')
    <3>1. k + 1 \in DOMAIN script /\ script'[k] = script[k + 1] /\ next' = next
      BY <1>1, <1>3
    <3> QED
      BY <3>1 DEF Going, Shaped
  <2>2. ASSUME next' = 3, script' # <<>> PROVE script'[Len(script')] = Closing
    <3>1. Len(script') \in DOMAIN script' /\ Len(script') + 1 = Len(script) /\ next = 3
      BY <1>1, <1>3, <2>2
    <3>2. script'[Len(script')] = script[Len(script)]
      BY <1>1, <3>1
    <3> QED
      BY <1>1, <3>1, <3>2 DEF Going, Shaped
  <2> QED
    BY <2>1, <2>2 DEF Shaped, Closing
<1> QED
  BY <1>1, <1>4, <1>7, <1>8, <1>9 DEF Going

-----------------------------------------------------------------------------
(* Collecting what to configure                                            *)

\* The three steps that are put before the rest of the script.
lend        == doCall("set", Provider, "POOL_ADMIN", {"LTokensAndRatesHelper"}, "deployer")
giveBack    == doCall("set", Provider, "POOL_ADMIN", {"deployer"}, "deployer")

\* What they undo and establish.
LEMMA LendingSteps ==
    ASSUME NEW S \in SUBSET Symbols
    PROVE  /\ lend \in Items /\ giveBack \in Items /\ doConfigure(S) \in Items
           /\ \A c \in Conditions :
                /\ Disturbs(lend, c) \/ Disturbs(giveBack, c) => Establishes(giveBack, c)
                /\ Disturbs(lend, c) \/ Disturbs(giveBack, c) => c \notin Core /\ c \in Written
                /\ Disturbs(doConfigure(S), c) <=> c.kind = "plain" /\ c.to \in S
                /\ c.kind = "borrowing" /\ c.to \in S => Establishes(doConfigure(S), c)
           /\ \A stage : /\ needs(lend, stage) = {} /\ needs(giveBack, stage) = {}
                         /\ needs(doConfigure(S), stage) = Core \cup {Of("listed", s) : s \in S}
           /\ \A stage : /\ fits(lend, stage) /\ fits(giveBack, stage)
                         /\ fits(doConfigure(S), stage)
<1>1. lend \in Items /\ giveBack \in Items /\ doConfigure(S) \in Items
  BY DeploymentNames, InitializationNames, RecordsTyped DEF Accounts, Fields, lend, giveBack
<1>2. ASSUME NEW c \in Conditions, Disturbs(lend, c) \/ Disturbs(giveBack, c)
      PROVE  Establishes(giveBack, c) /\ c \notin Core /\ c \in Written
  <2>1. c.kind \in {"is", "has"} /\ c.on = Provider /\ c.field = "POOL_ADMIN"
    BY <1>2 DEF Disturbs, lend, giveBack, doCall
  <2>2. c \in Written
    BY <2>1, OfTyped DEF PoolKinds
  <2>3. c = Is(Provider, "POOL_ADMIN", "deployer")
    BY <2>1, <2>2, WrittenTyped
  <2>4. \A d \in Core : d.field # "POOL_ADMIN"
    BY RatesTyped DEF Core, Priced, Is, SourceSet, AggregatorSet, Has
  <2> QED
    BY <2>1, <2>2, <2>3, <2>4 DEF Establishes, giveBack, doCall, Is
<1>3. ASSUME NEW c \in Conditions
      PROVE  /\ Disturbs(doConfigure(S), c) <=> c.kind = "plain" /\ c.to \in S
             /\ c.kind = "borrowing" /\ c.to \in S => Establishes(doConfigure(S), c)
  BY DEF Disturbs, Establishes, doConfigure
<1>4. \A stage : /\ needs(lend, stage) = {} /\ needs(giveBack, stage) = {}
                 /\ needs(doConfigure(S), stage) = Core \cup {Of("listed", s) : s \in S}
  BY DEF needs, lend, giveBack, doCall, doConfigure
<1>5. \A stage : fits(lend, stage) /\ fits(giveBack, stage) /\ fits(doConfigure(S), stage)
  BY DEF fits, aims, lend, giveBack, doCall, doConfigure
<1> QED
  BY <1>1, <1>2, <1>3, <1>4, <1>5

\* What is collected is what should be lent afterwards.
LEMMA Collected ==
    ASSUME Inv, Sound, Going, CollectReserves
    PROVE  /\ script # <<>> /\ item.do = "collect" /\ TypeOK /\ script \in Seq(Items)
           /\ item = script[1] /\ item \in Items
           /\ UNCHANGED <<next, crashes, operations>> /\ Sound'
           /\ toConfigure(item.assets) \in SUBSET Symbols
           /\ \A s \in toConfigure(item.assets) : among(s, item.assets) /\ Stands(Of("listed", s))
           /\ \A c \in Conditions : Stands(c)' <=> Stands(c)
           /\ \A c \in Core : Stands(c)
           /\ \A c \in Conditions : next = 3 /\ Establishes(item, c) =>
                c.kind = "borrowing" /\ c.to \in toConfigure(item.assets)
           /\ \A c \in Conditions : Establishes(item, c) => c.kind = "borrowing"
           /\ \A c \in Conditions : c.kind = "plain" /\ c.to \in toConfigure(item.assets) =>
                Disturbs(item, c)
<1>1. /\ script # <<>> /\ item.do = "collect" /\ TypeOK /\ script \in Seq(Items) /\ item \in Items
      /\ UNCHANGED <<files, chain, next, crashes, operations>>
  BY Proceeding DEF Inv, TypeOK, CollectReserves, doing, incidents
<1>2. item = script[1]
  BY <1>1, Rest DEF item
<1>3. Sound' /\ \A c \in Conditions : Stands(c)' <=> Stands(c)
  BY <1>1, SoundScript
<1>4. /\ \A c \in Core : Stands(c)
      /\ \A s \in Symbols : among(s, item.assets) => Stands(Of("listed", s))
      /\ next = 3 => \A s \in Symbols : among(s, item.assets) => Stands(Of("plain", s))
  <2> DEFINE kinds == {"listed"} \cup (IF next = 3 THEN {"plain"} ELSE {})
  <2>1. needs(item, next) =
          Core \cup {Of(kind, s) : kind \in kinds, s \in {x \in Symbols : among(x, item.assets)}}
    BY <1>1 DEF needs
  <2>2. \A c \in needs(item, next) : Stands(c)
    BY <1>1, ReadyNow DEF Going
  <2>3. "listed" \in kinds /\ (next = 3 => "plain" \in kinds)
    OBVIOUS
  <2> HIDE DEF kinds
  <2> QED
    BY <2>1, <2>2, <2>3
<1>5. \A s \in toConfigure(item.assets) : s \in Symbols /\ among(s, item.assets)
  BY DEF toConfigure, among
<1>6. \A c \in Conditions : Establishes(item, c) =>
        /\ c.kind = "borrowing" /\ among(c.to, item.assets) /\ Collateral[c.to] # "skipped"
  BY <1>1 DEF Establishes
<1>7. ASSUME NEW c \in Conditions, next = 3, Establishes(item, c)
      PROVE  c.to \in toConfigure(item.assets)
  <2>1. c.kind = "borrowing" /\ among(c.to, item.assets) /\ Collateral[c.to] # "skipped"
    BY <1>6, <1>7
  <2>2. c.to \in Symbols
    BY <2>1, WrittenTyped, OfTyped
  <2>3. Stands(Of("listed", c.to)) /\ Stands(Of("plain", c.to))
    BY <1>4, <1>7, <2>1, <2>2
  <2>4. c.to \in ReserveAssets /\ \A a \in livePool : ~pools[a[2]].reserves[c.to].collateral
    BY <2>3 DEF Stands, Of
  <2>5. livePool = currentPool
    <3>1. Stands(Is(Provider, "PRICE_ORACLE", "PalmyOracle"))
      BY <1>4 DEF Core, Priced
    <3> QED
      BY <3>1 DEF Stands, Is, livePool
  <2> QED
    BY <2>1, <2>2, <2>4, <2>5 DEF toConfigure, among
<1>8. \A c \in Conditions : c.kind = "plain" /\ c.to \in toConfigure(item.assets) => Disturbs(item, c)
  BY <1>1, <1>5 DEF Disturbs
<1> QED
  BY <1>1, <1>2, <1>3, <1>4, <1>5, <1>6, <1>7, <1>8

\* If there is nothing to configure the script goes on.
LEMMA CollectsNone ==
    ASSUME Inv, Sound, Going, CollectReserves, toConfigure(item.assets) = {}
    PROVE  Going'
<1>1. /\ script # <<>> /\ TypeOK /\ script \in Seq(Items) /\ item = script[1]
      /\ UNCHANGED <<next, crashes, operations>>
      /\ \A c \in Conditions : Stands(c)' <=> Stands(c)
      /\ \A c \in Conditions : next = 3 => ~Establishes(item, c)
      /\ \A c \in Conditions : Establishes(item, c) => c.kind = "borrowing"
      /\ item.do = "collect"
  BY Collected
<1>2. /\ Len(Tail(script)) = Len(script) - 1 /\ Len(script) \in Nat /\ Len(script) >= 1
      /\ \A k \in 1..Len(script) - 1 : Tail(script)[k] = script[k + 1]
      /\ Tail(script) \in Seq(Items)
  BY <1>1, Rest
<1>3. script' = Tail(script)
  <2>1. script' = <<>> \o Tail(script)
    BY DEF CollectReserves
  <2> QED
    BY <1>2, <2>1
<1>4. /\ DOMAIN script' = 1..Len(script) - 1 /\ Len(script') = Len(script) - 1
      /\ \A k \in DOMAIN script' : /\ k \in Nat /\ k + 1 \in DOMAIN script /\ k + 1 \in 2..Len(script)
                                   /\ script'[k] = script[k + 1]
  BY <1>1, <1>2, <1>3
<1>5. ASSUME NEW c \in Conditions, next = 3 \/ c.kind # "borrowing",
             NEW k, k \in 2..Len(script) + 1, DueAt(script, k, c)
      PROVE  DueAt(script, k - 1, c)'
  <2> DEFINE now == Stands(c)
             then == Stands(c)'
  <2>1. /\ now \in BOOLEAN /\ then \in BOOLEAN /\ DueIf(now, script, k, c)
        /\ Establishes(script[1], c) => then
        /\ now /\ ~Disturbs(script[1], c) => then
    BY <1>1, <1>5, StandsBoolean DEF DueAt
  <2> HIDE DEF now, then
  <2>2. DueIf(then, Tail(script), k - 1, c)
    BY <1>1, <1>5, <2>1, DueStep
  <2> QED
    BY <1>3, <2>2 DEF then, DueAt
<1>6. Ready'
  <2> SUFFICES ASSUME NEW k \in DOMAIN script', NEW c \in needs(script'[k], next')
               PROVE  DueAt(script, k, c)'
    BY DEF Ready
  <2>1. k + 1 \in DOMAIN script /\ script'[k] = script[k + 1] /\ next' = next
        /\ k + 1 \in 2..Len(script) + 1 /\ (k + 1) - 1 = k
    BY <1>1, <1>2, <1>4
  <2>2. script[k + 1] \in Items
    BY <1>1, <2>1
  <2>3. c \in Conditions /\ DueAt(script, k + 1, c) /\ c.kind # "borrowing"
    BY <2>1, <2>2, NeedsTyped DEF Going, Ready
  <2>4. DueAt(script, (k + 1) - 1, c)'
    BY <1>5, <2>1, <2>3
  <2> QED
    BY <2>1, <2>4
<1>7. Launching'
  <2> SUFFICES ASSUME next = 3, NEW c \in Achieved PROVE Due(script, c)'
    BY <1>1 DEF Launching
  <2>1. c \in Conditions
    BY DEF Achieved, Conditions, PoolKinds
  <2>2. PICK k : k = Len(script) + 1
    OBVIOUS
  <2>3. DueAt(script, k, c) /\ k \in 2..Len(script) + 1 /\ k - 1 = Len(script') + 1
    BY <1>1, <1>2, <1>4, <2>2 DEF Going, Launching, Due
  <2>4. DueAt(script, k - 1, c)'
    BY <1>5, <2>1, <2>3
  <2>5. DueIf(Stands(c)', script', Len(script') + 1, c)
    BY <2>3, <2>4 DEF DueAt
  <2> QED
    BY <2>5 DEF Due, DueAt
<1>8. Running'
  <2>1. ASSUME next = Launched, NEW c \in Core
        PROVE  Stands(c)' /\ \A k \in DOMAIN script' : ~Disturbs(script'[k], c)
    <3>1. Stands(c) /\ \A k \in DOMAIN script : ~Disturbs(script[k], c)
      BY <2>1 DEF Going, Running
    <3>2. c \in Conditions
      BY <1>1, NeedsTyped, Collected
    <3> QED
      BY <1>1, <1>4, <3>1, <3>2
  <2>2. next = Launched => operations # 0
    BY <1>1 DEF Going, Running
  <2> QED
    BY <1>1, <2>1, <2>2 DEF Running
<1>9. Shaped'
  <2>1. ASSUME NEW k \in DOMAIN script'
        PROVE  fits(script'[k], next')
    <3>1. k + 1 \in DOMAIN script /\ script'[k] = script[k + 1] /\ next' = next
      BY <1>1, <1>4
    <3> QED
      BY <3>1 DEF Going, Shaped
  <2>2. ASSUME next' = 3, script' # <<>> PROVE script'[Len(script')] = Closing
    <3>1. Len(script') # 0
      BY <1>2, <1>3, <2>2
    <3>2. Len(script') \in DOMAIN script' /\ Len(script') + 1 = Len(script) /\ next = 3
      BY <1>1, <1>2, <1>4, <2>2, <3>1
    <3>3. script'[Len(script')] = script[Len(script)]
      BY <1>4, <3>2
    <3> QED
      BY <1>1, <3>2, <3>3 DEF Going, Shaped
  <2> QED
    BY <2>1, <2>2 DEF Shaped, Closing
<1> QED
  BY <1>1, <1>6, <1>7, <1>8, <1>9 DEF Going

\* Else the helper is made the pool admin, configures and gives the administration back first.
LEMMA CollectsSome ==
    ASSUME Inv, Sound, Going, CollectReserves, NEW S, S = toConfigure(item.assets), S # {}
    PROVE  Going'
<1>1. /\ script # <<>> /\ TypeOK /\ script \in Seq(Items) /\ item = script[1] /\ item \in Items
      /\ UNCHANGED <<next, crashes, operations>>
      /\ item.do = "collect" /\ S \in SUBSET Symbols
      /\ \A s \in S : among(s, item.assets) /\ Stands(Of("listed", s))
      /\ \A c \in Conditions : Stands(c)' <=> Stands(c)
      /\ \A c \in Core : Stands(c)
  BY Collected
<1>2. /\ \A c \in Conditions : next = 3 /\ Establishes(item, c) =>
           c.kind = "borrowing" /\ c.to \in S
      /\ \A c \in Conditions : Establishes(item, c) => c.kind = "borrowing"
      /\ \A c \in Conditions : c.kind = "plain" /\ c.to \in S => Disturbs(item, c)
  BY Collected
<1> DEFINE mid == doConfigure(S)
<1>3. /\ lend \in Items /\ giveBack \in Items /\ mid \in Items
      /\ \A c \in Conditions :
           /\ Disturbs(lend, c) \/ Disturbs(giveBack, c) => Establishes(giveBack, c)
           /\ Disturbs(lend, c) \/ Disturbs(giveBack, c) => c \notin Core /\ c \in Written
           /\ Disturbs(mid, c) <=> c.kind = "plain" /\ c.to \in S
           /\ c.kind = "borrowing" /\ c.to \in S => Establishes(mid, c)
      /\ \A stage : /\ needs(lend, stage) = {} /\ needs(giveBack, stage) = {}
                    /\ needs(mid, stage) = Core \cup {Of("listed", s) : s \in S}
      /\ \A stage : fits(lend, stage) /\ fits(giveBack, stage) /\ fits(mid, stage)
  BY <1>1, LendingSteps
<1>4. script' = <<lend>> \o <<mid>> \o <<giveBack>> \o Tail(script)
  BY DEF CollectReserves, set, call, lend, giveBack, doCall, doConfigure
<1> HIDE DEF mid
<1>5. /\ script' \in Seq(Items) /\ Len(script') = Len(script) + 2
      /\ script'[1] = lend /\ script'[2] = mid /\ script'[3] = giveBack
      /\ \A k \in 2..Len(script) : script'[k + 2] = script[k]
  BY <1>1, <1>3, <1>4, Before
<1>6. Len(script) \in Nat /\ Len(script) >= 1
  BY <1>1, Rest
<1>7. /\ DOMAIN script' = 1..Len(script) + 2 /\ DOMAIN script = 1..Len(script)
      /\ \A k \in DOMAIN script' : \/ k = 1 \/ k = 2 \/ k = 3
                                   \/ /\ k - 2 \in 2..Len(script) /\ (k - 2) + 2 = k
                                      /\ script'[k] = script[k - 2]
  <2>1. DOMAIN script' = 1..Len(script) + 2 /\ DOMAIN script = 1..Len(script)
    BY <1>1, <1>5, <1>6
  <2>2. ASSUME NEW k \in 1..Len(script) + 2, k # 1, k # 2, k # 3
        PROVE  k - 2 \in 2..Len(script) /\ (k - 2) + 2 = k
    BY <1>6, <2>2
  <2> QED
    BY <1>5, <2>1, <2>2
<1>8. ASSUME NEW c \in Conditions, next = 3 \/ c.kind # "borrowing",
             NEW k, k \in 2..Len(script) + 1, DueAt(script, k, c)
      PROVE  DueAt(script, k + 2, c)'
  <2>1. \/ ~Disturbs(script[1], c) => \A i \in 1..3 : ~Disturbs(script'[i], c)
        \/ Establishes(script'[3], c)
    <3>1. ASSUME ~Establishes(giveBack, c), ~Disturbs(script[1], c), NEW i \in 1..3
          PROVE  ~Disturbs(script'[i], c)
      <4>1. ~Disturbs(lend, c) /\ ~Disturbs(giveBack, c)
        BY <1>3, <3>1
      <4>2. ~Disturbs(mid, c)
        BY <1>1, <1>2, <1>3, <3>1
      <4>3. i = 1 \/ i = 2 \/ i = 3
        OBVIOUS
      <4> QED
        BY <1>5, <4>1, <4>2, <4>3
    <3> QED
      BY <1>5, <3>1
  <2>2. Establishes(script[1], c) => Establishes(script'[2], c) /\ ~Disturbs(script'[3], c)
    <3>1. ASSUME Establishes(script[1], c) PROVE Establishes(mid, c) /\ ~Disturbs(giveBack, c)
      <4>1. c.kind = "borrowing" /\ c.to \in S
        BY <1>1, <1>2, <1>8, <3>1
      <4>2. c \notin Written
        BY <4>1, WrittenTyped
      <4> QED
        BY <1>3, <4>1, <4>2
    <3> QED
      BY <1>5, <3>1
  <2>3. Stands(c) \in BOOLEAN /\ DueIf(Stands(c), script, k, c)
    BY <1>8, StandsBoolean DEF DueAt
  <2>4. DueIf(Stands(c), script', k + 2, c)
    BY <1>1, <1>5, <1>8, <2>1, <2>2, <2>3, DueBefore
  <2>5. Stands(c)' = Stands(c)
    BY <1>1, StandsBoolean
  <2> QED
    BY <2>4, <2>5 DEF DueAt
<1>9. Ready'
  <2> SUFFICES ASSUME NEW k \in DOMAIN script', NEW c \in needs(script'[k], next')
               PROVE  DueAt(script, k, c)'
    BY DEF Ready
  <2>1. CASE k = 1 \/ k = 3
    BY <1>3, <1>5, <2>1
  <2>2. CASE k = 2
    <3>1. c \in Core \/ \E s \in S : c = Of("listed", s)
      BY <1>3, <1>5, <2>2
    <3>2. c \in Conditions /\ Stands(c)
      BY <1>1, <3>1, NeedsTyped DEF Conditions, PoolKinds
    <3>3. ~Disturbs(lend, c)
      <4>1. \A s \in S : Of("listed", s) \notin Written
        BY WrittenTyped DEF Of
      <4> QED
        BY <1>3, <3>1, <3>2, <4>1
    <3>4. \A i \in 1..k - 1 : ~Disturbs(script'[i], c)
      BY <1>5, <2>2, <3>3
    <3> QED
      BY <1>1, <3>2, <3>4 DEF DueAt, DueIf
  <2>3. CASE k # 1 /\ k # 2 /\ k # 3
    <3>1. PICK j : j = k - 2
      OBVIOUS
    <3>2. j \in 2..Len(script) /\ j + 2 = k /\ script'[k] = script[j] /\ j \in DOMAIN script
          /\ j \in 2..Len(script) + 1
      BY <1>6, <1>7, <2>3, <3>1
    <3>3. script[j] \in Items
      BY <1>1, <3>2
    <3>4. c \in Conditions /\ DueAt(script, j, c) /\ c.kind # "borrowing"
      BY <1>1, <3>2, <3>3, NeedsTyped DEF Going, Ready
    <3>5. DueAt(script, j + 2, c)'
      BY <1>8, <3>2, <3>4
    <3> QED
      BY <3>2, <3>5
  <2> QED
    BY <2>1, <2>2, <2>3
<1>10. Launching'
  <2> SUFFICES ASSUME next = 3, NEW c \in Achieved PROVE Due(script, c)'
    BY <1>1 DEF Launching
  <2>1. c \in Conditions
    BY DEF Achieved, Conditions, PoolKinds
  <2>2. PICK k : k = Len(script) + 1
    OBVIOUS
  <2>3. DueAt(script, k, c) /\ k \in 2..Len(script) + 1 /\ k + 2 = Len(script') + 1
    BY <1>1, <1>5, <1>6, <2>2 DEF Going, Launching, Due
  <2>4. DueAt(script, k + 2, c)'
    BY <1>8, <2>1, <2>3
  <2>5. DueIf(Stands(c)', script', Len(script') + 1, c)
    BY <2>3, <2>4 DEF DueAt
  <2> QED
    BY <2>5 DEF Due, DueAt
<1>11. Running'
  <2>1. ASSUME next = Launched, NEW c \in Core
        PROVE  Stands(c)' /\ \A k \in DOMAIN script' : ~Disturbs(script'[k], c)
    <3>1. Stands(c) /\ \A k \in DOMAIN script : ~Disturbs(script[k], c)
      BY <2>1 DEF Going, Running
    <3>2. c \in Conditions /\ c \in Written
      BY <1>1, NeedsTyped
    <3>3. c.kind # "plain"
      BY <3>2, WrittenTyped
    <3>4. ~Disturbs(lend, c) /\ ~Disturbs(giveBack, c) /\ ~Disturbs(mid, c)
      BY <1>3, <3>2, <3>3
    <3>5. ASSUME NEW k \in DOMAIN script' PROVE ~Disturbs(script'[k], c)
      <4>1. CASE k = 1 \/ k = 2 \/ k = 3
        BY <1>5, <3>4, <4>1
      <4>2. CASE k - 2 \in 2..Len(script) /\ script'[k] = script[k - 2]
        <5>1. k - 2 \in DOMAIN script
          BY <1>6, <1>7, <4>2
        <5> QED
          BY <3>1, <4>2, <5>1
      <4> QED
        BY <1>7, <4>1, <4>2
    <3> QED
      BY <1>1, <3>1, <3>2, <3>5
  <2>2. next = Launched => operations # 0
    BY <1>1 DEF Going, Running
  <2> QED
    BY <1>1, <2>1, <2>2 DEF Running
<1>12. Shaped'
  <2>1. ASSUME NEW k \in DOMAIN script'
        PROVE  fits(script'[k], next')
    <3>1. CASE k = 1 \/ k = 2 \/ k = 3
      BY <1>3, <1>5, <3>1
    <3>2. CASE k - 2 \in 2..Len(script) /\ script'[k] = script[k - 2]
      <4>1. k - 2 \in DOMAIN script
        BY <1>6, <1>7, <3>2
      <4> QED
        BY <1>1, <3>2, <4>1 DEF Going, Shaped
    <3> QED
      BY <1>7, <3>1, <3>2
  <2>2. ASSUME next' = 3 PROVE script'[Len(script')] = Closing
    <3>1. script[Len(script)] = Closing
      BY <1>1, <2>2 DEF Going, Shaped
    <3>2. Closing.do = "initialize"
      BY DEF Closing, initialize
    <3>3. Len(script) # 1
      BY <1>1, <3>1, <3>2
    <3>4. Len(script) \in 2..Len(script)
      BY ONLY <1>6, <3>3
    <3> QED
      BY <1>5, <3>1, <3>4
  <2> QED
    BY <2>1, <2>2 DEF Shaped, Closing
<1> QED
  BY <1>1, <1>9, <1>10, <1>11, <1>12 DEF Going

\* So whatever is collected, every step is still ready and the launch on its way.
LEMMA Collects ==
    ASSUME Inv, Sound, Going, CollectReserves
    PROVE  Going' /\ Sound'
<1>1. PICK S : S = toConfigure(item.assets)
  OBVIOUS
<1>2. Going'
  BY <1>1, CollectsNone, CollectsSome
<1> QED
  BY <1>2, Collected

-----------------------------------------------------------------------------
(* What the initialization leaves behind                                   *)

\* Its steps by their places: the admins, the proxies and the helpers, ...
LEMMA FirstPlaces ==
    /\ initializationTask[1] =
         doCall("authorize", "LendingPoolAddressesProviderRegistry", "provider", {Provider}, "deployer")
    /\ initializationTask[2] = doCall("set", Provider, "POOL_ADMIN", {"deployer"}, "deployer")
    /\ initializationTask[3] = doCall("set", Provider, "EMERGENCY_ADMIN", {"emergencyAdmin"}, "deployer")
    /\ initializationTask[4] = doSetImpl("LendingPoolImpl")
    /\ initializationTask[5] = doInsertProxy("LendingPool")
    /\ initializationTask[6] = doSetImpl("LendingPoolConfiguratorImpl")
    /\ initializationTask[7] = doInsertProxy("LendingPoolConfigurator")
    /\ initializationTask[8] = doInitialize("StableAndVariableTokensHelper",
         {<<"pool", "LendingPool">>, <<"addressesProvider", Provider>>})
    /\ initializationTask[9] = doInitialize("LTokensAndRatesHelper",
         {<<"pool", "LendingPool">>, <<"addressesProvider", Provider>>,
          <<"poolConfigurator", "LendingPoolConfigurator">>})
<1>1. /\ \A k \in 1..3 : initializationTask[k] = addressProviderTask[k]
      /\ \A k \in 1..6 : initializationTask[3 + k] = lendingPoolTask[k]
  BY Places
<1>2. /\ initializationTask[1] = addressProviderTask[1]
      /\ initializationTask[2] = addressProviderTask[2]
      /\ initializationTask[3] = addressProviderTask[3]
  BY <1>1
<1>3. /\ initializationTask[3 + 1] = lendingPoolTask[1]
      /\ initializationTask[3 + 2] = lendingPoolTask[2]
      /\ initializationTask[3 + 3] = lendingPoolTask[3]
      /\ initializationTask[3 + 4] = lendingPoolTask[4]
      /\ initializationTask[3 + 5] = lendingPoolTask[5]
      /\ initializationTask[3 + 6] = lendingPoolTask[6]
  BY <1>1
<1> QED
  BY <1>2, <1>3, AddressProviderSteps, LendingPoolSteps DEF Three, Six

\* ... the oracles and the data provider, ...
LEMMA MiddlePlaces ==
    /\ initializationTask[10] = doCall("authorize", "PriceAggregatorAdapterChainsightImpl", "source",
                                       {"ChainsightOracle"}, "deployer")
    /\ initializationTask[11] = doCall("authorize", "PalmyFallbackOracle", "sybil", {"deployer"},
                                       "deployer")
    /\ initializationTask[12] = doInitialize("PalmyOracle",
         {<<"priceAggregator", "PriceAggregatorAdapterChainsightImpl">>,
          <<"fallbackOracle", "PalmyFallbackOracle">>})
    /\ initializationTask[13] = doCall("set", "PalmyOracle", "priceAggregator",
                                       {"PriceAggregatorAdapterChainsightImpl"}, "deployer")
    /\ initializationTask[14] = doCall("set", "LendingRateOracle", "owner",
                                       {"StableAndVariableTokensHelper"}, "deployer")
    /\ initializationTask[15] = doCall("authorize", "LendingRateOracle", "borrowRate",
                                       getLendingRateOracles, "StableAndVariableTokensHelper")
    /\ initializationTask[16] = doCall("set", "LendingRateOracle", "owner", {"deployer"},
                                       "StableAndVariableTokensHelper")
    /\ initializationTask[17] = doCall("set", Provider, "PRICE_ORACLE", {"PalmyOracle"}, "deployer")
    /\ initializationTask[18] = doCall("set", Provider, "LENDING_RATE_ORACLE", {"LendingRateOracle"},
                                       "deployer")
    /\ initializationTask[19] =
         doInitialize("PalmyProtocolDataProvider", {<<"addressesProvider", Provider>>})
<1>1. /\ \A k \in 1..9 : initializationTask[9 + k] = oracleTask[k]
      /\ initializationTask[19] = dataProviderTask[1]
  BY Places
<1>2. /\ initializationTask[9 + 1] = oracleTask[1] /\ initializationTask[9 + 2] = oracleTask[2]
      /\ initializationTask[9 + 3] = oracleTask[3] /\ initializationTask[9 + 4] = oracleTask[4]
      /\ initializationTask[9 + 5] = oracleTask[5] /\ initializationTask[9 + 6] = oracleTask[6]
      /\ initializationTask[9 + 7] = oracleTask[7] /\ initializationTask[9 + 8] = oracleTask[8]
      /\ initializationTask[9 + 9] = oracleTask[9]
  BY <1>1
<1>3. /\ oracleTask[5] = setInitialMarketRates[1] /\ oracleTask[6] = setInitialMarketRates[2]
      /\ oracleTask[7] = setInitialMarketRates[3]
  <2>1. \A k \in 1..3 : oracleTask[4 + k] = setInitialMarketRates[k]
    BY OracleSteps
  <2>2. /\ oracleTask[4 + 1] = setInitialMarketRates[1] /\ oracleTask[4 + 2] = setInitialMarketRates[2]
        /\ oracleTask[4 + 3] = setInitialMarketRates[3]
    BY <2>1
  <2> QED
    BY <2>2
<1> QED
  BY <1>1, <1>2, <1>3, OracleSteps, MarketRateSteps, DataProviderSteps DEF Three

\* ... the reserves and what is left.
LEMMA LastPlaces ==
    /\ initializationTask[20] = doBatch(Launch) /\ initializationTask[21] = doCollect(Launch)
    /\ initializationTask[22] = doCall("set", Provider, "LENDING_POOL_COLLATERAL_MANAGER",
                                       {"LendingPoolCollateralManager"}, "deployer")
    /\ initializationTask[23] = doCall("set", Provider, "DATA_PROVIDER", {"PalmyProtocolDataProvider"},
                                       "deployer")
    /\ initializationTask[24] = doCall("authorize", "WETHGateway", "lendingPool", {"LendingPool"},
                                       "deployer")
    /\ initializationTask[25] = doInitialize("StakeUIHelper", {<<"priceOracle", "PalmyOracle">>})
    /\ initializationTask[26] = doInitialize("UiPoolDataProviderV2",
         {<<"priceAggregator", "PriceAggregatorAdapterChainsightImpl">>})
    /\ initializationTask[26] = Closing
<1>1. \A k \in 1..7 : initializationTask[19 + k] = miscTask[k]
  BY Places
<1>2. /\ initializationTask[19 + 1] = miscTask[1] /\ initializationTask[19 + 2] = miscTask[2]
      /\ initializationTask[19 + 3] = miscTask[3] /\ initializationTask[19 + 4] = miscTask[4]
      /\ initializationTask[19 + 5] = miscTask[5] /\ initializationTask[19 + 6] = miscTask[6]
      /\ initializationTask[19 + 7] = miscTask[7]
  BY <1>1
<1>3. Closing = doInitialize("UiPoolDataProviderV2",
                  {<<"priceAggregator", "PriceAggregatorAdapterChainsightImpl">>})
  BY DEF Closing, initialize, doInitialize
<1> QED
  BY <1>2, <1>3, MiscSteps

\* Which of them write to what a condition is about.
writtenAt(i, c) ==
  \/ i = 1 /\ c.on = "LendingPoolAddressesProviderRegistry"
  \/ i = 2 /\ c.on = Provider /\ c.field = "POOL_ADMIN"
  \/ i = 3 /\ c.on = Provider /\ c.field = "EMERGENCY_ADMIN"
  \/ i = 5 /\ c.to = "LendingPool"
  \/ i = 7 /\ c.to = "LendingPoolConfigurator"
  \/ i = 8 /\ c.on = "StableAndVariableTokensHelper"
  \/ i = 9 /\ c.on = "LTokensAndRatesHelper"
  \/ i = 10 /\ c.on = "PriceAggregatorAdapterChainsightImpl"
  \/ i = 11 /\ c.on = "PalmyFallbackOracle"
  \/ i = 12 /\ c.on = "PalmyOracle"
  \/ i = 13 /\ c.on = "PalmyOracle" /\ c.field = "priceAggregator"
  \/ i \in {14, 16} /\ c.on = "LendingRateOracle" /\ c.field = "owner"
  \/ i = 15 /\ c.on = "LendingRateOracle" /\ c.field = "borrowRate"
  \/ i = 17 /\ c.on = Provider /\ c.field = "PRICE_ORACLE"
  \/ i = 18 /\ c.on = Provider /\ c.field = "LENDING_RATE_ORACLE"
  \/ i = 19 /\ c.on = "PalmyProtocolDataProvider"
  \/ i = 22 /\ c.on = Provider /\ c.field = "LENDING_POOL_COLLATERAL_MANAGER"
  \/ i = 23 /\ c.on = Provider /\ c.field = "DATA_PROVIDER"
  \/ i = 24 /\ c.on = "WETHGateway"
  \/ i = 25 /\ c.on = "StakeUIHelper"
  \/ i = 26 /\ c.on = "UiPoolDataProviderV2"

\* What a step of each kind undoes.
LEMMA DisturbedBy ==
    /\ \A kind \in {"set", "authorize"} : \A on, field, targets, by, c :
         Disturbs(doCall(kind, on, field, targets, by), c) =>
           c.on = on /\ c.field = field /\ c.kind \in {"is", "has"}
    /\ \A on, fields, c : Disturbs(doInitialize(on, fields), c) => c.on = on /\ c.kind \in {"is", "has"}
    /\ \A impl, c : ~Disturbs(doSetImpl(impl), c)
    /\ \A id, c : Disturbs(doInsertProxy(id), c) => c.to = id /\ c.kind \in {"is", "has"}
    /\ \A assets, c : Disturbs(doBatch(assets), c) => c.kind = "absent" /\ among(c.to, assets)
    /\ \A assets, c : Disturbs(doCollect(assets), c) => c.kind = "plain" /\ among(c.to, assets)
BY DEF Disturbs, doCall, doInitialize, doSetImpl, doInsertProxy, doBatch, doCollect

\* So a step of the initialization undoes a condition only at one of these places.
LEMMA UndoneAt ==
    ASSUME NEW i \in 1..26, NEW c, Disturbs(initializationTask[i], c)
    PROVE  \/ writtenAt(i, c) /\ c.kind \in {"is", "has"}
           \/ i = 20 /\ c.kind = "absent" /\ among(c.to, Launch)
           \/ i = 21 /\ c.kind = "plain" /\ among(c.to, Launch)
<1>1. CASE i \in {1, 2, 3, 4, 5, 6, 7, 8, 9}
  BY <1>1, FirstPlaces, DisturbedBy DEF writtenAt
<1>2. CASE i \in {10, 11, 12, 13, 14}
  BY <1>2, MiddlePlaces, DisturbedBy DEF writtenAt
<1>3. CASE i \in {15, 16, 17, 18, 19}
  BY <1>3, MiddlePlaces, DisturbedBy DEF writtenAt
<1>4. CASE i \in {20, 21, 22, 23, 24, 25, 26}
  BY <1>4, LastPlaces, DisturbedBy DEF writtenAt
<1> QED
  BY <1>1, <1>2, <1>3, <1>4

\* What a step of each kind establishes.
LEMMA EstablishedBy ==
    /\ \A on, field, to, by : Establishes(doCall("set", on, field, {to}, by), Is(on, field, to))
    /\ \A on, field, targets, by : \A to \in targets :
         Establishes(doCall("authorize", on, field, targets, by), Has(on, field, to))
    /\ \A on, fields, field, to : {f \in fields : f[1] = field} = {<<field, to>>} =>
         Establishes(doInitialize(on, fields), Is(on, field, to))
    /\ \A id : Establishes(doInsertProxy(id), Is(Provider, id, id))
    /\ \A kind \in {"plain", "absent"} : \A s : Establishes(doSetImpl("LendingPoolImpl"), Of(kind, s))
    /\ \A assets, s : among(s, assets) => Establishes(doBatch(assets), Of("listed", s))
    /\ \A assets, s : among(s, assets) /\ Collateral[s] # "skipped" =>
         Establishes(doCollect(assets), Of("borrowing", s))
<1>1. \A on, field, to, by : Establishes(doCall("set", on, field, {to}, by), Is(on, field, to))
  BY DEF Establishes, doCall, Is
<1>2. \A on, field, targets, by : \A to \in targets :
        Establishes(doCall("authorize", on, field, targets, by), Has(on, field, to))
  BY DEF Establishes, doCall, Has
<1>3. \A on, fields, field, to : {f \in fields : f[1] = field} = {<<field, to>>} =>
        Establishes(doInitialize(on, fields), Is(on, field, to))
  BY DEF Establishes, doInitialize, Is
<1>4. \A id : Establishes(doInsertProxy(id), Is(Provider, id, id))
  BY DEF Establishes, doInsertProxy, Is
<1>5. \A kind \in {"plain", "absent"} : \A s : Establishes(doSetImpl("LendingPoolImpl"), Of(kind, s))
  BY DEF Establishes, doSetImpl, Of
<1>6. \A assets, s : among(s, assets) => Establishes(doBatch(assets), Of("listed", s))
  BY DEF Establishes, doBatch, Of
<1>7. \A assets, s : among(s, assets) /\ Collateral[s] # "skipped" =>
        Establishes(doCollect(assets), Of("borrowing", s))
  BY DEF Establishes, doCollect, Of
<1> QED
  BY <1>1, <1>2, <1>3, <1>4, <1>5, <1>6, <1>7

\* Established by the step at a place of the initialization and not undone by a later one.
Lasts(j, c) ==
  /\ Establishes(initializationTask[j], c)
  /\ \A i \in j + 1..26 : ~Disturbs(initializationTask[i], c)

\* The last place at which each of the conditions that are written is established: the admins, the
\* proxies and the helpers, ...
earlyPlace(j, c) ==
  \/ j = 1 /\ c = Has("LendingPoolAddressesProviderRegistry", "provider", Provider)
  \/ j = 2 /\ c = Is(Provider, "POOL_ADMIN", "deployer")
  \/ j = 3 /\ c = Is(Provider, "EMERGENCY_ADMIN", "emergencyAdmin")
  \/ j = 5 /\ c = Is(Provider, "LendingPool", "LendingPool")
  \/ j = 7 /\ c = Is(Provider, "LendingPoolConfigurator", "LendingPoolConfigurator")
  \/ j = 8 /\ c = Is("StableAndVariableTokensHelper", "addressesProvider", Provider)
  \/ j = 9 /\ c = Is("LTokensAndRatesHelper", "addressesProvider", Provider)
  \/ j = 9 /\ c = Is("LTokensAndRatesHelper", "poolConfigurator", "LendingPoolConfigurator")

\* ... the oracles and the data provider, ...
middlePlace(j, c) ==
  \/ j = 10 /\ c = Has("PriceAggregatorAdapterChainsightImpl", "source", "ChainsightOracle")
  \/ j = 11 /\ c = Has("PalmyFallbackOracle", "sybil", "deployer")
  \/ j = 12 /\ c = Is("PalmyOracle", "fallbackOracle", "PalmyFallbackOracle")
  \/ j = 13 /\ c = Is("PalmyOracle", "priceAggregator", "PriceAggregatorAdapterChainsightImpl")
  \/ j = 15 /\ c \in RatesSet
  \/ j = 16 /\ c = Is("LendingRateOracle", "owner", "deployer")
  \/ j = 17 /\ c = Is(Provider, "PRICE_ORACLE", "PalmyOracle")
  \/ j = 18 /\ c = Is(Provider, "LENDING_RATE_ORACLE", "LendingRateOracle")
  \/ j = 19 /\ c = Is("PalmyProtocolDataProvider", "addressesProvider", Provider)

\* ... and what is left.
latePlace(j, c) ==
  \/ j = 22 /\ c = Is(Provider, "LENDING_POOL_COLLATERAL_MANAGER", "LendingPoolCollateralManager")
  \/ j = 23 /\ c = Is(Provider, "DATA_PROVIDER", "PalmyProtocolDataProvider")
  \/ j = 24 /\ c = Has("WETHGateway", "lendingPool", "LendingPool")
  \/ j = 25 /\ c = Is("StakeUIHelper", "priceOracle", "PalmyOracle")
  \/ j = 26 /\ c = Is("UiPoolDataProviderV2", "priceAggregator", "PriceAggregatorAdapterChainsightImpl")

\* There is one for each.
LEMMA EachPlaced ==
    ASSUME NEW c \in Written
    PROVE  \E j \in 1..26 : earlyPlace(j, c) \/ middlePlace(j, c) \/ latePlace(j, c)
<1>1. \A w \in Wiring : w[1] \notin Proxies =>
        \E j \in 1..26 : LET d == Is(w[1], w[2], w[3])
                         IN earlyPlace(j, d) \/ middlePlace(j, d) \/ latePlace(j, d)
  <2>1. \A j \in {1, 2, 3, 5, 7, 8, 9, 10, 11, 12, 13, 16, 17, 18, 19, 22, 23, 24, 25, 26} : j \in 1..26
    OBVIOUS
  <2> SUFFICES ASSUME NEW x, NEW y, NEW z, <<x, y, z>> \in Wiring, x \notin Proxies
               PROVE  \E j \in 1..26 : LET d == Is(x, y, z)
                        IN earlyPlace(j, d) \/ middlePlace(j, d) \/ latePlace(j, d)
    BY DEF Wiring
  <2>2. \/ earlyPlace(2, Is(x, y, z)) \/ earlyPlace(3, Is(x, y, z)) \/ earlyPlace(5, Is(x, y, z))
        \/ earlyPlace(7, Is(x, y, z)) \/ earlyPlace(8, Is(x, y, z)) \/ earlyPlace(9, Is(x, y, z))
        \/ middlePlace(12, Is(x, y, z)) \/ middlePlace(13, Is(x, y, z)) \/ middlePlace(16, Is(x, y, z))
        \/ middlePlace(17, Is(x, y, z)) \/ middlePlace(18, Is(x, y, z)) \/ middlePlace(19, Is(x, y, z))
        \/ latePlace(22, Is(x, y, z)) \/ latePlace(23, Is(x, y, z)) \/ latePlace(25, Is(x, y, z))
        \/ latePlace(26, Is(x, y, z))
    BY DEF Wiring, Proxies, earlyPlace, middlePlace, latePlace
  <2> QED
    BY <2>1, <2>2
<1>2. \A w \in Authorizations :
        LET d == Has(w[1], w[2], w[3])
        IN earlyPlace(1, d) \/ middlePlace(10, d) \/ middlePlace(11, d) \/ latePlace(24, d)
  BY DEF Authorizations, earlyPlace, middlePlace, latePlace
<1>3. \A d \in RatesSet : middlePlace(15, d)
  BY DEF middlePlace
<1> QED
  BY <1>1, <1>2, <1>3 DEF Written

\* It is the last.
LEMMA EarlyLasts == ASSUME NEW j \in 1..26, NEW c, earlyPlace(j, c) PROVE Lasts(j, c)
<1>1. j \in {1, 2, 3, 5, 7, 8, 9} /\ c.kind \in {"is", "has"}
  BY DEF earlyPlace, Is, Has
<1>2. CASE j \in {1, 2, 3}
  <2>1. Establishes(initializationTask[j], c)
    BY <1>2, FirstPlaces, EstablishedBy DEF earlyPlace
  <2>2. \A i \in j + 1..26 : ~writtenAt(i, c)
    BY <1>2 DEF earlyPlace, writtenAt, Is, Has, Provider
  <2> QED
    BY <1>1, <2>1, <2>2, UndoneAt DEF Lasts
<1>3. CASE j \in {5, 7}
  <2>1. Establishes(initializationTask[j], c)
    BY <1>3, FirstPlaces, EstablishedBy DEF earlyPlace
  <2>2. \A i \in j + 1..26 : ~writtenAt(i, c)
    BY <1>3 DEF earlyPlace, writtenAt, Is, Provider
  <2> QED
    BY <1>1, <2>1, <2>2, UndoneAt DEF Lasts
<1>4. CASE j \in {8, 9}
  <2>1. /\ {f \in {<<"pool", "LendingPool">>, <<"addressesProvider", Provider>>} :
              f[1] = "addressesProvider"} = {<<"addressesProvider", Provider>>}
        /\ {f \in {<<"pool", "LendingPool">>, <<"addressesProvider", Provider>>,
                   <<"poolConfigurator", "LendingPoolConfigurator">>} :
              f[1] = "addressesProvider"} = {<<"addressesProvider", Provider>>}
        /\ {f \in {<<"pool", "LendingPool">>, <<"addressesProvider", Provider>>,
                   <<"poolConfigurator", "LendingPoolConfigurator">>} :
              f[1] = "poolConfigurator"} = {<<"poolConfigurator", "LendingPoolConfigurator">>}
    OBVIOUS
  <2>2. Establishes(initializationTask[j], c)
    BY <1>4, <2>1, FirstPlaces, EstablishedBy DEF earlyPlace
  <2>3. \A i \in j + 1..26 : ~writtenAt(i, c)
    BY <1>4 DEF earlyPlace, writtenAt, Is, Provider
  <2> QED
    BY <1>1, <2>2, <2>3, UndoneAt DEF Lasts
<1> QED
  BY <1>1, <1>2, <1>3, <1>4

\* So are those of the oracles and the data provider, ...
LEMMA MiddleLasts == ASSUME NEW j \in 1..26, NEW c, middlePlace(j, c) PROVE Lasts(j, c)
<1>1. j \in {10, 11, 12, 13, 15, 16, 17, 18, 19} /\ c.kind \in {"is", "has"}
  BY RatesTyped DEF middlePlace, Is, Has
<1>2. CASE j \in {10, 11, 13, 16, 17, 18}
  <2>1. Establishes(initializationTask[j], c)
    BY <1>2, MiddlePlaces, EstablishedBy DEF middlePlace
  <2>2. \A i \in j + 1..26 : ~writtenAt(i, c)
    BY <1>2 DEF middlePlace, writtenAt, Is, Has, Provider
  <2> QED
    BY <1>1, <2>1, <2>2, UndoneAt DEF Lasts
<1>3. CASE j \in {12, 19}
  <2>1. /\ {f \in {<<"priceAggregator", "PriceAggregatorAdapterChainsightImpl">>,
                   <<"fallbackOracle", "PalmyFallbackOracle">>} :
              f[1] = "fallbackOracle"} = {<<"fallbackOracle", "PalmyFallbackOracle">>}
        /\ {f \in {<<"addressesProvider", Provider>>} :
              f[1] = "addressesProvider"} = {<<"addressesProvider", Provider>>}
    OBVIOUS
  <2>2. Establishes(initializationTask[j], c)
    BY <1>3, <2>1, MiddlePlaces, EstablishedBy DEF middlePlace
  <2>3. \A i \in j + 1..26 : ~writtenAt(i, c)
    BY <1>3 DEF middlePlace, writtenAt, Is, Provider
  <2> QED
    BY <1>1, <2>2, <2>3, UndoneAt DEF Lasts
<1>4. CASE j = 15
  <2>1. c \in RatesSet
    BY <1>4 DEF middlePlace
  <2>2. PICK s \in getLendingRateOracles : c = Has("LendingRateOracle", "borrowRate", s)
    BY <2>1 DEF RatesSet
  <2>3. Establishes(initializationTask[j], c)
    BY <1>4, <2>2, MiddlePlaces, EstablishedBy
  <2>4. /\ c.kind = "has" /\ c.on = "LendingRateOracle" /\ c.field = "borrowRate"
        /\ c.to # "LendingPool" /\ c.to # "LendingPoolConfigurator"
    BY <2>1, RatesTyped DEF Ids, Proxies
  <2>5. \A i \in j + 1..26 : ~writtenAt(i, c)
    BY <1>4, <2>4 DEF writtenAt, Provider
  <2> QED
    BY <1>1, <2>3, <2>5, UndoneAt DEF Lasts
<1> QED
  BY <1>1, <1>2, <1>3, <1>4

\* ... and those of what is left.
LEMMA LateLasts == ASSUME NEW j \in 1..26, NEW c, latePlace(j, c) PROVE Lasts(j, c)
<1>1. j \in {22, 23, 24, 25, 26} /\ c.kind \in {"is", "has"}
  BY DEF latePlace, Is, Has
<1>2. \A i \in j + 1..26 : ~writtenAt(i, c)
  BY <1>1 DEF latePlace, writtenAt, Is, Has, Provider
<1>3. /\ {f \in {<<"priceOracle", "PalmyOracle">>} : f[1] = "priceOracle"}
           = {<<"priceOracle", "PalmyOracle">>}
      /\ {f \in {<<"priceAggregator", "PriceAggregatorAdapterChainsightImpl">>} :
            f[1] = "priceAggregator"}
           = {<<"priceAggregator", "PriceAggregatorAdapterChainsightImpl">>}
  OBVIOUS
<1>4. Establishes(initializationTask[j], c)
  BY <1>1, <1>3, LastPlaces, EstablishedBy DEF latePlace
<1> QED
  BY <1>1, <1>2, <1>4, UndoneAt DEF Lasts

\* The conditions on reserves: what nobody has listed at the start is listed and configured once.
LEMMA ReservesLast ==
    ASSUME NEW s \in Symbols
    PROVE  /\ ~among(s, Launch) => Lasts(4, Of("absent", s))
           /\ among(s, Launch) => Lasts(20, Of("listed", s))
           /\ among(s, Launch) /\ Collateral[s] # "skipped" => Lasts(21, Of("borrowing", s))
           /\ Establishes(initializationTask[4], Of("plain", s))
           /\ \A i \in 5..20 : ~Disturbs(initializationTask[i], Of("plain", s))
<1>1. \A kind : Of(kind, s).kind = kind /\ Of(kind, s).to = s
  BY DEF Of
<1>2. /\ \A kind \in {"plain", "absent"} : Establishes(initializationTask[4], Of(kind, s))
      /\ among(s, Launch) => Establishes(initializationTask[20], Of("listed", s))
      /\ among(s, Launch) /\ Collateral[s] # "skipped" =>
           Establishes(initializationTask[21], Of("borrowing", s))
  BY FirstPlaces, LastPlaces, EstablishedBy
<1>3. \A i \in 1..26 :
        /\ ~Disturbs(initializationTask[i], Of("listed", s))
        /\ ~Disturbs(initializationTask[i], Of("borrowing", s))
        /\ ~among(s, Launch) => ~Disturbs(initializationTask[i], Of("absent", s))
        /\ i # 21 => ~Disturbs(initializationTask[i], Of("plain", s))
  BY <1>1, UndoneAt
<1>4. /\ \A i \in 4 + 1..26 : i \in 1..26
      /\ \A i \in 20 + 1..26 : i \in 1..26
      /\ \A i \in 21 + 1..26 : i \in 1..26
      /\ \A i \in 5..20 : i \in 1..26 /\ i # 21
  OBVIOUS
<1> QED
  BY <1>2, <1>3, <1>4 DEF Lasts

\* What lasts is due after it.
LEMMA LastingDue ==
    ASSUME NEW j \in 1..26, NEW c, Lasts(j, c), NEW k \in j + 1..27, NEW now
    PROVE  DueIf(now, initializationTask, k, c)
<1>1. j \in 1..k - 1 /\ \A i \in j + 1..k - 1 : i \in j + 1..26
  OBVIOUS
<1> QED
  BY <1>1 DEF DueIf, Lasts

-----------------------------------------------------------------------------
(* The scripts that are started                                            *)

\* Steps that export call data, and that deploy and register some contracts.
filing(ids) == {i \in Items : \/ i.do = "save"
                              \/ i.do \in {"deploy", "register"} /\ i.id \in ids}

\* They rely on nothing, and undo what is known of those contracts only.
LEMMA FilingSteps ==
    ASSUME NEW ids, NEW i \in filing(ids)
    PROVE  /\ i \in Items /\ \A stage : needs(i, stage) = {}
           /\ i.do \notin {"set", "authorize", "initialize"}
           /\ i.do = "register" => i.id \in ids
           /\ \A c : Disturbs(i, c) => c.on \in ids \/ c.to \in ids
<1>1. i \in Items /\ (i.do = "save" \/ (i.do \in {"deploy", "register"} /\ i.id \in ids))
  BY DEF filing
<1> QED
  BY <1>1 DEF needs, Disturbs

\* A contract exported, deployed and registered.
LEMMA FilingTyped ==
    ASSUME NEW ids \in SUBSET Contracts
    PROVE  /\ \A S \in SUBSET Contracts : save(S) \in Seq(filing(ids))
           /\ \A id \in ids : deploying(id) \in Seq(filing(ids))
           /\ \A s, t \in Seq(filing(ids)) : s \o t \in Seq(filing(ids))
<1>1. \A S \in SUBSET Contracts : [do |-> "save", ids |-> S] \in filing(ids)
  BY DEF filing, Items
<1>2. \A id \in ids : /\ [do |-> "deploy", id |-> id] \in filing(ids)
                      /\ [do |-> "register", id |-> id] \in filing(ids)
  BY DEF filing, Items
<1>3. \A a, b \in filing(ids) : <<a>> \in Seq(filing(ids)) /\ <<a, b>> \in Seq(filing(ids))
  OBVIOUS
<1>4. \A s, t \in Seq(filing(ids)) : s \o t \in Seq(filing(ids))
  OBVIOUS
<1>5. ASSUME NEW S \in SUBSET Contracts PROVE save(S) \in Seq(filing(ids))
  <2>1. <<[do |-> "save", ids |-> S]>> \in Seq(filing(ids))
    BY ONLY <1>1, <1>3, <1>5
  <2> QED
    BY <2>1 DEF save
<1>6. ASSUME NEW id \in ids PROVE deploying(id) \in Seq(filing(ids))
  <2>1. <<[do |-> "deploy", id |-> id], [do |-> "register", id |-> id]>> \in Seq(filing(ids))
    BY ONLY <1>2, <1>3, <1>6
  <2> QED
    BY <2>1 DEF deploying
<1> QED
  BY <1>4, <1>5, <1>6

\* Contracts one after the other.
LEMMA FilingAll ==
    ASSUME NEW ids \in SUBSET Contracts, NEW list \in Seq(ids)
    PROVE  deployingAll(list) \in Seq(filing(ids))
<1>1. Len(list) \in Nat /\ \A k \in 1..Len(list) : list[k] \in ids
  OBVIOUS
<1>2. ASSUME NEW k \in 1..2 * Len(list)
      PROVE  [do |-> IF k % 2 = 1 THEN "deploy" ELSE "register", id |-> list[(k + 1) \div 2]]
               \in filing(ids)
  <2>1. (k + 1) \div 2 \in 1..Len(list)
    BY <1>1
  <2>2. list[(k + 1) \div 2] \in ids
    BY <1>1, <2>1
  <2>3. \A id \in ids : /\ [do |-> "deploy", id |-> id] \in filing(ids)
                        /\ [do |-> "register", id |-> id] \in filing(ids)
    BY DEF filing, Items
  <2>4. CASE k % 2 = 1
    BY <2>2, <2>3, <2>4
  <2>5. CASE k % 2 # 1
    BY <2>2, <2>3, <2>5
  <2> QED
    BY <2>4, <2>5
<1>3. 2 * Len(list) \in Nat
  BY <1>1
<1> QED
  BY <1>2, <1>3 DEF deployingAll

\* The tasks that deploy.
LEMMA FilingTasks ==
    /\ librariesTask \in Seq(filing({"ReserveLogic", "GenericLogic", "ValidationLogic"}))
    /\ deploymentTask \in Seq(filing(Contracts))
    /\ newLendingPoolTask \in Seq(filing({"LendingPoolTmpImpl", "LendingPoolV4Impl"}))
<1>1. librariesTask \in Seq(filing({"ReserveLogic", "GenericLogic", "ValidationLogic"}))
  <2> DEFINE ids == {"ReserveLogic", "GenericLogic", "ValidationLogic"}
  <2>1. ids \in SUBSET Contracts
    BY ContractNames
  <2>2. \A id \in ids : save({id}) \in Seq(filing(ids)) /\ deploying(id) \in Seq(filing(ids))
    BY <2>1, FilingTyped
  <2>3. \A s, t \in Seq(filing(ids)) : s \o t \in Seq(filing(ids))
    BY <2>1, FilingTyped
  <2>4. librariesTask \in Seq(filing(ids))
    BY <2>2, <2>3 DEF librariesTask
  <2> QED
    BY <2>4
<1>2. deploymentTask \in Seq(filing(Contracts))
  <2> DEFINE ids == Contracts
  <2>1. /\ save({"LendingPoolAddressesProviderRegistry"}) \in Seq(filing(ids))
        /\ save({Provider}) \in Seq(filing(ids))
        /\ save({"PalmyProtocolDataProvider"}) \in Seq(filing(ids))
        /\ save({"WETHGateway"}) \in Seq(filing(ids))
    BY DeploymentNames, FilingTyped
  <2>2. /\ save(exportLendingPool) \in Seq(filing(ids))
        /\ save(exportOracles) \in Seq(filing(ids))
        /\ save(exportUIHelpers) \in Seq(filing(ids))
    BY DeploymentNames, FilingTyped DEF exportLendingPool, exportOracles, exportUIHelpers
  <2>3. deployingAll(DEPLOYMENT_CONTRACTS) \in Seq(filing(ids))
    BY ListsTyped, FilingAll
  <2>4. \A s, t \in Seq(filing(ids)) : s \o t \in Seq(filing(ids))
    BY FilingTyped
  <2> QED
    BY <2>1, <2>2, <2>3, <2>4 DEF deploymentTask
<1>3. newLendingPoolTask \in Seq(filing({"LendingPoolTmpImpl", "LendingPoolV4Impl"}))
  <2> DEFINE ids == {"LendingPoolTmpImpl", "LendingPoolV4Impl"}
  <2>1. ids \in SUBSET Contracts
    BY ContractNames
  <2>2. /\ {NewLendingPools[k] : k \in DOMAIN NewLendingPools} \in SUBSET Contracts
        /\ NewLendingPools \in Seq(ids)
    BY <2>1 DEF NewLendingPools
  <2>3. /\ save({NewLendingPools[k] : k \in DOMAIN NewLendingPools}) \in Seq(filing(ids))
        /\ \A s, t \in Seq(filing(ids)) : s \o t \in Seq(filing(ids))
    BY <2>1, <2>2, FilingTyped
  <2>4. deployingAll(NewLendingPools) \in Seq(filing(ids))
    BY <2>1, <2>2, FilingAll
  <2> QED
    BY <2>3, <2>4 DEF newLendingPoolTask
<1> QED
  BY <1>1, <1>2, <1>3

\* Starting the initialization: whatever stands, every step is ready and the launch on its way.
LEMMA Initializing ==
    ASSUME NEW now
    PROVE  /\ \A k \in 1..26 : \A c \in needs(initializationTask[k], 3) :
                DueIf(now, initializationTask, k, c)
           /\ \A c \in Achieved : DueIf(now, initializationTask, 27, c)
<1> DEFINE T == initializationTask
<1>1. \A j \in 1..26 : \A c : earlyPlace(j, c) \/ middlePlace(j, c) \/ latePlace(j, c) => Lasts(j, c)
  BY EarlyLasts, MiddleLasts, LateLasts
<1>2. /\ Lasts(5, Is(Provider, "LendingPool", "LendingPool"))
      /\ Lasts(7, Is(Provider, "LendingPoolConfigurator", "LendingPoolConfigurator"))
      /\ Lasts(9, Is("LTokensAndRatesHelper", "poolConfigurator", "LendingPoolConfigurator"))
      /\ Lasts(17, Is(Provider, "PRICE_ORACLE", "PalmyOracle"))
      /\ Lasts(18, Is(Provider, "LENDING_RATE_ORACLE", "LendingRateOracle"))
      /\ Lasts(10, SourceSet) /\ Lasts(13, AggregatorSet) /\ \A c \in RatesSet : Lasts(15, c)
  <2>1. /\ earlyPlace(5, Is(Provider, "LendingPool", "LendingPool"))
        /\ earlyPlace(7, Is(Provider, "LendingPoolConfigurator", "LendingPoolConfigurator"))
        /\ earlyPlace(9, Is("LTokensAndRatesHelper", "poolConfigurator", "LendingPoolConfigurator"))
        /\ middlePlace(17, Is(Provider, "PRICE_ORACLE", "PalmyOracle"))
        /\ middlePlace(18, Is(Provider, "LENDING_RATE_ORACLE", "LendingRateOracle"))
        /\ middlePlace(10, SourceSet) /\ middlePlace(13, AggregatorSet)
        /\ \A c \in RatesSet : middlePlace(15, c)
    BY DEF earlyPlace, middlePlace, SourceSet, AggregatorSet
  <2> QED
    BY <1>1, <2>1
<1>3. \A c \in Core : \A k \in 20..27 : DueIf(now, T, k, c)
  <2>1. \A c \in Core : \/ Lasts(7, c) \/ Lasts(9, c) \/ Lasts(17, c) \/ Lasts(18, c)
                         \/ Lasts(10, c) \/ Lasts(13, c) \/ Lasts(15, c)
    BY <1>2 DEF Core, Priced
  <2>2. \A k \in 20..27 : /\ k \in 7 + 1..27 /\ k \in 9 + 1..27 /\ k \in 17 + 1..27
                          /\ k \in 18 + 1..27 /\ k \in 10 + 1..27 /\ k \in 13 + 1..27
                          /\ k \in 15 + 1..27
    OBVIOUS
  <2> QED
    BY <2>1, <2>2, LastingDue
<1>4. ASSUME NEW k \in 1..26, NEW c \in needs(T[k], 3) PROVE DueIf(now, T, k, c)
  <2>1. k \in {6, 13, 17, 18, 20, 21}
    <3>1. CASE k \in {1, 2, 3, 4, 5, 7, 8, 9}
      <4>1. needs(T[k], 3) = {}
        BY <3>1, FirstPlaces DEF needs, doCall, doInitialize, doSetImpl, doInsertProxy, Provider
      <4> QED
        BY <1>4, <4>1
    <3>2. CASE k \in {10, 11, 12, 14, 15, 16, 19}
      <4>1. needs(T[k], 3) = {}
        BY <3>2, MiddlePlaces DEF needs, doCall, doInitialize, Provider
      <4> QED
        BY <1>4, <4>1
    <3>3. CASE k \in {22, 23, 24, 25, 26}
      <4>1. needs(T[k], 3) = {}
        BY <3>3, LastPlaces DEF needs, doCall, doInitialize, Provider
      <4> QED
        BY <1>4, <4>1
    <3> QED
      BY <3>1, <3>2, <3>3
  <2>2. CASE k = 6
    <3>1. c = Is(Provider, "LendingPool", "LendingPool")
      BY <1>4, <2>2, FirstPlaces DEF needs, doSetImpl
    <3> QED
      BY <1>2, <2>2, <3>1, LastingDue
  <2>3. CASE k = 20
    <3>1. c \in Core
      BY <1>4, <2>3, LastPlaces DEF needs, doBatch
    <3> QED
      BY <1>3, <2>3, <3>1
  <2>4. CASE k = 21
    <3> DEFINE kinds == {"listed"} \cup (IF 3 = 3 THEN {"plain"} ELSE {})
    <3>1. needs(T[21], 3) =
            Core \cup {Of(kind, s) : kind \in kinds, s \in {x \in Symbols : among(x, Launch)}}
      BY LastPlaces DEF needs, doCollect
    <3>2. kinds = {"listed", "plain"}
      OBVIOUS
    <3> HIDE DEF kinds
    <3>3. \/ c \in Core
          \/ \E s \in Symbols : among(s, Launch) /\ (c = Of("listed", s) \/ c = Of("plain", s))
      BY <1>4, <2>4, <3>1, <3>2
    <3>4. CASE c \in Core
      BY <1>3, <2>4, <3>4
    <3>5. CASE \E s \in Symbols : among(s, Launch) /\ c = Of("listed", s)
      <4>1. Lasts(20, c)
        BY <3>5, ReservesLast
      <4> QED
        BY <2>4, <4>1, LastingDue
    <3>6. CASE \E s \in Symbols : c = Of("plain", s)
      <4>1. Establishes(T[4], c) /\ \A i \in 5..20 : ~Disturbs(T[i], c)
        BY <3>6, ReservesLast
      <4>2. 4 \in 1..21 - 1 /\ 4 + 1..21 - 1 = 5..20
        OBVIOUS
      <4> HIDE DEF T
      <4>3. \E j \in 1..21 - 1 : /\ Establishes(T[j], c)
                                 /\ \A i \in j + 1..21 - 1 : ~Disturbs(T[i], c)
        BY <4>1, <4>2
      <4> QED
        BY <2>4, <4>3 DEF DueIf
    <3> QED
      BY <3>3, <3>4, <3>5, <3>6
  <2>5. CASE k = 13
    <3>1. c = SourceSet
      BY <1>4, <2>5, MiddlePlaces DEF needs, doCall
    <3> QED
      BY <1>2, <2>5, <3>1, LastingDue
  <2>6. CASE k = 17
    <3>1. c = SourceSet \/ c = AggregatorSet
      BY <1>4, <2>6, MiddlePlaces DEF needs, doCall, Provider
    <3>2. Lasts(10, c) \/ Lasts(13, c)
      BY <1>2, <3>1
    <3>3. 17 \in 10 + 1..27 /\ 17 \in 13 + 1..27
      OBVIOUS
    <3> QED
      BY <2>6, <3>2, <3>3, LastingDue
  <2>7. CASE k = 18
    <3>1. c \in RatesSet
      BY <1>4, <2>7, MiddlePlaces DEF needs, doCall, Provider
    <3>2. Lasts(15, c) /\ 18 \in 15 + 1..27
      BY <1>2, <3>1
    <3> QED
      BY <2>7, <3>2, LastingDue
  <2> QED
    BY <2>1, <2>2, <2>3, <2>4, <2>5, <2>6, <2>7
<1>5. ASSUME NEW c \in Achieved PROVE DueIf(now, T, 27, c)
  <2>1. \E j \in 1..26 : Lasts(j, c)
    <3>1. CASE c \in Written
      BY <1>1, <3>1, EachPlaced
    <3>2. CASE c \notin Written
      <4>1. \E s \in Symbols :
              \/ among(s, Launch) /\ c = Of("listed", s)
              \/ among(s, Launch) /\ Collateral[s] # "skipped" /\ c = Of("borrowing", s)
              \/ ~among(s, Launch) /\ c = Of("absent", s)
        BY <1>5, <3>2 DEF Achieved
      <4>2. Lasts(4, c) \/ Lasts(20, c) \/ Lasts(21, c)
        BY <4>1, ReservesLast
      <4> QED
        BY <4>2
    <3> QED
      BY <3>1, <3>2
  <2>2. PICK j \in 1..26 : Lasts(j, c)
    BY <2>1
  <2>3. 27 \in j + 1..27
    OBVIOUS
  <2> QED
    BY <2>2, <2>3, LastingDue
<1> QED
  BY <1>4, <1>5

\* The market's own references are conditions.
LEMMA CoreTyped == Core \subseteq Conditions /\ Core \subseteq Written /\ Written \subseteq Conditions
<1>1. ASSUME NEW s \in Seq(Items), Len(s) = 26 PROVE s[1] \in Items
  <2>1. 1 \in 1..Len(s)
    BY <1>1
  <2> QED
    BY <2>1
<1>2. initializationTask[1] \in Items
  BY <1>1, Places
<1> QED
  BY <1>2, NeedsTyped DEF Conditions

\* A script that only deploys relies on nothing.
LEMMA FilingReady ==
    ASSUME NEW ids, script' \in Seq(filing(ids))
    PROVE  /\ Ready'
           /\ \A k \in DOMAIN script' :
                /\ script'[k].do \notin {"set", "authorize", "initialize"}
                /\ script'[k].do = "register" => script'[k].id \in ids
                /\ \A c : Disturbs(script'[k], c) => c.on \in ids \/ c.to \in ids
<1>1. \A k \in DOMAIN script' : script'[k] \in filing(ids)
  OBVIOUS
<1>2. \A i \in filing(ids) : /\ \A stage : needs(i, stage) = {}
                             /\ i.do \notin {"set", "authorize", "initialize"}
                             /\ i.do = "register" => i.id \in ids
                             /\ \A c : Disturbs(i, c) => c.on \in ids \/ c.to \in ids
  BY FilingSteps
<1>3. Ready'
  <2> SUFFICES ASSUME NEW k \in DOMAIN script', NEW c \in needs(script'[k], next')
               PROVE  DueAt(script, k, c)'
    BY DEF Ready
  <2> QED
    BY <1>1, <1>2
<1> QED
  BY <1>1, <1>2, <1>3

\* The steps of the initialization are of that stage.
LEMMA FitPlaces == ASSUME NEW k \in 1..26 PROVE fits(initializationTask[k], 3)
<1>1. CASE k \in {1, 2, 3, 4, 5, 6, 7, 8, 9}
  BY <1>1, FirstPlaces DEF fits, aims, doCall, doInitialize, doSetImpl, doInsertProxy, Provider
<1>2. CASE k \in {10, 11, 12, 13, 14}
  BY <1>2, MiddlePlaces DEF fits, aims, doCall, doInitialize, Provider
<1>3. CASE k \in {15, 16, 17, 18, 19}
  BY <1>3, MiddlePlaces DEF fits, aims, doCall, doInitialize, Provider
<1>4. CASE k \in {20, 21, 22, 23, 24, 25, 26}
  BY <1>4, LastPlaces DEF fits, aims, doCall, doInitialize, doBatch, doCollect, Provider
<1> QED
  BY <1>1, <1>2, <1>3, <1>4

\* The stages start ready.
LEMMA Starts ==
    ASSUME Inv, Sound, Going, RunStage
    PROVE  Going' /\ Sound'
<1>1. /\ script = <<>> /\ next \in {1, 2, 3} /\ script' = stages[next]
      /\ UNCHANGED <<files, chain, next, crashes, operations>>
  BY DEF Inv, TypeOK, RunStage, Launched, incidents
<1>2. Sound' /\ \A c \in Conditions : Stands(c)' <=> Stands(c)
  BY <1>1, SoundScript
<1>3. Running' /\ operations' \in Nat
  BY <1>1 DEF Going, Running, Launched
<1>4. CASE next \in {1, 2}
  <2>1. PICK ids : /\ script' \in Seq(filing(ids)) /\ (next = 1 => Provider \notin ids)
    <3>1. /\ next = 1 => script' = librariesTask
          /\ next = 2 => script' = deploymentTask
      BY <1>1 DEF stages
    <3>2. Provider \notin {"ReserveLogic", "GenericLogic", "ValidationLogic"}
      BY DEF Provider
    <3> QED
      BY <1>4, <3>1, <3>2, FilingTasks
  <2>2. /\ Ready'
        /\ \A k \in DOMAIN script' :
             /\ script'[k].do \notin {"set", "authorize", "initialize"}
             /\ script'[k].do = "register" => script'[k].id \in ids
    BY <2>1, FilingReady
  <2>3. Launching' /\ Shaped'
    BY <1>1, <1>4, <2>1, <2>2 DEF Launching, Shaped, fits
  <2> QED
    BY <1>2, <1>3, <2>2, <2>3 DEF Going
<1>5. CASE next = 3
  <2>1. script' = initializationTask /\ next' = 3
    BY <1>1, <1>5 DEF stages
  <2>2. Len(initializationTask) = 26 /\ DOMAIN initializationTask = 1..26
    BY Places
  <2>3. Ready'
    <3> SUFFICES ASSUME NEW k \in DOMAIN script', NEW c \in needs(script'[k], next')
                 PROVE  DueAt(script, k, c)'
      BY DEF Ready
    <3>1. DueIf(Stands(c)', initializationTask, k, c)
      BY <2>1, <2>2, Initializing
    <3> QED
      BY <2>1, <3>1 DEF DueAt
  <2>4. Launching'
    <3> SUFFICES ASSUME NEW c \in Achieved PROVE Due(script, c)'
      BY DEF Launching
    <3>1. DueIf(Stands(c)', initializationTask, 27, c)
      BY Initializing
    <3>2. Len(script') + 1 = 27
      BY <2>1, <2>2
    <3>3. DueIf(Stands(c)', script', Len(script') + 1, c)
      BY <2>1, <3>1, <3>2
    <3> QED
      BY <3>3 DEF Due, DueAt
  <2>5. Shaped'
    <3>1. ASSUME NEW k \in 1..26
          PROVE  fits(initializationTask[k], 3)
      BY FitPlaces
    <3>2. script'[Len(script')] = Closing
      BY <2>1, <2>2, LastPlaces
    <3> QED
      BY <2>1, <2>2, <3>1, <3>2 DEF Shaped, Closing
  <2> QED
    BY <1>2, <1>3, <2>3, <2>4, <2>5 DEF Going
<1> QED
  BY <1>1, <1>4, <1>5

\* Listing a token, installing a revision: the market's own contracts are not touched.
LEMMA OperationSteps ==
    /\ \A s \in Listable :
         /\ s \in Symbols /\ Len(listToken(s)) = 2 /\ DOMAIN listToken(s) = {1, 2}
         /\ listToken(s)[1] = doBatch(<<s>>) /\ listToken(s)[2] = doCollect(<<s>>)
    /\ \A impl : DOMAIN setImpl(impl) = {1} /\ setImpl(impl)[1] = doSetImpl(impl)
    /\ \A c \in Core : /\ c.on \notin {"LendingPoolTmpImpl", "LendingPoolV4Impl"}
                       /\ c.to \notin {"LendingPoolTmpImpl", "LendingPoolV4Impl"}
                       /\ c.kind \in {"is", "has"}
<1>1. ASSUME NEW s \in Listable
      PROVE  /\ s \in Symbols /\ Len(listToken(s)) = 2 /\ DOMAIN listToken(s) = {1, 2}
             /\ listToken(s)[1] = doBatch(<<s>>) /\ listToken(s)[2] = doCollect(<<s>>)
  <2>1. s \in Symbols
    BY DEF Symbols
  <2>2. listToken(s) = <<doBatch(<<s>>)>> \o <<doCollect(<<s>>)>>
    BY DEF listToken, batchInitReserve, configureReservesByHelper, doBatch, doCollect
  <2>3. \A a, b : LET t == <<a>> \o <<b>>
                  IN Len(t) = 2 /\ DOMAIN t = {1, 2} /\ t[1] = a /\ t[2] = b
    OBVIOUS
  <2> QED
    BY <2>1, <2>2, <2>3
<1>2. \A impl : DOMAIN setImpl(impl) = {1} /\ setImpl(impl)[1] = doSetImpl(impl)
  BY DEF setImpl, doSetImpl
<1>3. \A c \in Core : /\ c.on \notin {"LendingPoolTmpImpl", "LendingPoolV4Impl"}
                      /\ c.to \notin {"LendingPoolTmpImpl", "LendingPoolV4Impl"}
                      /\ c.kind \in {"is", "has"}
  <2>1. \A c \in RatesSet : c.on \in Ids /\ c.to \notin {"LendingPoolTmpImpl", "LendingPoolV4Impl"}
                           /\ c.kind = "has" /\ c.on = "LendingRateOracle"
    BY RatesTyped, ContractNames, DeploymentNames DEF Contracts
  <2> QED
    BY <2>1 DEF Core, Priced, Is, Has, SourceSet, AggregatorSet, Provider
<1> QED
  BY <1>1, <1>2, <1>3

\* So the operations start ready.
LEMMA Operates ==
    ASSUME Inv, Sound, Going, Operate
    PROVE  Going' /\ Sound'
<1>1. /\ script = <<>> /\ next = Launched /\ operations' = operations + 1
      /\ UNCHANGED <<files, chain, next, crashes>>
  BY DEF Operate
<1>2. Sound' /\ \A c \in Conditions : Stands(c)' <=> Stands(c)
  BY <1>1, SoundScript
<1>3. operations' \in Nat /\ operations' # 0 /\ next' = 4
  BY <1>1 DEF Going, Launched
<1>4. \A c \in Core : c \in Conditions /\ Stands(c) /\ Stands(c)'
  BY <1>1, <1>2, CoreTyped DEF Going, Running
<1>5. Launching'
  BY <1>3 DEF Launching
<1>6. CASE script' = newLendingPoolTask
  <2>1. script' \in Seq(filing({"LendingPoolTmpImpl", "LendingPoolV4Impl"}))
    BY <1>6, FilingTasks
  <2>2. /\ Ready'
        /\ \A k \in DOMAIN script' :
             /\ script'[k].do \notin {"set", "authorize", "initialize"}
             /\ script'[k].do = "register" =>
                  script'[k].id \in {"LendingPoolTmpImpl", "LendingPoolV4Impl"}
             /\ \A c : Disturbs(script'[k], c) =>
                  \/ c.on \in {"LendingPoolTmpImpl", "LendingPoolV4Impl"}
                  \/ c.to \in {"LendingPoolTmpImpl", "LendingPoolV4Impl"}
    BY <2>1, FilingReady
  <2>3. Running'
    BY <1>3, <1>4, <2>2, OperationSteps DEF Running
  <2>4. Shaped'
    BY <1>3, <2>2 DEF Shaped, fits, Provider
  <2> QED
    BY <1>2, <1>3, <1>5, <2>2, <2>3, <2>4 DEF Going
<1>7. CASE \E impl \in {"LendingPoolTmpImpl", "LendingPoolV4Impl"} : script' = setImpl(impl)
  <2>1. PICK impl \in {"LendingPoolTmpImpl", "LendingPoolV4Impl"} : script' = setImpl(impl)
    BY <1>7
  <2>2. DOMAIN script' = {1} /\ script'[1] = doSetImpl(impl)
    BY <2>1, OperationSteps
  <2>3. /\ \A stage : needs(doSetImpl(impl), stage) = {}
        /\ \A c : ~Disturbs(doSetImpl(impl), c)
        /\ doSetImpl(impl).do = "setImpl"
    BY <2>1, DisturbedBy DEF needs, doSetImpl
  <2>4. Ready'
    BY <2>2, <2>3 DEF Ready
  <2>5. Running'
    BY <1>3, <1>4, <2>2, <2>3 DEF Running
  <2>6. Shaped'
    BY <1>3, <2>2, <2>3 DEF Shaped, fits
  <2> QED
    BY <1>2, <1>3, <1>5, <2>4, <2>5, <2>6 DEF Going
<1>8. CASE \E s \in Listable : script' = listToken(s)
  <2>1. PICK s \in Listable : script' = listToken(s)
    BY <1>8
  <2>2. /\ DOMAIN script' = {1, 2} /\ script'[1] = doBatch(<<s>>) /\ script'[2] = doCollect(<<s>>)
        /\ s \in Symbols
    BY <2>1, OperationSteps
  <2>3. /\ \A c \in Core : ~Disturbs(script'[1], c) /\ ~Disturbs(script'[2], c)
        /\ Establishes(script'[1], Of("listed", s))
    <3>1. among(s, <<s>>)
      BY DEF among
    <3> QED
      BY <2>2, <3>1, DisturbedBy, EstablishedBy, OperationSteps
  <2>4. /\ needs(script'[1], 4) = Core
        /\ \A c \in needs(script'[2], 4) : c \in Core \/ c = Of("listed", s)
    <3>1. needs(doBatch(<<s>>), 4) = Core
      BY DEF needs, doBatch
    <3> DEFINE kinds == {"listed"} \cup (IF 4 = 3 THEN {"plain"} ELSE {})
    <3>2. needs(doCollect(<<s>>), 4) =
            Core \cup {Of(kind, x) : kind \in kinds, x \in {y \in Symbols : among(y, <<s>>)}}
      BY DEF needs, doCollect
    <3>3. kinds = {"listed"}
      OBVIOUS
    <3>4. \A y : among(y, <<s>>) => y = s
      BY DEF among
    <3> HIDE DEF kinds
    <3> QED
      BY <2>2, <3>1, <3>2, <3>3, <3>4
  <2>5. Ready'
    <3> SUFFICES ASSUME NEW k \in DOMAIN script', NEW c \in needs(script'[k], next')
                 PROVE  DueAt(script, k, c)'
      BY DEF Ready
    <3>1. CASE c \in Core
      <4>1. \A i \in 1..k - 1 : i = 1
        BY <2>2
      <4> QED
        BY <1>4, <2>3, <3>1, <4>1 DEF DueAt, DueIf
    <3>2. CASE c \notin Core
      <4>1. k = 2 /\ c = Of("listed", s)
        BY <1>3, <2>2, <2>4, <3>2
      <4>2. 1 \in 1..k - 1 /\ \A i \in 1 + 1..k - 1 : FALSE
        BY <4>1
      <4> QED
        BY <2>3, <4>1, <4>2 DEF DueAt, DueIf
    <3> QED
      BY <3>1, <3>2
  <2>6. Running'
    BY <1>3, <1>4, <2>2, <2>3 DEF Running
  <2>7. Shaped'
    BY <1>3, <2>2 DEF Shaped, fits, doBatch, doCollect
  <2> QED
    BY <1>2, <1>3, <1>5, <2>5, <2>6, <2>7 DEF Going
<1> QED
  BY <1>6, <1>7, <1>8 DEF Operate

\* A task that is abandoned leaves nothing to do.
LEMMA Abandoned ==
    ASSUME Inv, Sound, Going, Throw \/ Crash
    PROVE  Going' /\ Sound'
<1>1. /\ script # <<>> /\ script' = <<>> /\ UNCHANGED <<files, chain, operations>>
      /\ next' # Launched \/ next = Launched
  BY DEF Throw, Crash, abandoned, startOver, Launched
<1>2. Sound' /\ \A c \in Conditions : Stands(c)' <=> Stands(c)
  BY <1>1, SoundScript
<1>3. DOMAIN script' = {}
  BY <1>1
<1>4. Ready' /\ Launching' /\ Shaped'
  BY <1>1, <1>3 DEF Ready, Launching, Shaped
<1>5. Running'
  <2> SUFFICES ASSUME next = Launched PROVE Running'
    BY <1>1 DEF Running
  <2>1. operations # 0 /\ \A c \in Core : Stands(c)
    BY <1>1 DEF Going, Running
  <2>2. \A c \in Core : Stands(c)'
    BY <1>2, <2>1, CoreTyped
  <2> QED
    BY <1>1, <1>3, <2>1, <2>2 DEF Running
<1> QED
  BY <1>1, <1>2, <1>4, <1>5 DEF Going

\* Where the script is not touched and the same conditions stand, everything is as ready as before.
LEMMA StillGoing ==
    ASSUME Going, UNCHANGED <<script, next, operations>>,
           \A c \in Conditions : Stands(c)' <=> Stands(c), TypeOK
    PROVE  Going'
<1>1. \A c \in Conditions : Stands(c)' = Stands(c)
  BY StandsBoolean
<1>2. Ready'
  <2> SUFFICES ASSUME NEW k \in DOMAIN script, NEW c \in needs(script[k], next)
               PROVE  DueAt(script, k, c)'
    BY DEF Ready
  <2>1. script[k] \in Items
    BY DEF TypeOK
  <2>2. c \in Conditions /\ DueIf(Stands(c), script, k, c)
    BY <2>1, NeedsTyped DEF Going, Ready, DueAt
  <2> QED
    BY <1>1, <2>2 DEF DueAt
<1>3. Launching'
  <2> SUFFICES ASSUME next = 3, script # <<>>, NEW c \in Achieved PROVE Due(script, c)'
    BY DEF Launching
  <2>1. c \in Conditions /\ DueIf(Stands(c), script, Len(script) + 1, c)
    BY DEF Going, Launching, Due, DueAt, Achieved, Conditions, PoolKinds
  <2> QED
    BY <1>1, <2>1 DEF Due, DueAt
<1>4. Running'
  BY <1>1, CoreTyped DEF Going, Running
<1>5. Shaped'
  BY DEF Going, Shaped, Closing
<1> QED
  BY <1>2, <1>3, <1>4, <1>5 DEF Going

-----------------------------------------------------------------------------
(* The theorems                                                            *)

\* The invariant holds before anything is deployed.
LEMMA InitInv == ASSUME Init PROVE Inv
<1>1. /\ calldata = [id \in Ids |-> {}] /\ db = [id \in Ids |-> 0]
      /\ deployed = [id \in Ids |-> 0]
      /\ storage = [id \in Ids |-> [n \in Instances |-> {}]]
      /\ revision = [id \in Proxies |-> [n \in Instances |-> 0]]
      /\ script = <<>> /\ next = 1 /\ MaxInstances \in Nat
  BY DeploymentAssumption DEF Init
<1>2. FilesOK /\ ProxiesOK /\ ScriptOK
  BY <1>1 DEF FilesOK, ProxiesOK, Unrevised, ScriptOK, Launched
<1>3. Provider \in Ids
  BY DeploymentNames DEF Contracts
<1>4. StorageOK
  BY <1>1, <1>3 DEF StorageOK, ProxiesNamed
<1> QED
  BY <1>2, <1>4, InvParts

\* Every step preserves the invariant, and a proxy changes only with its revision.
LEMMA NextInv == ASSUME Inv, [Next]_vars PROVE Inv' /\ ProxiesGrow
<1>2. ASSUME \A p \in Proxies : storage'[p] = storage[p] PROVE ProxiesGrow
  BY <1>2 DEF ProxiesGrow
<1>3. ASSUME UNCHANGED storage PROVE ProxiesGrow
  BY <1>3 DEF ProxiesGrow
<1>4. CASE DeployToOasysTestnet
  BY <1>2, <1>4, DeployStep
<1>5. CASE SetAddress \/ Authorize
  BY <1>2, <1>5, SetStep
<1>6. CASE InitializeOnce
  BY <1>2, <1>6, InitializeStep
<1>7. CASE SetImpl
  BY <1>7, SetImplStep
<1>8. CASE SaveDeploymentCallData
  BY <1>3, <1>8, SaveStep DEF SaveDeploymentCallData, chain
<1>9. CASE RegisterContractAddress
  BY <1>3, <1>9, RegisterStep DEF RegisterContractAddress, chain
<1>10. CASE InsertProxyAddress
  BY <1>3, <1>10, InsertProxyStep DEF InsertProxyAddress, chain
<1>11. CASE BatchInitReserve \/ ConfigureReserves \/ Deposit
  BY <1>3, <1>11, ReserveStep DEF BatchInitReserve, ConfigureReserves, Deposit
<1>12. CASE CollectReserves
  BY <1>3, <1>12, CollectStep DEF CollectReserves, chain
<1>13. CASE Throw \/ Crash \/ RunStage \/ Operate
  <2>1. UNCHANGED storage
    BY <1>13 DEF Throw, Crash, RunStage, Operate, abandoned, chain
  <2> QED
    BY <1>3, <1>13, <2>1, ScriptStep
<1>14. CASE UNCHANGED vars
  <2>1. UNCHANGED <<files, chain, script, next>>
    BY <1>14 DEF vars
  <2>2. script' \in Seq(Items) /\ next' \in 1..Launched
    BY <2>1 DEF Inv, TypeOK
  <2> QED
    BY <1>3, <2>1, <2>2, OnlyScript DEF chain
<1> QED
  BY <1>4, <1>5, <1>6, <1>7, <1>8, <1>9, <1>10, <1>11, <1>12, <1>13, <1>14 DEF Next, Step

\* The invariant holds at every step.
LEMMA Invariant == Spec => []Inv
<1>1. Init => Inv
  BY InitInv
<1>2. Inv /\ [Next]_vars => Inv'
  BY NextInv
<1> QED
  BY <1>1, <1>2, PTL DEF Spec

\* The files, the chain and the scripts have their types: in particular no task ever deploys or
\* calls a proxy (contracts-helpers.ts:41-62, the tasks).
THEOREM DeploymentTypeCorrect == Spec => []TypeOK
<1>1. Inv => TypeOK
  BY DEF Inv
<1> QED
  BY <1>1, Invariant, PTL

\* Whatever steps the tasks die at and however often, no name of the file and no address a contract
\* or a file of call data holds stands for a contract that is not on chain.
THEOREM NothingDangles == Spec => []NoDanglingReference
<1>1. Inv => NoDanglingReference
  BY DEF Inv
<1> QED
  BY <1>1, Invariant, PTL

\* A proxy changes its implementation, or anything else it holds, only with a higher revision.
THEOREM OnlyUpgrades == Spec => RevisionsGrow
<1>1. Inv /\ [Next]_vars =>
        [\A id \in Proxies, n \in Instances :
           storage[id][n]' # storage[id][n] => revision[id][n]' > revision[id][n]]_vars
  BY NextInv DEF ProxiesGrow
<1> QED
  BY <1>1, Invariant, PTL DEF Spec, RevisionsGrow

\* Whatever is listed, and listed again under another revision of the pool, id n is the reserve at
\* place n of the list: _addReserveToList tells a reserve that is in the list from one that is not
\* although the first one's id is that of a reserve never listed (LendingPool.sol:913-927).
THEOREM ListsAgree == Spec => []ReservesListed
<1>1. Init => PoolsOK
  BY InitPools
<1>2. Inv /\ PoolsOK /\ [Next]_vars => PoolsOK'
  BY NextPools DEF Inv
<1>3. PoolsOK => ReservesListed
  BY OrderlyParts DEF PoolsOK, inOrder, ReservesListed
<1> QED
  BY <1>1, <1>2, <1>3, Invariant, PTL DEF Spec

-----------------------------------------------------------------------------
(* The launch                                                              *)

\* Whatever is known of the deployment.
Whole == Inv /\ PoolsOK /\ Sound /\ Going

\* Before anything is deployed nothing is named.
LEMMA InitWhole == ASSUME Init PROVE Whole
<1>1. Inv /\ PoolsOK
  BY InitInv, InitPools
<1>2. /\ calldata = [id \in Ids |-> {}] /\ deployed = [id \in Ids |-> 0]
      /\ storage = [id \in Ids |-> [n \in Instances |-> {}]]
      /\ pools = [n \in Instances |-> [list |-> <<>>, reserves |-> [s \in Symbols |-> noReserve]]]
      /\ script = <<>> /\ next = 1 /\ operations = 0
  BY DEF Init
<1>3. Provider \in Ids /\ "LendingPool" \in Ids
  BY DeploymentNames, InitializationNames DEF Contracts, Ids
<1>4. \A n \in Instances : \A field : named(<<Provider, n>>, field) = {}
  BY <1>2, <1>3 DEF named
<1>5. OneProxy /\ OfProvider
  BY <1>4 DEF OneProxy, OfProvider
<1>6. Fresh
  BY <1>2, <1>3 DEF Fresh
<1>7. Revised
  BY <1>2, <1>3, DeploymentAssumption DEF Revised, Instances
<1>8. Pristine
  BY <1>2 DEF Pristine, noReserve
<1>9. DOMAIN script = {}
  BY <1>2
<1>10. Going
  BY <1>2, <1>9 DEF Going, Ready, Launching, Running, Shaped, Launched
<1> QED
  BY <1>1, <1>5, <1>6, <1>7, <1>8, <1>10 DEF Whole, Sound

\* Every step keeps it.
LEMMA NextWhole == ASSUME Whole, [Next]_vars PROVE Whole'
<1>1. Inv' /\ PoolsOK'
  BY NextInv, NextPools DEF Whole, Inv
<1>2. CASE Performs
  <2>1. Effective
    BY <1>2, Performed DEF Whole, Going
  <2> QED
    BY <1>1, <1>2, <2>1, Proceeds DEF Whole, Effective
<1>3. CASE CollectReserves
  BY <1>1, <1>3, Collects DEF Whole
<1>4. CASE Throw \/ Crash
  BY <1>1, <1>4, Abandoned DEF Whole
<1>5. CASE RunStage
  BY <1>1, <1>5, Starts DEF Whole
<1>6. CASE Operate
  BY <1>1, <1>6, Operates DEF Whole
<1>7. CASE Deposit
  <2>1. UNCHANGED <<script, next, operations>>
    BY <1>7 DEF Deposit, incidents
  <2>2. \A c \in Conditions : Stands(c)' <=> Stands(c)
    BY <1>7, DepositSame DEF Whole
  <2> QED
    BY <1>1, <1>7, <2>1, <2>2, SoundDeposit, StillGoing DEF Whole, Inv
<1>8. CASE UNCHANGED vars
  <2>1. UNCHANGED <<files, chain, script, next, operations>>
    BY <1>8 DEF vars, incidents
  <2>2. Sound' /\ \A c \in Conditions : Stands(c)' <=> Stands(c)
    BY <2>1, SoundScript DEF Whole
  <2> QED
    BY <1>1, <2>1, <2>2, StillGoing DEF Whole, Inv
<1> QED
  BY <1>2, <1>3, <1>4, <1>5, <1>6, <1>7, <1>8 DEF Next, Step, Performs

\* It holds at every step.
LEMMA WholeInvariant == Spec => []Whole
<1>1. Init => Whole
  BY InitWhole
<1>2. Whole /\ [Next]_vars => Whole'
  BY NextWhole
<1> QED
  BY <1>1, <1>2, PTL DEF Spec

\* Once the launch is over the contracts the file names refer to each other: what was written
\* stands, and the proxies were initialized with the provider that holds them.
LEMMA WholeMarket == ASSUME Whole PROVE OneMarket
<1> SUFFICES ASSUME next = Launched, operations = 0
             PROVE  /\ \A w \in Wiring : named(resolve(w[1]), w[2]) = {resolve(w[3])}
                    /\ \A w \in Authorizations : resolve(w[3]) \in named(resolve(w[1]), w[2])
  BY DEF OneMarket
<1>1. \A c \in Written : Stands(c)
  BY DEF Whole, Going, Running
<1>2. \A w \in Wiring : w[1] \notin Proxies => named(resolve(w[1]), w[2]) = {resolve(w[3])}
  <2> SUFFICES ASSUME NEW w \in Wiring, w[1] \notin Proxies
               PROVE  named(resolve(w[1]), w[2]) = {resolve(w[3])}
    OBVIOUS
  <2>1. Stands(Is(w[1], w[2], w[3]))
    BY <1>1 DEF Written
  <2> QED
    BY <2>1 DEF Stands, Is
<1>3. \A w \in Authorizations : resolve(w[3]) \in named(resolve(w[1]), w[2])
  <2> SUFFICES ASSUME NEW w \in Authorizations
               PROVE  resolve(w[3]) \in named(resolve(w[1]), w[2])
    OBVIOUS
  <2>1. Stands(Has(w[1], w[2], w[3]))
    BY <1>1 DEF Written
  <2> QED
    BY <2>1 DEF Stands, Has
<1>4. \A p \in Proxies : /\ Stands(Is(Provider, p, p))
                         /\ named(resolve(Provider), p) = {resolve(p)} /\ db[Provider] # 0
  <2>1. \A p \in Proxies : <<Provider, p, p>> \in Wiring /\ Provider \notin Proxies
    BY DEF Proxies, Wiring, Provider
  <2>2. \A w \in Wiring : w[1] \notin Proxies => Is(w[1], w[2], w[3]) \in Written
    BY DEF Written
  <2>3. \A x, y, z : <<x, y, z>>[1] = x /\ <<x, y, z>>[2] = y /\ <<x, y, z>>[3] = z
    OBVIOUS
  <2>4. \A p \in Proxies : Is(Provider, p, p) \in Written
    BY ONLY <2>1, <2>2, <2>3
  <2> QED
    BY <1>1, <2>4 DEF Stands, Is
<1>5. Provider \in Ids /\ db[Provider] \in Nat /\ "LendingPool" \in Proxies
      /\ "LendingPoolConfigurator" \in Proxies
  BY DeploymentNames, InitializationNames DEF Contracts, Whole, Inv, TypeOK
<1>6. resolve(Provider) = <<Provider, db[Provider]>> /\ db[Provider] \in Instances
  <2>1. db[Provider] # 0
    BY <1>4, <1>5
  <2>2. db[Provider] <= deployed[Provider] /\ deployed[Provider] \in 0..MaxInstances
    BY <1>5 DEF Whole, Inv, TypeOK, NoDanglingReference
  <2> QED
    BY <1>5, <2>1, <2>2, DeploymentAssumption DEF resolve, Instances
<1>7. \A p \in Proxies : /\ named(resolve(p), "addressesProvider") = {resolve(Provider)}
                         /\ p = "LendingPoolConfigurator" =>
                              named(resolve(p), "pool") = named(resolve(Provider), "LendingPool")
  BY <1>4, <1>6 DEF Whole, Sound, OfProvider
<1>8. \A w \in Wiring : w[1] \in Proxies =>
        \/ w[2] = "addressesProvider" /\ w[3] = Provider
        \/ w[1] = "LendingPoolConfigurator" /\ w[2] = "pool" /\ w[3] = "LendingPool"
  BY DEF Wiring, Proxies, Provider
<1>9. \A w \in Wiring : w[1] \in Proxies => named(resolve(w[1]), w[2]) = {resolve(w[3])}
  BY <1>4, <1>5, <1>7, <1>8
<1> QED
  BY <1>2, <1>3, <1>9

\* Whatever steps the tasks die at and however often they are run again: when the launch is over the
\* contracts the file names form one market, each referring to the others and to nothing of an
\* earlier attempt.
THEOREM LaunchLeavesOneMarket == Spec => []OneMarket
<1>1. Whole => OneMarket
  BY WholeMarket
<1> QED
  BY <1>1, WholeInvariant, PTL

-----------------------------------------------------------------------------
(* The oracles                                                             *)

\* The fields for oracles hold oracles, in every contract.
Directed == \A id \in Ids, n \in Instances : \A r \in storage[id][n] : aims(r[1], r[2][1])

\* What the three kinds of writes leave of a contract's storage.
LEMMA Writes ==
    ASSUME Inv, SetAddress \/ Authorize \/ InitializeOnce
    PROVE  /\ item \in Items /\ item.on \in Contracts /\ item.on \in Ids /\ db[item.on] \in Instances
           /\ item = script[1] /\ 1 \in DOMAIN script
           /\ UNCHANGED <<db, deployed>>
           /\ \E S : /\ \A id \in Ids, n \in Instances :
                          storage'[id][n] = IF id = item.on /\ n = db[item.on] THEN S ELSE storage[id][n]
                     /\ SetAddress => S = replaced(storage[item.on][db[item.on]], item.field,
                                                   {resolve(t) : t \in item.to})
                     /\ Authorize => S = storage[item.on][db[item.on]]
                                           \cup {<<item.field, resolve(t)>> : t \in item.to}
                     /\ InitializeOnce => S = storage[item.on][db[item.on]]
                                           \cup {<<f[1], resolve(f[2])>> : f \in item.fields}
           /\ SetAddress => item.do = "set"
           /\ Authorize => item.do = "authorize"
           /\ InitializeOnce => item.do = "initialize"
<1>1. /\ item \in Items /\ accepted(item) /\ Performs
      /\ SetAddress => item.do = "set"
      /\ Authorize => item.do = "authorize"
      /\ InitializeOnce => item.do = "initialize"
  BY Proceeding DEF Inv, SetAddress, Authorize, InitializeOnce, perform, doing, Performs
<1>2. item.on \in Contracts /\ known(item.on)
  BY <1>1, ItemFields, Accepted
<1>3. item.on \in Ids /\ db[item.on] \in Instances
  <2>1. item.on \in Ids /\ item.on \in Names
    BY <1>2, InitializationNames DEF Contracts
  <2> QED
    BY <1>2, <2>1, Resolved
<1>4. item = script[1] /\ 1 \in DOMAIN script
  BY <1>1, Goes DEF Inv
<1>5. UNCHANGED <<db, deployed>>
  BY DEF SetAddress, Authorize, InitializeOnce, files
<1>6. storage \in [Ids -> [Instances -> SUBSET Refs(AllFields)]]
  BY DEF Inv, TypeOK
<1>7. \A S : storage' = [storage EXCEPT ![item.on][db[item.on]] = S] =>
        \A id \in Ids, n \in Instances :
          storage'[id][n] = IF id = item.on /\ n = db[item.on] THEN S ELSE storage[id][n]
  BY <1>3, <1>6
<1> DEFINE old == storage[item.on][db[item.on]]
           set0 == replaced(old, item.field, {resolve(t) : t \in item.to})
           more == old \cup {<<item.field, resolve(t)>> : t \in item.to}
           init == old \cup {<<f[1], resolve(f[2])>> : f \in item.fields}
<1>8. /\ SetAddress => storage' = [storage EXCEPT ![item.on][db[item.on]] = set0]
      /\ Authorize => storage' = [storage EXCEPT ![item.on][db[item.on]] = more]
      /\ InitializeOnce => storage' = [storage EXCEPT ![item.on][db[item.on]] = init]
  BY DEF SetAddress, Authorize, InitializeOnce
<1> HIDE DEF set0, more, init
<1>9. \E S : /\ \A id \in Ids, n \in Instances :
                  storage'[id][n] = IF id = item.on /\ n = db[item.on] THEN S ELSE storage[id][n]
             /\ SetAddress => S = set0
             /\ Authorize => S = more
             /\ InitializeOnce => S = init
  <2>1. CASE SetAddress
    BY <1>1, <1>7, <1>8, <2>1
  <2>2. CASE Authorize
    BY <1>1, <1>7, <1>8, <2>2
  <2>3. CASE InitializeOnce
    BY <1>1, <1>7, <1>8, <2>3
  <2> QED
    BY <2>1, <2>2, <2>3
<1> QED
  BY <1>1, <1>2, <1>3, <1>4, <1>5, <1>9 DEF set0, more, init

\* The fields a constructor, a proxy's initialize and the provider's slots write are for no oracles.
LEMMA OtherAims ==
    ASSUME NEW field \in Constructor \cup Proxies \cup {"implementation", "addressesProvider", "pool"},
           NEW t
    PROVE  aims(field, t)
BY DEF aims, Constructor, Proxies

\* No step stores anything else in a field for oracles.
LEMMA StillDirected == ASSUME Whole, Directed, [Next]_vars PROVE Directed'
<1>1. Inv /\ Sound /\ Fresh /\ storage \in [Ids -> [Instances -> SUBSET Refs(AllFields)]]
  BY DEF Whole, Inv, TypeOK, Sound
<1>2. CASE SetAddress \/ Authorize \/ InitializeOnce
  <2>1. /\ item = script[1] /\ 1 \in DOMAIN script
        /\ SetAddress => item.do = "set"
        /\ Authorize => item.do = "authorize"
        /\ InitializeOnce => item.do = "initialize"
        /\ item.on \in Ids /\ db[item.on] \in Instances
    BY <1>1, <1>2, Writes
  <2>2. PICK S : /\ \A id \in Ids, n \in Instances :
                      storage'[id][n] = IF id = item.on /\ n = db[item.on] THEN S ELSE storage[id][n]
                 /\ SetAddress => S = replaced(storage[item.on][db[item.on]], item.field,
                                               {resolve(t) : t \in item.to})
                 /\ Authorize => S = storage[item.on][db[item.on]]
                                       \cup {<<item.field, resolve(t)>> : t \in item.to}
                 /\ InitializeOnce => S = storage[item.on][db[item.on]]
                                       \cup {<<f[1], resolve(f[2])>> : f \in item.fields}
    BY <1>1, <1>2, Writes
  <2>3. fits(item, next)
    BY <2>1 DEF Whole, Going, Shaped
  <2>4. \A r \in storage[item.on][db[item.on]] : aims(r[1], r[2][1])
    BY <2>1 DEF Directed
  <2>5. \A t : resolve(t)[1] = t
    BY DEF resolve
  <2>6. \A r \in S : aims(r[1], r[2][1])
    <3>1. CASE SetAddress
      BY <2>1, <2>2, <2>3, <2>4, <2>5, <3>1 DEF fits, replaced
    <3>2. CASE Authorize
      BY <2>1, <2>2, <2>3, <2>4, <2>5, <3>2 DEF fits
    <3>3. CASE InitializeOnce
      BY <2>1, <2>2, <2>3, <2>4, <2>5, <3>3 DEF fits
    <3> QED
      BY <1>2, <3>1, <3>2, <3>3
  <2> QED
    BY <2>2, <2>6 DEF Directed
<1>3. CASE DeployToOasysTestnet
  <2>1. PICK refs \in calldata[item.id] :
          storage' = [storage EXCEPT ![item.id][deployed[item.id] + 1] = refs]
    BY <1>3 DEF DeployToOasysTestnet
  <2>2. item.id \in Ids
    BY <1>1, <1>3, Proceeding, ItemFields DEF Inv, DeployToOasysTestnet, perform, doing, Contracts
  <2>3. \A r \in refs : aims(r[1], r[2][1])
    BY <1>1, <2>1, <2>2, OtherAims DEF Fresh
  <2>4. \A id \in Ids, n \in Instances : storage'[id][n] \in {refs, storage[id][n]}
    BY <1>1, <2>1, <2>2
  <2> QED
    BY <2>3, <2>4 DEF Directed
<1>4. CASE SetImpl
  <2>1. PICK proxy \in Proxies : (\E new : Creates(proxy, new)) \/ \E u : Upgrades(proxy, u)
    BY <1>1, <1>4, SetImplCases
  <2>2. Provider \in Ids /\ proxy \in Ids /\ proxy # Provider
    BY DeploymentNames DEF Contracts, Ids
  <2>3. \A r \in initialized(item.impl) : aims(r[1], r[2][1])
    <3>1. \A r \in initialized(item.impl) : r[1] \in {"implementation", "addressesProvider", "pool"}
      BY DEF initialized
    <3> QED
      BY <3>1, OtherAims
  <2>4. ASSUME NEW new, Creates(proxy, new) PROVE Directed'
    <3> DEFINE ref == <<proxy, <<proxy, new>>>>
               old == storage[Provider][db[Provider]]
    <3>1. aims(ref[1], ref[2][1])
      BY OtherAims
    <3>2. db[Provider] \in Instances
      BY <1>1, <1>4, SetImplCases
    <3>3. storage' = [storage EXCEPT ![proxy][new] = initialized(item.impl),
                                     ![Provider][db[Provider]] = old \cup {ref}]
      BY <1>1, <2>2, <2>4, <3>2 DEF Creates
    <3> HIDE DEF ref
    <3>4. \A id \in Ids, n \in Instances :
            storage'[id][n] \in {initialized(item.impl), old \cup {ref}, storage[id][n]}
      BY <1>1, <2>2, <3>2, <3>3
    <3>5. \A r \in old : aims(r[1], r[2][1])
      BY <2>2, <3>2 DEF Directed
    <3> HIDE DEF old
    <3> QED
      BY <2>3, <3>1, <3>4, <3>5 DEF Directed
  <2>5. ASSUME NEW u, Upgrades(proxy, u) PROVE Directed'
    <3>1. storage' = [storage EXCEPT ![proxy][u[2]] = initialized(item.impl)]
      BY <2>5 DEF Upgrades
    <3>2. \A id \in Ids, n \in Instances :
            storage'[id][n] \in {initialized(item.impl), storage[id][n]}
      BY <1>1, <2>2, <3>1
    <3> QED
      BY <2>3, <3>2 DEF Directed
  <2> QED
    BY <2>1, <2>4, <2>5
<1>5. CASE UNCHANGED storage
  BY <1>5 DEF Directed
<1>6. CASE BatchInitReserve \/ ConfigureReserves
  <2>1. UNCHANGED storage
    BY <1>6 DEF BatchInitReserve, ConfigureReserves
  <2> QED
    BY <1>5, <2>1
<1>7. ASSUME \/ SaveDeploymentCallData \/ RegisterContractAddress \/ InsertProxyAddress
             \/ CollectReserves \/ Throw \/ Crash \/ RunStage \/ Operate \/ Deposit \/ UNCHANGED vars
      PROVE  UNCHANGED storage
  BY <1>7 DEF SaveDeploymentCallData, RegisterContractAddress, InsertProxyAddress, CollectReserves,
         Throw, Crash, RunStage, Operate, Deposit, abandoned, vars, chain
<1> QED
  BY <1>2, <1>3, <1>4, <1>5, <1>6, <1>7 DEF Next, Step

\* So they hold nothing else.
LEMMA AlwaysDirected == Spec => []Directed
<1>1. Init => Directed
  BY DEF Init, Directed
<1>2. Whole /\ Directed /\ [Next]_vars => Directed'
  BY StillDirected
<1> QED
  BY <1>1, <1>2, WholeInvariant, PTL DEF Spec

\* The instances of a contract.
those(id) == {o \in {id} \X Instances : o[2] <= deployed[id]}

\* A contract the file names is one of its instances.
LEMMA InThose ==
    ASSUME Inv, NEW id \in Ids, db[id] # 0
    PROVE  resolve(id) \in those(id)
<1>1. db[id] \in Nat /\ db[id] <= deployed[id] /\ deployed[id] \in 0..MaxInstances
  BY DEF Inv, TypeOK, NoDanglingReference
<1>2. db[id] \in Instances
  BY <1>1, DeploymentAssumption DEF Instances
<1> QED
  BY <1>1, <1>2 DEF resolve, those

\* What a field for an oracle holds is such an instance.
LEMMA AimedAt ==
    ASSUME Inv, Directed, NEW id \in Ids, NEW n \in Instances, NEW field, NEW target \in Ids,
           \A t : aims(field, t) => t = target, NEW a \in named(<<id, n>>, field)
    PROVE  a \in those(target)
<1>1. /\ a \in Addresses /\ Exists(a)
      /\ \E r \in storage[id][n] : r[1] = field /\ r[2] = a
  BY Held
<1>2. a[1] = target
  BY <1>1 DEF Directed
<1>3. a[2] \in 1..deployed[target] /\ a = <<target, a[2]>> /\ deployed[target] \in 0..MaxInstances
  BY <1>1, <1>2 DEF Exists, Addresses, Inv, TypeOK
<1>4. a[2] \in Instances /\ a[2] <= deployed[target]
  BY <1>3, DeploymentAssumption DEF Instances
<1> QED
  BY <1>3, <1>4 DEF those

\* What the oracles of the market are.
LEMMA OraclesFound ==
    ASSUME Inv, Directed
    PROVE  /\ \A o \in found("PRICE_ORACLE") : o \in those("PalmyOracle")
           /\ \A o \in found("LENDING_RATE_ORACLE") : o \in those("LendingRateOracle")
           /\ \A o \in those("PalmyOracle") : \A a \in named(o, "priceAggregator") :
                a \in those("PriceAggregatorAdapterChainsightImpl")
<1>1. /\ Provider \in Ids /\ "PalmyOracle" \in Ids /\ "LendingRateOracle" \in Ids
      /\ "PriceAggregatorAdapterChainsightImpl" \in Ids
  BY DeploymentNames DEF Contracts
<1>2. /\ resolve(Provider) = <<Provider, db[Provider]>>
      /\ db[Provider] # 0 => db[Provider] \in Instances
  BY LiveTyped
<1>3. ASSUME NEW o \in found("PRICE_ORACLE") PROVE o \in those("PalmyOracle")
  <2>1. db[Provider] \in Instances /\ o \in named(<<Provider, db[Provider]>>, "PRICE_ORACLE")
    BY <1>2, <1>3 DEF found
  <2>2. \A t : aims("PRICE_ORACLE", t) => t = "PalmyOracle"
    BY DEF aims
  <2> QED
    BY <1>1, <2>1, <2>2, AimedAt
<1>4. ASSUME NEW o \in found("LENDING_RATE_ORACLE") PROVE o \in those("LendingRateOracle")
  <2>1. db[Provider] \in Instances /\ o \in named(<<Provider, db[Provider]>>, "LENDING_RATE_ORACLE")
    BY <1>2, <1>4 DEF found
  <2>2. \A t : aims("LENDING_RATE_ORACLE", t) => t = "LendingRateOracle"
    BY DEF aims
  <2> QED
    BY <1>1, <2>1, <2>2, AimedAt
<1>5. ASSUME NEW o \in those("PalmyOracle"), NEW a \in named(o, "priceAggregator")
      PROVE  a \in those("PriceAggregatorAdapterChainsightImpl")
  <2>1. PICK n \in Instances : o = <<"PalmyOracle", n>>
    BY DEF those
  <2>2. \A t : aims("priceAggregator", t) => t = "PriceAggregatorAdapterChainsightImpl"
    BY DEF aims
  <2>3. a \in named(<<"PalmyOracle", n>>, "priceAggregator")
    BY <2>1
  <2> QED
    BY <1>1, <2>2, <2>3, AimedAt
<1> QED
  BY <1>3, <1>4, <1>5

\* Prices and rates that stay, and that stay or come in.
pricesStay ==
  /\ \A o \in those("PalmyOracle") : sourced(o)' <=> sourced(o)
  /\ \A o \in those("LendingRateOracle") : named(o, "borrowRate")' = named(o, "borrowRate")
pricesGrow ==
  /\ \A o \in those("PalmyOracle") : sourced(o) => sourced(o)'
  /\ \A o \in those("LendingRateOracle") : named(o, "borrowRate") \subseteq named(o, "borrowRate")'

\* They stay where the oracles and the aggregators there are do.
LEMMA OraclesStay ==
    ASSUME Inv, Directed,
           \A id \in {"PalmyOracle", "LendingRateOracle", "PriceAggregatorAdapterChainsightImpl"},
              n \in Instances : n <= deployed[id] => storage'[id][n] = storage[id][n]
    PROVE  pricesStay
<1>1. \A id \in {"PalmyOracle", "LendingRateOracle", "PriceAggregatorAdapterChainsightImpl"} :
        \A o \in those(id) : \A field : named(o, field)' = named(o, field)
  BY DEF those, named
<1>2. ASSUME NEW o \in those("PalmyOracle") PROVE sourced(o)' <=> sourced(o)
  <2>1. named(o, "priceAggregator")' = named(o, "priceAggregator")
    BY <1>1
  <2>2. \A a \in named(o, "priceAggregator") : named(a, "source")' = named(a, "source")
    BY <1>1, OraclesFound
  <2> QED
    BY <2>1, <2>2 DEF sourced
<1> QED
  BY <1>1, <1>2 DEF pricesStay

\* Adding to what the oracles and the aggregators hold takes nothing away.
LEMMA OraclesGrow ==
    ASSUME Inv, Directed,
           \A id \in {"PalmyOracle", "LendingRateOracle", "PriceAggregatorAdapterChainsightImpl"},
              n \in Instances : storage[id][n] \subseteq storage'[id][n]
    PROVE  pricesGrow
<1>1. \A id \in {"PalmyOracle", "LendingRateOracle", "PriceAggregatorAdapterChainsightImpl"} :
        \A o \in those(id) : \A field : named(o, field) \subseteq named(o, field)'
  BY DEF those, named
<1>2. ASSUME NEW o \in those("PalmyOracle"), sourced(o) PROVE sourced(o)'
  <2>1. PICK a \in named(o, "priceAggregator") : named(a, "source") # {}
    BY <1>2 DEF sourced
  <2>2. a \in named(o, "priceAggregator")' /\ named(a, "source")' # {}
    BY <1>1, <2>1, OraclesFound
  <2> QED
    BY <2>2 DEF sourced
<1> QED
  BY <1>1, <1>2 DEF pricesGrow

-----------------------------------------------------------------------------
(* The market                                                              *)

\* What the market shows of the deployment.
anyOf(S) == CHOOSE a \in S : TRUE
theRevision   == IF livePool = {} THEN 0 ELSE revision["LendingPool"][anyOf(livePool)[2]]
theListed     == reservesWith(LAMBDA r : r.listed)
theBorrowable == reservesWith(LAMBDA r : r.borrowing)
isPriced      == (\E o \in found("PRICE_ORACLE") : sourced(o)) /\ holds("LENDING_RATE_ORACLE")
theRated      == {s \in Symbols \cap getLendingRateOracles :
                    \E o \in found("LENDING_RATE_ORACLE") :
                      \E a \in named(o, "borrowRate") : a[1] = s}
isGoverned    == holds("POOL_ADMIN")
                   /\ named(resolve(Provider), "POOL_ADMIN") = {resolve("deployer")}
isOpen        == next = Launched

\* Its steps, as seen so.
Moves ==
  \/ UNCHANGED <<theRevision, theListed, theBorrowable, isPriced, theRated, isGoverned, isOpen>>
  \/ /\ theRevision' \in Nat /\ theRevision' > theRevision
     /\ UNCHANGED <<theListed, theBorrowable, isPriced, theRated, isGoverned, isOpen>>
  \/ /\ theRevision > 0 /\ isGoverned /\ theListed \subseteq theListed' /\ theListed' \subseteq Symbols
     /\ UNCHANGED <<theRevision, theBorrowable, isPriced, theRated, isGoverned, isOpen>>
  \/ /\ (isPriced => isPriced') /\ theRated \subseteq theRated'
     /\ UNCHANGED <<theRevision, theListed, theBorrowable, isGoverned, isOpen>>
  \/ /\ isGoverned' \in BOOLEAN
     /\ UNCHANGED <<theRevision, theListed, theBorrowable, isPriced, theRated, isOpen>>
  \/ /\ isPriced /\ ~isGoverned
     /\ theBorrowable \subseteq theBorrowable' /\ theBorrowable' \subseteq theListed
     /\ theBorrowable' \cap getLendingRateOracles \subseteq theRated
     /\ UNCHANGED <<theRevision, theListed, isPriced, theRated, isGoverned, isOpen>>
  \/ /\ isGoverned /\ theListed # {} /\ theBorrowable = theListed /\ isOpen' = TRUE
     /\ UNCHANGED <<theRevision, theListed, theBorrowable, isPriced, theRated, isGoverned>>
  \/ /\ ~isOpen /\ theRevision' = 0 /\ theListed' = {} /\ theBorrowable' = {}
     /\ isPriced' = FALSE /\ theRated' = {} /\ isGoverned' = FALSE /\ isOpen' = FALSE

\* They are the market's.
LEMMA MovesMarket == Moves => [TheMarket!Next]_(TheMarket!vars)
<1> USE DEF theRevision, theListed, theBorrowable, isPriced, theRated, isGoverned, isOpen, anyOf
<1>1. ASSUME UNCHANGED <<theRevision, theListed, theBorrowable, isPriced, theRated, isGoverned,
                         isOpen>>
      PROVE  UNCHANGED TheMarket!vars
  BY <1>1 DEF TheMarket!vars
<1>2. ASSUME theRevision' \in Nat, theRevision' > theRevision,
             UNCHANGED <<theListed, theBorrowable, isPriced, theRated, isGoverned, isOpen>>
      PROVE  TheMarket!Install
  BY <1>2 DEF TheMarket!Install
<1>3. ASSUME theRevision > 0, isGoverned, theListed \subseteq theListed', theListed' \subseteq Symbols,
             UNCHANGED <<theRevision, theBorrowable, isPriced, theRated, isGoverned, isOpen>>
      PROVE  TheMarket!List
  BY <1>3 DEF TheMarket!List
<1>4. ASSUME isPriced => isPriced', theRated \subseteq theRated',
             UNCHANGED <<theRevision, theListed, theBorrowable, isGoverned, isOpen>>
      PROVE  TheMarket!Price
  <2>1. isPriced' \in BOOLEAN /\ theRated' \subseteq Symbols \cap getLendingRateOracles
    OBVIOUS
  <2> QED
    BY <1>4, <2>1 DEF TheMarket!Price
<1>5. ASSUME isGoverned' \in BOOLEAN,
             UNCHANGED <<theRevision, theListed, theBorrowable, isPriced, theRated, isOpen>>
      PROVE  TheMarket!Appoint
  BY <1>5 DEF TheMarket!Appoint
<1>6. ASSUME isPriced, ~isGoverned, theBorrowable \subseteq theBorrowable',
             theBorrowable' \subseteq theListed,
             theBorrowable' \cap getLendingRateOracles \subseteq theRated,
             UNCHANGED <<theRevision, theListed, isPriced, theRated, isGoverned, isOpen>>
      PROVE  TheMarket!Enable
  <2>1. theBorrowable' \cap (Symbols \cap getLendingRateOracles) \subseteq theRated
    BY <1>6
  <2> QED
    BY <1>6, <2>1 DEF TheMarket!Enable
<1>7. ASSUME isGoverned, theListed # {}, theBorrowable = theListed, isOpen' = TRUE,
             UNCHANGED <<theRevision, theListed, theBorrowable, isPriced, theRated, isGoverned>>
      PROVE  TheMarket!Open
  BY <1>7 DEF TheMarket!Open
<1>8. ASSUME ~isOpen, theRevision' = 0, theListed' = {}, theBorrowable' = {},
             isPriced' = FALSE, theRated' = {}, isGoverned' = FALSE, isOpen' = FALSE
      PROVE  TheMarket!Abandon
  BY <1>8 DEF TheMarket!Abandon
<1> QED
  BY <1>1, <1>2, <1>3, <1>4, <1>5, <1>6, <1>7, <1>8 DEF Moves, TheMarket!Next

\* Where there is one pool it is what the market shows.
LEMMA PoolShown ==
    ASSUME NEW a
    PROVE  /\ livePool = {a} =>
                /\ theRevision = revision["LendingPool"][a[2]]
                /\ \A s \in Symbols : /\ s \in theListed <=> pools[a[2]].reserves[s].listed
                                      /\ s \in theBorrowable <=> pools[a[2]].reserves[s].borrowing
           /\ livePool' = {a} =>
                /\ theRevision' = revision'["LendingPool"][a[2]]
                /\ \A s \in Symbols : /\ s \in theListed' <=> pools'[a[2]].reserves[s].listed
                                      /\ s \in theBorrowable' <=> pools'[a[2]].reserves[s].borrowing
<1>1. anyOf({a}) = a
  BY DEF anyOf
<1> QED
  BY <1>1 DEF theRevision, theListed, theBorrowable, reservesWith

\* Where there is none there is nothing.
LEMMA NoPoolShown ==
    /\ livePool = {} => theRevision = 0 /\ theListed = {} /\ theBorrowable = {}
    /\ livePool' = {} => theRevision' = 0 /\ theListed' = {} /\ theBorrowable' = {}
BY DEF theRevision, theListed, theBorrowable, reservesWith

\* What is shown are reserves, and truths.
LEMMA ShownTyped ==
    /\ theListed \subseteq Symbols /\ theBorrowable \subseteq Symbols
    /\ theListed' \subseteq Symbols /\ theBorrowable' \subseteq Symbols
    /\ isPriced \in BOOLEAN /\ isGoverned \in BOOLEAN /\ isOpen \in BOOLEAN
    /\ isPriced' \in BOOLEAN /\ isGoverned' \in BOOLEAN /\ isOpen' \in BOOLEAN
BY DEF theListed, theBorrowable, reservesWith, isPriced, isGoverned, isOpen

\* What the provider holds in a field nobody writes to.
LEMMA FoundSame ==
    ASSUME NEW field, sameField(Provider, field)
    PROVE  found(field)' = found(field) /\ holds(field)' = holds(field)
<1>1. Provider \in Ids /\ db'[Provider] = db[Provider]
  BY DeploymentNames DEF Contracts, sameField
<1>2. db[Provider] # 0 => named(resolve(Provider), field)' = named(resolve(Provider), field)
  BY <1>1, NamedSame
<1> QED
  BY <1>1, <1>2 DEF found, holds

\* The market's prices and rates stay with the oracles it finds, ...
LEMMA SamePrices ==
    ASSUME Inv, Directed, pricesStay, sameField(Provider, "PRICE_ORACLE"),
           sameField(Provider, "LENDING_RATE_ORACLE")
    PROVE  isPriced' = isPriced /\ theRated' = theRated
<1>1. /\ found("PRICE_ORACLE")' = found("PRICE_ORACLE")
      /\ found("LENDING_RATE_ORACLE")' = found("LENDING_RATE_ORACLE")
      /\ holds("LENDING_RATE_ORACLE")' = holds("LENDING_RATE_ORACLE")
  BY FoundSame
<1>2. /\ \A o \in found("PRICE_ORACLE") : sourced(o)' <=> sourced(o)
      /\ \A o \in found("LENDING_RATE_ORACLE") : named(o, "borrowRate")' = named(o, "borrowRate")
  BY OraclesFound DEF pricesStay
<1>3. holds("LENDING_RATE_ORACLE") \in BOOLEAN
  BY DEF holds
<1>4. isPriced' = isPriced
  BY <1>1, <1>2, <1>3 DEF isPriced
<1>5. theRated' = theRated
  BY <1>1, <1>2 DEF theRated
<1> QED
  BY <1>4, <1>5

\* ... and grow with them.
LEMMA MorePrices ==
    ASSUME Inv, Directed, pricesGrow, sameField(Provider, "PRICE_ORACLE"),
           sameField(Provider, "LENDING_RATE_ORACLE")
    PROVE  (isPriced => isPriced') /\ theRated \subseteq theRated'
<1>1. /\ found("PRICE_ORACLE")' = found("PRICE_ORACLE")
      /\ found("LENDING_RATE_ORACLE")' = found("LENDING_RATE_ORACLE")
      /\ holds("LENDING_RATE_ORACLE")' = holds("LENDING_RATE_ORACLE")
  BY FoundSame
<1>2. /\ \A o \in found("PRICE_ORACLE") : sourced(o) => sourced(o)'
      /\ \A o \in found("LENDING_RATE_ORACLE") :
           named(o, "borrowRate") \subseteq named(o, "borrowRate")'
  BY OraclesFound DEF pricesGrow
<1>3. isPriced => isPriced'
  BY <1>1, <1>2 DEF isPriced
<1>4. theRated \subseteq theRated'
  BY <1>1, <1>2 DEF theRated
<1> QED
  BY <1>3, <1>4

\* An oracle that replaces the aggregator has one with sources, and rates and sources are only added.
LEMMA WritesGrow ==
    ASSUME Whole, Directed, SetAddress \/ Authorize \/ InitializeOnce
    PROVE  /\ pricesGrow
           /\ item.on \notin {"PalmyOracle", "LendingRateOracle",
                              "PriceAggregatorAdapterChainsightImpl"} => pricesStay
<1> DEFINE oracles == {"PalmyOracle", "LendingRateOracle", "PriceAggregatorAdapterChainsightImpl"}
<1>1. /\ Inv /\ item = script[1] /\ 1 \in DOMAIN script /\ script # <<>>
      /\ SetAddress => item.do = "set"
      /\ item.on \in Ids /\ db[item.on] \in Instances /\ UNCHANGED <<db, deployed>>
  BY Writes DEF Whole, SetAddress, Authorize, InitializeOnce, perform, doing
<1>2. PICK S : /\ \A id \in Ids, n \in Instances :
                    storage'[id][n] = IF id = item.on /\ n = db[item.on] THEN S ELSE storage[id][n]
               /\ SetAddress => S = replaced(storage[item.on][db[item.on]], item.field,
                                             {resolve(t) : t \in item.to})
               /\ Authorize => S = storage[item.on][db[item.on]]
                                     \cup {<<item.field, resolve(t)>> : t \in item.to}
               /\ InitializeOnce => S = storage[item.on][db[item.on]]
                                     \cup {<<f[1], resolve(f[2])>> : f \in item.fields}
  BY <1>1, Writes
<1>3. fits(item, next)
  BY <1>1 DEF Whole, Going, Shaped
<1>4. oracles \subseteq Ids
  BY DeploymentNames DEF Contracts
<1>5. ASSUME item.on \notin oracles PROVE pricesStay /\ pricesGrow
  <2>1. \A id \in oracles, n \in Instances : storage'[id][n] = storage[id][n]
    BY <1>2, <1>4, <1>5
  <2>2. pricesStay
    BY <1>1, <2>1, OraclesStay
  <2> QED
    BY <2>2 DEF pricesStay, pricesGrow
<1>6. CASE Authorize \/ InitializeOnce
  <2>1. storage[item.on][db[item.on]] \subseteq S
    BY <1>2, <1>6
  <2>2. \A id \in oracles, n \in Instances : storage[id][n] \subseteq storage'[id][n]
    BY <1>2, <1>4, <2>1
  <2>3. pricesGrow
    BY <1>1, <2>2, OraclesGrow
  <2> QED
    BY <1>5, <2>3
<1>7. CASE SetAddress /\ item.on \in oracles
  <2> DEFINE old == storage[item.on][db[item.on]]
             targets == {resolve(t) : t \in item.to}
  <2>1. item.do = "set" /\ item.field \notin {"source", "borrowRate"} /\ item.to # {}
        /\ \A t \in item.to : aims(item.field, t)
    BY <1>1, <1>3, <1>7 DEF fits
  <2>2. S = replaced(old, item.field, targets)
    BY <1>2, <1>7
  <2>3. ASSUME NEW field, field # item.field
        PROVE  {x \in S : x[1] = field} = {x \in old : x[1] = field}
    BY <2>2, <2>3 DEF replaced
  <2>4. ASSUME NEW o, o[1] \in oracles, o[2] \in Instances, NEW field,
               field # item.field \/ o # <<item.on, db[item.on]>>, o = <<o[1], o[2]>>
        PROVE  named(o, field)' = named(o, field)
    <3>1. CASE o[1] = item.on /\ o[2] = db[item.on]
      <4>1. storage'[o[1]][o[2]] = S /\ storage[o[1]][o[2]] = old /\ field # item.field
        BY <1>1, <1>2, <2>4, <3>1
      <4>2. {x \in storage'[o[1]][o[2]] : x[1] = field} = {x \in storage[o[1]][o[2]] : x[1] = field}
        BY <2>3, <4>1
      <4> QED
        BY <4>2 DEF named
    <3>2. CASE ~(o[1] = item.on /\ o[2] = db[item.on])
      <4>1. storage'[o[1]][o[2]] = storage[o[1]][o[2]]
        BY <1>2, <1>4, <2>4, <3>2
      <4> QED
        BY <4>1 DEF named
    <3> QED
      BY <3>1, <3>2
  <2> HIDE DEF old, targets
  <2>5. \A id \in oracles : \A o \in those(id) : \A field :
          field # item.field \/ o # <<item.on, db[item.on]>> => named(o, field)' = named(o, field)
    <3>1. \A id \in oracles : \A o \in those(id) :
            o[1] \in oracles /\ o[2] \in Instances /\ o = <<o[1], o[2]>>
      BY DEF those
    <3> QED
      BY <2>4, <3>1
  <2>6. ASSUME NEW o \in those("PalmyOracle"), sourced(o) PROVE sourced(o)'
    <3>1. \A a \in those("PriceAggregatorAdapterChainsightImpl") :
            named(a, "source")' = named(a, "source")
      BY <2>1, <2>5
    <3>2. CASE "priceAggregator" # item.field \/ o # <<item.on, db[item.on]>>
      <4>1. named(o, "priceAggregator")' = named(o, "priceAggregator")
        BY <2>5, <3>2
      <4>2. \A a \in named(o, "priceAggregator") : named(a, "source")' = named(a, "source")
        BY <1>1, <3>1, OraclesFound
      <4> QED
        BY <2>6, <4>1, <4>2 DEF sourced
    <3>3. CASE "priceAggregator" = item.field /\ o = <<item.on, db[item.on]>>
      <4>1. item.on = "PalmyOracle"
        BY <3>3 DEF those
      <4>2. Stands(SourceSet)
        <5>1. needs(item, next) = {SourceSet}
          BY <2>1, <3>3, <4>1 DEF needs
        <5> QED
          BY <1>1, <5>1, ReadyNow DEF Whole, Going, Inv
      <4>3. PICK a : a = resolve("PriceAggregatorAdapterChainsightImpl")
        OBVIOUS
      <4>4. named(a, "source") # {} /\ db["PriceAggregatorAdapterChainsightImpl"] # 0
        BY <4>2, <4>3 DEF Stands, SourceSet, Has
      <4>5. a \in those("PriceAggregatorAdapterChainsightImpl")
        BY <1>1, <1>4, <4>3, <4>4, InThose
      <4>6. a \in targets
        <5>1. \A t \in item.to : t = "PriceAggregatorAdapterChainsightImpl"
          BY <2>1, <3>3 DEF aims
        <5> QED
          BY <2>1, <4>3, <5>1 DEF targets
      <4>7. a \in named(o, "priceAggregator")'
        <5>1. <<item.field, a>> \in S /\ <<item.field, a>>[1] = "priceAggregator"
              /\ <<item.field, a>>[2] = a
          BY <2>2, <3>3, <4>6 DEF replaced
        <5>2. storage'[o[1]][o[2]] = S
          BY <1>1, <1>2, <3>3
        <5> QED
          BY <5>1, <5>2 DEF named
      <4> QED
        BY <3>1, <4>4, <4>5, <4>7 DEF sourced
    <3> QED
      BY <3>2, <3>3
  <2>7. \A o \in those("LendingRateOracle") : named(o, "borrowRate")' = named(o, "borrowRate")
    BY <2>1, <2>5
  <2> QED
    BY <1>7, <2>6, <2>7 DEF pricesGrow
<1> QED
  BY <1>5, <1>6, <1>7

\* The provider's own oracles are replaced by oracles that are ready.
LEMMA ProviderPrices ==
    ASSUME Whole, Directed, SetAddress \/ Authorize, item.on = Provider
    PROVE  (isPriced => isPriced') /\ theRated \subseteq theRated'
<1>1. /\ Inv /\ item = script[1] /\ 1 \in DOMAIN script /\ script # <<>>
      /\ SetAddress => item.do = "set"
      /\ Authorize => item.do = "authorize"
      /\ UNCHANGED <<db, deployed>> /\ Provider \in Ids
  BY Writes DEF Whole, SetAddress, Authorize, perform, doing
<1>2. pricesStay /\ fits(item, next)
  <2>1. Provider \notin {"PalmyOracle", "LendingRateOracle", "PriceAggregatorAdapterChainsightImpl"}
    BY DEF Provider
  <2> QED
    BY <1>1, <2>1, WritesGrow DEF Whole, Going, Shaped
<1>3. /\ \A field : field # item.field => sameField(Provider, field)
      /\ \A f : f = item.field =>
           /\ SetAddress => named(resolve(Provider), f)' = {resolve(t) : t \in item.to}
           /\ Authorize => named(resolve(Provider), f)' =
                             named(resolve(Provider), f) \cup {resolve(t) : t \in item.to}
      /\ db[Provider] # 0 /\ db'[Provider] # 0
  <2>1. /\ \A id \in Ids : \A field : (id # item.on \/ field # item.field) => sameField(id, field)
        /\ db[item.on] # 0 /\ UNCHANGED <<db, pools>>
    BY <1>1, SetWrites
  <2>2. \A id, field : (id = item.on /\ field = item.field) =>
          /\ SetAddress => named(resolve(id), field)' = {resolve(t) : t \in item.to}
          /\ Authorize => named(resolve(id), field)' =
                            named(resolve(id), field) \cup {resolve(t) : t \in item.to}
    BY <1>1, SetWrites
  <2>3. ASSUME NEW f, f = item.field
        PROVE  /\ SetAddress => named(resolve(Provider), f)' = {resolve(t) : t \in item.to}
               /\ Authorize => named(resolve(Provider), f)' =
                                 named(resolve(Provider), f) \cup {resolve(t) : t \in item.to}
    BY <2>2, <2>3
  <2> QED
    BY <1>1, <2>1, <2>3
<1>4. ASSUME NEW o \in found("PRICE_ORACLE"), sourced(o) PROVE sourced(o)'
  BY <1>1, <1>2, <1>4, OraclesFound DEF pricesStay
<1>5. \A o \in found("LENDING_RATE_ORACLE") : named(o, "borrowRate")' = named(o, "borrowRate")
  BY <1>1, <1>2, OraclesFound DEF pricesStay
<1>6. \A field : field # item.field \/ Authorize =>
        found(field) \subseteq found(field)' /\ (holds(field) => holds(field)')
  <2> SUFFICES ASSUME NEW field, field # item.field \/ Authorize
               PROVE  found(field) \subseteq found(field)' /\ (holds(field) => holds(field)')
    OBVIOUS
  <2>1. CASE field # item.field
    BY <1>3, <2>1, FoundSame
  <2>2. CASE field = item.field /\ Authorize
    BY <1>3, <2>2 DEF found, holds
  <2> QED
    BY <2>1, <2>2
<1>7. CASE Authorize \/ item.field \notin {"PRICE_ORACLE", "LENDING_RATE_ORACLE"}
  <2>1. /\ found("PRICE_ORACLE") \subseteq found("PRICE_ORACLE")'
        /\ found("LENDING_RATE_ORACLE") \subseteq found("LENDING_RATE_ORACLE")'
        /\ holds("LENDING_RATE_ORACLE") => holds("LENDING_RATE_ORACLE")'
    BY <1>6, <1>7
  <2> QED
    BY <1>4, <1>5, <2>1 DEF isPriced, theRated
<1>8. CASE SetAddress /\ item.field = "PRICE_ORACLE"
  <2>1. /\ found("LENDING_RATE_ORACLE") \subseteq found("LENDING_RATE_ORACLE")'
        /\ holds("LENDING_RATE_ORACLE") => holds("LENDING_RATE_ORACLE")'
    BY <1>6, <1>8
  <2>2. Stands(SourceSet) /\ Stands(AggregatorSet)
    <3>1. needs(item, next) = {SourceSet, AggregatorSet}
      BY <1>1, <1>8 DEF needs, Provider
    <3> QED
      BY <1>1, <3>1, ReadyNow DEF Whole, Going, Inv
  <2>3. PICK o : o = resolve("PalmyOracle")
    OBVIOUS
  <2>4. /\ db["PalmyOracle"] # 0 /\ sourced(o)
    <3>1. /\ named(resolve("PriceAggregatorAdapterChainsightImpl"), "source") # {}
          /\ db["PalmyOracle"] # 0
          /\ named(o, "priceAggregator") = {resolve("PriceAggregatorAdapterChainsightImpl")}
      BY <2>2, <2>3 DEF Stands, SourceSet, AggregatorSet, Has, Is
    <3> QED
      BY <3>1 DEF sourced
  <2>5. o \in those("PalmyOracle")
    BY <1>1, <2>3, <2>4, DeploymentNames, InThose DEF Contracts
  <2>6. sourced(o)'
    BY <1>2, <2>4, <2>5 DEF pricesStay
  <2>7. o \in found("PRICE_ORACLE")'
    <3>1. item.to # {} /\ \A t \in item.to : t = "PalmyOracle"
      BY <1>1, <1>2, <1>8 DEF fits, aims
    <3>2. named(resolve(Provider), "PRICE_ORACLE")' = {resolve(t) : t \in item.to}
      BY <1>3, <1>8
    <3> QED
      BY <1>3, <2>3, <3>1, <3>2 DEF found
  <2> QED
    BY <1>5, <2>1, <2>6, <2>7 DEF isPriced, theRated
<1>9. CASE SetAddress /\ item.field = "LENDING_RATE_ORACLE"
  <2>1. found("PRICE_ORACLE") \subseteq found("PRICE_ORACLE")'
    BY <1>6, <1>9
  <2>2. \A c \in RatesSet : Stands(c)
    <3>1. needs(item, next) = RatesSet
      BY <1>1, <1>9 DEF needs, Provider
    <3> QED
      BY <1>1, <3>1, ReadyNow DEF Whole, Going, Inv
  <2>3. PICK o : o = resolve("LendingRateOracle")
    OBVIOUS
  <2>4. o \in found("LENDING_RATE_ORACLE")' /\ holds("LENDING_RATE_ORACLE")'
    <3>1. item.to # {} /\ \A t \in item.to : t = "LendingRateOracle"
      BY <1>1, <1>2, <1>9 DEF fits, aims
    <3>2. named(resolve(Provider), "LENDING_RATE_ORACLE")' = {resolve(t) : t \in item.to}
      BY <1>3, <1>9
    <3> QED
      BY <1>3, <2>3, <3>1, <3>2 DEF found, holds
  <2>5. ASSUME NEW s \in Symbols \cap getLendingRateOracles PROVE s \in theRated'
    <3>1. /\ db["LendingRateOracle"] # 0
          /\ resolve(s) \in named(o, "borrowRate") /\ resolve(s)[1] = s
      <4>1. Has("LendingRateOracle", "borrowRate", s) \in RatesSet
        BY DEF RatesSet
      <4>2. Stands(Has("LendingRateOracle", "borrowRate", s))
        BY <2>2, <4>1
      <4> QED
        BY <2>3, <4>2 DEF Stands, Has, resolve
    <3>2. o \in those("LendingRateOracle")
      BY <1>1, <2>3, <3>1, DeploymentNames, InThose DEF Contracts
    <3>3. named(o, "borrowRate")' = named(o, "borrowRate")
      BY <1>2, <3>2 DEF pricesStay
    <3> QED
      BY <2>4, <3>1, <3>3 DEF theRated
  <2>6. theRated \subseteq theRated'
    BY <2>5 DEF theRated
  <2> QED
    BY <1>4, <2>1, <2>4, <2>6 DEF isPriced
<1> QED
  BY <1>7, <1>8, <1>9

\* A pool that neither changes hands nor changes looks as before.
LEMMA PoolLooks ==
    ASSUME Inv, sameField(Provider, "LendingPool"), sameReserves,
           \A n \in Instances : revision'["LendingPool"][n] = revision["LendingPool"][n]
    PROVE  UNCHANGED <<theRevision, theListed, theBorrowable>>
<1>1. livePool' = livePool /\ \A a \in livePool : a[2] \in Instances
  BY LiveSame, LiveTyped
<1>2. anyOf(livePool)' = anyOf(livePool)
  BY <1>1 DEF anyOf
<1>3. livePool # {} => anyOf(livePool) \in livePool
  BY DEF anyOf
<1>4. theRevision' = theRevision
  BY <1>1, <1>2, <1>3 DEF theRevision
<1>5. \A s \in Symbols, a \in livePool :
        /\ pools'[a[2]].reserves[s].listed = pools[a[2]].reserves[s].listed
        /\ pools'[a[2]].reserves[s].borrowing = pools[a[2]].reserves[s].borrowing
  BY <1>1 DEF sameReserves
<1>6. theListed' = theListed /\ theBorrowable' = theBorrowable
  BY <1>1, <1>5 DEF theListed, theBorrowable, reservesWith
<1> QED
  BY <1>4, <1>6

\* Nor does an admin whose field is not written to.
LEMMA AdminLooks == ASSUME sameField(Provider, "POOL_ADMIN") PROVE isGoverned' = isGoverned
<1>1. Provider \in Ids /\ "deployer" \notin Ids
  BY DeploymentNames, AccountNames DEF Contracts
<1>2. db'[Provider] = db[Provider] /\ holds("POOL_ADMIN")' = holds("POOL_ADMIN")
  BY FoundSame DEF sameField
<1>3. db[Provider] # 0 => named(resolve(Provider), "POOL_ADMIN")' = named(resolve(Provider), "POOL_ADMIN")
  BY <1>1, NamedSame
<1>4. resolve("deployer")' = resolve("deployer")
  BY <1>1, ResolveSame
<1> QED
  BY <1>2, <1>3, <1>4 DEF isGoverned, holds

\* The market opens with the last step of the launch only.
LEMMA OpensLast ==
    ASSUME Whole, Performs
    PROVE  \/ isOpen' = isOpen
           \/ next = 3 /\ Len(script) = 1 /\ item = Closing /\ isOpen' = TRUE
<1>1. /\ script # <<>> /\ item = script[1]
      /\ next' = (IF Len(script) = 1 /\ next < Launched THEN next + 1 ELSE next)
  BY Goes DEF Whole, Inv
<1>2. next \in 1..4
  BY DEF Whole, Inv, TypeOK, Launched
<1>3. next = 3 /\ Len(script) = 1 => item = Closing
  BY <1>1 DEF Whole, Going, Shaped
<1> QED
  BY <1>1, <1>2, <1>3 DEF isOpen, Launched

\* Any other step leaves it as open as it is.
LEMMA StaysOpen == ASSUME Whole, Performs, item.do # "initialize" PROVE isOpen' = isOpen
<1>1. Closing.do = "initialize"
  BY DEF Closing, initialize
<1>2. item # Closing
  BY <1>1
<1> QED
  BY <1>2, OpensLast

\* Where the provider, its pool, the reserves and the oracles stay, so does the market.
LEMMA Looks ==
    ASSUME Inv, Directed, \A field : sameField(Provider, field), sameReserves, pricesStay,
           \A n \in Instances : revision'["LendingPool"][n] = revision["LendingPool"][n]
    PROVE  UNCHANGED <<theRevision, theListed, theBorrowable, isPriced, theRated, isGoverned>>
BY PoolLooks, AdminLooks, SamePrices

\* Exporting, deploying and the writing of other names than the provider's.
LEMMA FileMoves ==
    ASSUME Whole, Directed,
           \/ SaveDeploymentCallData \/ DeployToOasysTestnet \/ InsertProxyAddress
           \/ RegisterContractAddress /\ item.id # Provider
    PROVE  Moves
<1>1. Inv /\ TypeOK /\ Performs /\ Provider \in Ids /\ Provider \notin Proxies
  BY DeploymentNames DEF Whole, Inv, Performs, Contracts
<1>2. item.do \in {"save", "deploy", "insertProxy", "register"}
  BY DEF SaveDeploymentCallData, DeployToOasysTestnet, InsertProxyAddress, RegisterContractAddress,
         perform, doing
<1>3. isOpen' = isOpen
  BY <1>1, <1>2, StaysOpen
<1>4. UNCHANGED <<revision, pools>>
  BY DEF SaveDeploymentCallData, DeployToOasysTestnet, InsertProxyAddress, RegisterContractAddress,
         chain
<1>5. \A field : sameField(Provider, field)
  <2>1. CASE SaveDeploymentCallData
    BY <2>1 DEF SaveDeploymentCallData, chain, sameField
  <2>2. CASE DeployToOasysTestnet
    BY <1>1, <2>2, DeploySame
  <2>3. CASE InsertProxyAddress
    <3>1. item.id \in Proxies
      <4>1. item \in Items /\ item.do = "insertProxy"
        BY <1>1, <2>3, Proceeding DEF InsertProxyAddress, perform, doing
      <4> QED
        BY <4>1, ItemFields
    <3>2. db'[Provider] = db[Provider]
      BY <1>1, <2>3, <3>1 DEF InsertProxyAddress, TypeOK
    <3> QED
      BY <2>3, <3>2 DEF InsertProxyAddress, chain, sameField
  <2>4. CASE RegisterContractAddress /\ item.id # Provider
    <3>1. db'[Provider] = db[Provider]
      BY <1>1, <2>4 DEF RegisterContractAddress, TypeOK
    <3> QED
      BY <2>4, <3>1 DEF RegisterContractAddress, chain, sameField
  <2> QED
    BY <2>1, <2>2, <2>3, <2>4
<1>6. sameReserves
  BY <1>4 DEF sameReserves
<1>7. pricesStay
  <2>1. CASE DeployToOasysTestnet
    <3>1. PICK refs : storage' = [storage EXCEPT ![item.id][deployed[item.id] + 1] = refs]
      BY <2>1 DEF DeployToOasysTestnet
    <3>2. \A id \in Ids, n \in Instances :
            id # item.id \/ n # deployed[item.id] + 1 => storage'[id][n] = storage[id][n]
      BY <1>1, <3>1 DEF TypeOK
    <3>3. \A id \in Ids : deployed[id] \in Nat
      BY <1>1, DeploymentAssumption DEF TypeOK
    <3>4. {"PalmyOracle", "LendingRateOracle", "PriceAggregatorAdapterChainsightImpl"} \subseteq Ids
      BY DeploymentNames DEF Contracts
    <3>5. \A id \in {"PalmyOracle", "LendingRateOracle", "PriceAggregatorAdapterChainsightImpl"},
             n \in Instances : n <= deployed[id] => storage'[id][n] = storage[id][n]
      BY <3>2, <3>3, <3>4
    <3> QED
      BY <1>1, <3>5, OraclesStay
  <2>2. CASE ~DeployToOasysTestnet
    <3>1. UNCHANGED storage
      BY <2>2 DEF SaveDeploymentCallData, InsertProxyAddress, RegisterContractAddress, chain
    <3> QED
      BY <1>1, <3>1, OraclesStay
  <2> QED
    BY <2>1, <2>2
<1>8. UNCHANGED <<theRevision, theListed, theBorrowable, isPriced, theRated, isGoverned>>
  BY <1>1, <1>4, <1>5, <1>6, <1>7, Looks
<1> QED
  BY <1>3, <1>8 DEF Moves

\* Registering a new provider abandons the market, which is not open yet.
LEMMA ProviderMoves ==
    ASSUME Whole, Directed, RegisterContractAddress, item.id = Provider
    PROVE  Moves
<1>1. Inv /\ TypeOK /\ Performs /\ Provider \in Ids /\ item.do = "register" /\ script # <<>>
  BY DeploymentNames
     DEF Whole, Inv, Performs, Contracts, RegisterContractAddress, perform, doing
<1>2. next = 2
  <2>1. item = script[1] /\ 1 \in DOMAIN script
    BY <1>1, Goes
  <2> QED
    BY <1>1, <2>1 DEF Whole, Going, Shaped, fits
<1>3. isOpen' = isOpen /\ ~isOpen
  BY <1>1, <1>2, StaysOpen DEF isOpen, Launched
<1>4. /\ db'[Provider] = deployed[Provider] /\ UNCHANGED <<storage, revision, pools>>
      /\ db[Provider] <= deployed[Provider] /\ db[Provider] \in Nat
      /\ deployed[Provider] \in 0..MaxInstances
  BY <1>1 DEF RegisterContractAddress, chain, TypeOK, Inv, NoDanglingReference
<1>5. CASE deployed[Provider] = db[Provider]
  <2>1. (\A field : sameField(Provider, field)) /\ sameReserves
    BY <1>4, <1>5 DEF sameField, sameReserves
  <2>2. pricesStay
    BY <1>1, <1>4, OraclesStay
  <2>3. UNCHANGED <<theRevision, theListed, theBorrowable, isPriced, theRated, isGoverned>>
    BY <1>1, <1>4, <2>1, <2>2, Looks
  <2> QED
    BY <1>3, <2>3 DEF Moves
<1>6. CASE deployed[Provider] # db[Provider]
  <2>1. PICK n : n = db'[Provider]
    OBVIOUS
  <2>2. n \in Instances /\ n > db[Provider] /\ n # 0
    BY <1>4, <1>6, <2>1, DeploymentAssumption DEF Instances
  <2>3. \A r \in storage[Provider][n] : r[1] \in Constructor
    BY <2>2 DEF Whole, Sound, Fresh
  <2>4. \A field : field \notin Constructor => named(resolve(Provider), field)' = {}
    <3>1. \A field : named(resolve(Provider), field)' =
                       {r[2] : r \in {x \in storage[Provider][n] : x[1] = field}}
      BY <1>1, <1>4, <2>1, NamedHere
    <3> QED
      BY <2>3, <3>1
  <2>5. currentPool' = {}
    BY <2>4 DEF currentPool, Constructor
  <2>6. livePool' = {}
    BY <2>5 DEF livePool
  <2>7. isPriced' = FALSE /\ theRated' = {} /\ isGoverned' = FALSE
    <3>1. found("PRICE_ORACLE")' = {} /\ found("LENDING_RATE_ORACLE")' = {}
      BY <2>4 DEF found, Constructor
    <3>2. holds("POOL_ADMIN")' = FALSE
      BY <2>4 DEF holds, Constructor
    <3> QED
      BY <3>1, <3>2 DEF isPriced, theRated, isGoverned
  <2> QED
    BY <1>3, <2>6, <2>7, NoPoolShown, ShownTyped DEF Moves
<1> QED
  BY <1>5, <1>6

\* Setting a field of the provider appoints, prices, or does neither.
LEMMA SetMoves ==
    ASSUME Whole, Directed, SetAddress \/ Authorize
    PROVE  Moves
<1>1. Inv /\ TypeOK /\ Performs /\ Provider \in Ids
  BY DeploymentNames DEF Whole, Inv, Performs, Contracts
<1>2. /\ \A field : (Provider # item.on \/ field # item.field) => sameField(Provider, field)
      /\ item.field \in Fields /\ item.do \in {"set", "authorize"} /\ UNCHANGED <<db, pools>>
      /\ item.on = Provider => \A f : f = item.field =>
           /\ SetAddress => named(resolve(Provider), f)' = {resolve(t) : t \in item.to}
           /\ Authorize => named(resolve(Provider), f)' =
                             named(resolve(Provider), f) \cup {resolve(t) : t \in item.to}
  <2>1. /\ \A id \in Ids : \A field : (id # item.on \/ field # item.field) => sameField(id, field)
        /\ item.field \in Fields /\ UNCHANGED <<db, pools>>
    BY <1>1, SetWrites
  <2>2. item.do \in {"set", "authorize"}
    BY DEF SetAddress, Authorize, perform, doing
  <2>3. \A id, field : (id = item.on /\ field = item.field) =>
          /\ SetAddress => named(resolve(id), field)' = {resolve(t) : t \in item.to}
          /\ Authorize => named(resolve(id), field)' =
                            named(resolve(id), field) \cup {resolve(t) : t \in item.to}
    BY <1>1, SetWrites
  <2>4. PICK f : f = item.field
    OBVIOUS
  <2>5. item.on = Provider =>
          /\ SetAddress => named(resolve(Provider), f)' = {resolve(t) : t \in item.to}
          /\ Authorize => named(resolve(Provider), f)' =
                            named(resolve(Provider), f) \cup {resolve(t) : t \in item.to}
    BY ONLY <2>3, <2>4
  <2> QED
    BY <1>1, <2>1, <2>2, <2>4, <2>5
<1>3. isOpen' = isOpen
  BY <1>1, <1>2, StaysOpen
<1>4. UNCHANGED <<theRevision, theListed, theBorrowable>>
  <2>1. UNCHANGED <<revision, pools>>
    BY DEF SetAddress, Authorize
  <2>2. sameField(Provider, "LendingPool") /\ sameReserves
    BY <1>2, <2>1 DEF Fields, sameReserves
  <2> QED
    BY <1>1, <2>1, <2>2, PoolLooks
<1>5. CASE item.on = Provider /\ item.field = "POOL_ADMIN"
  <2>1. pricesStay
    BY <1>5, WritesGrow DEF Provider
  <2>2. sameField(Provider, "PRICE_ORACLE") /\ sameField(Provider, "LENDING_RATE_ORACLE")
    BY <1>2, <1>5
  <2>3. isPriced' = isPriced /\ theRated' = theRated
    BY <1>1, <2>1, <2>2, SamePrices
  <2> QED
    BY <1>3, <1>4, <2>3, ShownTyped DEF Moves
<1>6. CASE item.on = Provider /\ item.field # "POOL_ADMIN"
  <2>1. isGoverned' = isGoverned
    BY <1>2, <1>6, AdminLooks
  <2>2. (isPriced => isPriced') /\ theRated \subseteq theRated'
    BY <1>6, ProviderPrices
  <2> QED
    BY <1>3, <1>4, <2>1, <2>2 DEF Moves
<1>7. CASE item.on # Provider
  <2>1. \A field : sameField(Provider, field)
    BY <1>2, <1>7
  <2>2. isGoverned' = isGoverned
    BY <2>1, AdminLooks
  <2>3. (isPriced => isPriced') /\ theRated \subseteq theRated'
    BY <1>1, <2>1, WritesGrow, MorePrices
  <2> QED
    BY <1>3, <1>4, <2>2, <2>3 DEF Moves
<1> QED
  BY <1>5, <1>6, <1>7

\* The configuration names a reserve, and skips none.
LaunchConfigured ==
  Launch # <<>> /\ \A k \in DOMAIN Launch : Collateral[Launch[k]] # "skipped"

\* Initializing a contract never touches the provider; with the last one the market opens.
LEMMA InitializeMoves ==
    ASSUME Whole, Directed, InitializeOnce, LaunchConfigured
    PROVE  Moves
<1>1. Inv /\ Performs /\ Provider \in Ids
  BY DeploymentNames DEF Whole, Performs, Contracts
<1>2. \A field : sameField(Provider, field)
  <2>1. item = script[1] /\ 1 \in DOMAIN script
    BY <1>1, Goes DEF Inv
  <2>2. item.do = "initialize"
    BY DEF InitializeOnce, perform, doing
  <2>3. fits(item, next)
    BY <2>1 DEF Whole, Going, Shaped
  <2>4. item.on # Provider
    BY <2>2, <2>3 DEF fits
  <2> QED
    BY <1>1, <2>4, InitializeWrites
<1>3. sameReserves /\ UNCHANGED revision
  BY DEF InitializeOnce, sameReserves
<1>4. CASE isOpen' = isOpen
  <2>1. UNCHANGED <<theRevision, theListed, theBorrowable>> /\ isGoverned' = isGoverned
    BY <1>1, <1>2, <1>3, PoolLooks, AdminLooks
  <2>2. (isPriced => isPriced') /\ theRated \subseteq theRated'
    BY <1>1, <1>2, WritesGrow, MorePrices
  <2> QED
    BY <1>4, <2>1, <2>2 DEF Moves
<1>5. CASE next = 3 /\ Len(script) = 1 /\ item = Closing /\ isOpen' = TRUE
  <2>0. UNCHANGED <<theRevision, theListed, theBorrowable, isPriced, theRated, isGoverned>>
    <3>1. item.on = "UiPoolDataProviderV2"
      BY <1>5 DEF Closing, initialize
    <3>2. pricesStay
      BY <3>1, WritesGrow
    <3> QED
      BY <1>1, <1>2, <1>3, <3>2, Looks
  <2>1. \A c \in Achieved : Stands(c)'
    <3>1. Effective
      BY <1>1, Performed DEF Whole, Going
    <3> QED
      BY <1>1, <1>5, <3>1, Achieves DEF Whole
  <2>2. isGoverned'
    <3>1. <<Provider, "POOL_ADMIN", "deployer">> \in Wiring /\ Provider \notin Proxies
      BY DEF Wiring, Proxies, Provider
    <3>2. \A w \in Wiring : w[1] \notin Proxies => Is(w[1], w[2], w[3]) \in Achieved
      BY DEF Achieved, Written
    <3>3. \A x, y, z : <<x, y, z>>[1] = x /\ <<x, y, z>>[2] = y /\ <<x, y, z>>[3] = z
      OBVIOUS
    <3>4. Is(Provider, "POOL_ADMIN", "deployer") \in Achieved
      BY ONLY <3>1, <3>2, <3>3
    <3>5. Stands(Is(Provider, "POOL_ADMIN", "deployer"))'
      BY <2>1, <3>4
    <3> QED
      BY <3>5 DEF Stands, Is, isGoverned, holds
  <2>3. \A s \in Symbols : /\ among(s, Launch) => s \in theListed' /\ s \in theBorrowable'
                           /\ ~among(s, Launch) => s \notin theListed'
    <3> SUFFICES ASSUME NEW s \in Symbols
                 PROVE  /\ among(s, Launch) => s \in theListed' /\ s \in theBorrowable'
                        /\ ~among(s, Launch) => s \notin theListed'
      OBVIOUS
    <3>1. among(s, Launch) => Collateral[s] # "skipped"
      BY DEF LaunchConfigured, among
    <3>2. /\ among(s, Launch) => Of("listed", s) \in Achieved /\ Of("borrowing", s) \in Achieved
          /\ ~among(s, Launch) => Of("absent", s) \in Achieved
      BY <3>1 DEF Achieved
    <3>3. /\ among(s, Launch) => Stands(Of("listed", s))' /\ Stands(Of("borrowing", s))'
          /\ ~among(s, Launch) => Stands(Of("absent", s))'
      BY <2>1, <3>2
    <3>4. /\ Stands(Of("listed", s))' => s \in theListed'
          /\ Stands(Of("borrowing", s))' => s \in theBorrowable'
          /\ Stands(Of("absent", s))' => s \notin theListed'
      BY DEF Stands, Of, theListed, theBorrowable, reservesWith
    <3> QED
      BY <3>3, <3>4
  <2>4. theListed' # {}
    <3>1. Launch[1] \in Symbols /\ among(Launch[1], Launch)
      BY AssetsTyped DEF LaunchConfigured, among
    <3> QED
      BY <2>3, <3>1
  <2>5. theBorrowable' = theListed'
    <3>1. theBorrowable' \subseteq theListed'
      <4>1. Pristine'
        BY NextWhole DEF Whole, Sound, Next, Step
      <4>2. \A a \in livePool' : a[2] \in Instances
        <5>1. livePool' = livePool
          BY <1>2, LiveSame
        <5> QED
          BY <1>1, <5>1, LiveTyped
      <4> QED
        BY <4>1, <4>2 DEF Pristine, theListed, theBorrowable, reservesWith
    <3>2. theListed' \subseteq theBorrowable'
      BY <2>3, ShownTyped
    <3> QED
      BY <3>1, <3>2
  <2> QED
    BY <1>5, <2>0, <2>2, <2>4, <2>5 DEF Moves
<1> QED
  BY <1>1, <1>4, <1>5, OpensLast

\* Creating the pool and upgrading it install a revision; the configurator is not shown.
LEMMA ImplMoves == ASSUME Whole, Directed, SetImpl PROVE Moves
<1>1. Inv /\ Performs /\ Provider \in Ids /\ Provider \in Contracts
  BY DeploymentNames DEF Whole, Performs, Contracts
<1>2. PICK proxy \in Proxies : /\ proxy = proxyOf(item.impl)
                               /\ (\E new : Creates(proxy, new)) \/ \E u : Upgrades(proxy, u)
  BY <1>1, SetImplCases
<1>3. /\ UNCHANGED <<files, pools>> /\ db[Provider] \in Instances /\ db[Provider] # 0
      /\ item.do = "setImpl" /\ upgradable(item.impl)
      /\ item.impl \in {"LendingPoolImpl", "LendingPoolTmpImpl", "LendingPoolV4Impl",
                        "LendingPoolConfiguratorImpl"}
  BY <1>1, SetImplCases
<1>4. isOpen' = isOpen /\ sameReserves /\ UNCHANGED db
  BY <1>1, <1>3, StaysOpen DEF sameReserves, files
<1>5. \A field : field # proxy => sameField(Provider, field)
  <2>1. ASSUME NEW new, Creates(proxy, new), NEW field, field # proxy PROVE sameField(Provider, field)
    BY <1>1, <1>3, <2>1, CreateWrites
  <2>2. ASSUME NEW u, Upgrades(proxy, u), NEW field PROVE sameField(Provider, field)
    BY <1>1, <1>3, <2>2, UpgradeWrites
  <2> QED
    BY <1>2, <2>1, <2>2
<1>6. isPriced' = isPriced /\ theRated' = theRated /\ isGoverned' = isGoverned
  <2> DEFINE oracles == {"PalmyOracle", "LendingRateOracle", "PriceAggregatorAdapterChainsightImpl"}
  <2>1. \A id \in oracles : id \in Ids /\ id # proxy /\ id # Provider
    BY <1>2, DeploymentNames DEF Contracts, Provider
  <2>2. storage \in [Ids -> [Instances -> SUBSET Refs(AllFields)]] /\ Provider \in Ids
    BY <1>1 DEF Inv, TypeOK
  <2>3. ASSUME NEW new, Creates(proxy, new) PROVE \A id \in oracles : storage'[id] = storage[id]
    <3> DEFINE ref == <<proxy, <<proxy, new>>>>
    <3>1. storage' = [storage EXCEPT ![proxy][new] = initialized(item.impl),
                                     ![Provider][db[Provider]] = @ \cup {ref}]
      BY <2>3 DEF Creates
    <3> HIDE DEF ref
    <3> QED
      BY <2>1, <2>2, <3>1
  <2>4. ASSUME NEW u, Upgrades(proxy, u) PROVE \A id \in oracles : storage'[id] = storage[id]
    <3>1. storage' = [storage EXCEPT ![proxy][u[2]] = initialized(item.impl)]
      BY <2>4 DEF Upgrades
    <3> QED
      BY <2>1, <2>2, <3>1
  <2>5. \A id \in oracles : storage'[id] = storage[id]
    BY <1>2, <2>3, <2>4
  <2>6. pricesStay
    BY <1>1, <2>5, OraclesStay
  <2>7. \A field \in {"PRICE_ORACLE", "LENDING_RATE_ORACLE", "POOL_ADMIN"} : sameField(Provider, field)
    BY <1>2, <1>5 DEF Proxies
  <2> QED
    BY <1>1, <2>6, <2>7, SamePrices, AdminLooks
<1>7. CASE proxy = "LendingPoolConfigurator"
  <2>1. sameField(Provider, "LendingPool")
    BY <1>5, <1>7
  <2>2. \A n \in Instances : revision'["LendingPool"][n] = revision["LendingPool"][n]
    <3>1. ASSUME NEW new, Creates(proxy, new), NEW n \in Instances
          PROVE  revision'["LendingPool"][n] = revision["LendingPool"][n]
      BY <1>1, <1>3, <1>7, <3>1, CreateWrites DEF Proxies
    <3>2. ASSUME NEW u, Upgrades(proxy, u), NEW n \in Instances
          PROVE  revision'["LendingPool"][n] = revision["LendingPool"][n]
      BY <1>1, <1>3, <1>7, <3>2, UpgradeWrites DEF Proxies
    <3> QED
      BY <1>2, <3>1, <3>2
  <2> QED
    BY <1>1, <1>4, <1>6, <2>1, <2>2, PoolLooks DEF Moves
<1>8. CASE proxy = "LendingPool"
  <2>1. getRevision(item.impl) \in {2, 3, 4}
    BY <1>2, <1>3, <1>8 DEF proxyOf, getRevision
  <2>2. resolve(Provider) = <<Provider, db[Provider]>> /\ resolve(Provider)' = <<Provider, db[Provider]>>
    BY <1>1, <1>4 DEF resolve
  <2>3. ASSUME NEW new, Creates(proxy, new) PROVE Moves
    <3>1. named(resolve(Provider), "LendingPool") = {} /\ new \in Instances
          /\ new = deployed["LendingPool"] + 1
      BY <1>8, <2>3 DEF Creates
    <3>2. livePool = {}
      BY <3>1 DEF livePool, currentPool
    <3>3. PICK a : a = <<"LendingPool", new>>
      OBVIOUS
    <3>0. UNCHANGED <<files, pools>> /\ db[Provider] \in Instances /\ Creates(proxy, new) /\ Inv
            /\ proxy \in Proxies
      BY <1>1, <1>3, <2>3
    <3>4. /\ \A id \in Contracts : \A field :
                (id # Provider \/ field # proxy) => sameField(id, field)
          /\ \A p \in Proxies, n \in Instances :
                storage'[p][n] = IF p = proxy /\ n = new THEN initialized(item.impl) ELSE storage[p][n]
          /\ \A n \in Instances : \A p \in Proxies :
                named(<<Provider, n>>, p)' =
                  IF n = db[Provider] /\ p = proxy THEN {<<proxy, new>>} ELSE named(<<Provider, n>>, p)
          /\ \A n \in Instances : n # db[Provider] => storage'[Provider][n] = storage[Provider][n]
          /\ \A p \in Proxies, n \in Instances :
                revision'[p][n] = IF p = proxy /\ n = new THEN getRevision(item.impl)
                                                          ELSE revision[p][n]
          /\ \A p \in Proxies : deployed'[p] = IF p = proxy THEN new ELSE deployed[p]
      BY ONLY <3>0, CreateWrites
    <3>5. livePool' = {a}
      <4>1. currentPool' = {<<"LendingPool", new>>}
        BY <1>2, <1>3, <1>8, <2>2, <3>4 DEF currentPool
      <4> QED
        BY <1>3, <1>4, <3>3, <4>1 DEF livePool
    <3>6. theRevision' = getRevision(item.impl)
      <4>1. revision'["LendingPool"][new] = getRevision(item.impl)
        BY <1>8, <3>1, <3>4 DEF Proxies
      <4> QED
        BY <3>3, <3>5, <4>1, PoolShown
    <3>7. theListed' = {} /\ theBorrowable' = {}
      <4>1. new > deployed["LendingPool"]
        <5>1. deployed["LendingPool"] \in Nat
          BY InitializationNames, DeploymentAssumption DEF Whole, Inv, TypeOK, Ids
        <5> QED
          BY <3>1, <5>1
      <4>2. \A s \in Symbols : ~pools'[new].reserves[s].listed /\ ~pools'[new].reserves[s].borrowing
        BY <1>3, <3>1, <4>1 DEF Whole, Sound, Pristine
      <4> QED
        BY <3>3, <3>5, <4>2, PoolShown, ShownTyped
    <3> QED
      BY <1>4, <1>6, <2>1, <3>2, <3>6, <3>7, NoPoolShown DEF Moves
  <2>4. ASSUME NEW a, Upgrades(proxy, a) PROVE Moves
    <3>1. /\ a = <<"LendingPool", a[2]>> /\ a[2] \in Instances
          /\ a \in named(<<Provider, db[Provider]>>, "LendingPool")
          /\ revision'["LendingPool"][a[2]] = getRevision(item.impl)
          /\ sameField(Provider, "LendingPool")
      BY <1>1, <1>2, <1>3, <1>8, <2>4, UpgradeWrites
    <3>2. currentPool = {a} /\ livePool = {a} /\ livePool' = {a}
      <4>1. a \in currentPool /\ \A b \in currentPool : b = a
        BY <1>2, <1>3, <1>8, <2>2, <3>1 DEF Whole, Sound, OneProxy, currentPool
      <4>2. livePool' = livePool
        BY <3>1, LiveSame
      <4> QED
        BY <1>3, <4>1, <4>2 DEF livePool
    <3>3. theRevision' = getRevision(item.impl) /\ theRevision = revision["LendingPool"][a[2]]
      BY <3>1, <3>2, PoolShown
    <3>4. getRevision(item.impl) > revision["LendingPool"][a[2]]
      <4>1. a \in named(resolve(Provider), proxyOf(item.impl)) /\ a[1] = "LendingPool"
        BY <1>2, <1>8, <2>2, <3>1
      <4> QED
        BY <1>3, <4>1 DEF upgradable
    <3>5. theListed' = theListed /\ theBorrowable' = theBorrowable
      <4>1. \A s \in Symbols :
              /\ pools'[a[2]].reserves[s].listed = pools[a[2]].reserves[s].listed
              /\ pools'[a[2]].reserves[s].borrowing = pools[a[2]].reserves[s].borrowing
        BY <1>4, <3>1 DEF sameReserves
      <4> QED
        BY <3>2, <4>1, PoolShown, ShownTyped
    <3> QED
      BY <1>4, <1>6, <2>1, <3>3, <3>4, <3>5 DEF Moves
  <2> QED
    BY <1>2, <2>3, <2>4
<1> QED
  BY <1>2, <1>7, <1>8 DEF Proxies

\* What the callers of the configurator know of the one pool it calls.
LEMMA CallersKnow ==
    ASSUME Whole, \A c \in Core : Stands(c)
    PROVE  /\ db[Provider] # 0 /\ resolve(Provider) = <<Provider, db[Provider]>>
           /\ isPriced /\ Symbols \cap getLendingRateOracles \subseteq theRated
           /\ \A admin : administered(resolve("LendingPoolConfigurator"), admin) # {} =>
                holds("POOL_ADMIN") /\ named(resolve(Provider), "POOL_ADMIN") = {admin}
<1>1. /\ Stands(Is(Provider, "LendingPoolConfigurator", "LendingPoolConfigurator"))
      /\ Stands(Is(Provider, "PRICE_ORACLE", "PalmyOracle"))
      /\ Stands(Is(Provider, "LENDING_RATE_ORACLE", "LendingRateOracle"))
      /\ Stands(SourceSet) /\ Stands(AggregatorSet)
      /\ \A s \in getLendingRateOracles : Stands(Has("LendingRateOracle", "borrowRate", s))
  BY DEF Core, Priced, RatesSet
<1>2. /\ db[Provider] # 0
      /\ named(resolve(Provider), "LendingPoolConfigurator") = {resolve("LendingPoolConfigurator")}
      /\ named(resolve(Provider), "PRICE_ORACLE") = {resolve("PalmyOracle")}
      /\ named(resolve(Provider), "LENDING_RATE_ORACLE") = {resolve("LendingRateOracle")}
      /\ named(resolve("PalmyOracle"), "priceAggregator") =
           {resolve("PriceAggregatorAdapterChainsightImpl")}
      /\ named(resolve("PriceAggregatorAdapterChainsightImpl"), "source") # {}
  BY <1>1 DEF Stands, Is, Has, SourceSet, AggregatorSet
<1>3. db[Provider] \in Instances /\ resolve(Provider) = <<Provider, db[Provider]>>
  BY <1>2, LiveTyped DEF Whole
<1>4. isPriced /\ Symbols \cap getLendingRateOracles \subseteq theRated
  <2>1. /\ found("PRICE_ORACLE") = {resolve("PalmyOracle")}
        /\ found("LENDING_RATE_ORACLE") = {resolve("LendingRateOracle")}
        /\ holds("LENDING_RATE_ORACLE")
    BY <1>2 DEF found, holds
  <2>2. sourced(resolve("PalmyOracle"))
    BY <1>2 DEF sourced
  <2>3. ASSUME NEW s \in Symbols \cap getLendingRateOracles PROVE s \in theRated
    <3>1. resolve(s) \in named(resolve("LendingRateOracle"), "borrowRate") /\ resolve(s)[1] = s
      BY <1>1 DEF Stands, Has, resolve
    <3> QED
      BY <2>1, <3>1 DEF theRated
  <2> QED
    BY <2>1, <2>2, <2>3 DEF isPriced
<1>5. named(resolve("LendingPoolConfigurator"), "addressesProvider") = {resolve(Provider)}
  <2>1. resolve("LendingPoolConfigurator") \in
          named(<<Provider, db[Provider]>>, "LendingPoolConfigurator")
    BY <1>2, <1>3
  <2> QED
    BY <1>3, <2>1 DEF Whole, Sound, OfProvider, Proxies
<1>6. ASSUME NEW admin, administered(resolve("LendingPoolConfigurator"), admin) # {}
      PROVE  holds("POOL_ADMIN") /\ named(resolve(Provider), "POOL_ADMIN") = {admin}
  <2>1. named(resolve(Provider), "POOL_ADMIN") = {admin}
    BY <1>5, <1>6 DEF administered
  <2> QED
    BY <1>2, <2>1 DEF holds
<1> QED
  BY <1>2, <1>3, <1>4, <1>6

\* A call of the configurator leaves everything but the reserves.
LEMMA CallsLook ==
    ASSUME Whole, Directed, Performs, item.do # "initialize",
           UNCHANGED <<files, deployed, storage, revision>>, NEW a, livePool = {a}
    PROVE  /\ UNCHANGED <<theRevision, isPriced, theRated, isGoverned, isOpen>> /\ livePool' = {a}
           /\ theRevision = revision["LendingPool"][a[2]]
<1>1. isOpen' = isOpen
  BY StaysOpen
<1>2. \A field : sameField(Provider, field)
  BY DEF sameField, files
<1>3. livePool' = livePool
  BY <1>2, LiveSame
<1>4. isPriced' = isPriced /\ theRated' = theRated /\ isGoverned' = isGoverned
  <2>1. Inv
    BY DEF Whole
  <2>2. pricesStay
    BY <2>1, OraclesStay
  <2> QED
    BY <1>2, <2>1, <2>2, SamePrices, AdminLooks
<1>5. theRevision' = theRevision /\ theRevision = revision["LendingPool"][a[2]]
  BY <1>3, PoolShown
<1> QED
  BY <1>1, <1>3, <1>4, <1>5

\* The deployer lists reserves as the pool admin, with the pool installed.
LEMMA BatchMoves == ASSUME Whole, Directed, BatchInitReserve PROVE Moves
<1>1. /\ Inv /\ Sound /\ PoolsOK /\ Performs /\ script # <<>> /\ item.do = "batchInitReserve"
      /\ TypeOK
  BY DEF Whole, Inv, Performs, BatchInitReserve, perform, doing
<1>2. \A c \in Core : Stands(c)
  <2>1. needs(item, next) = Core
    BY <1>1 DEF needs
  <2>2. Ready
    BY DEF Whole, Going
  <2> QED
    BY <1>1, <2>1, <2>2, ReadyNow
<1>3. UNCHANGED <<files, deployed, storage, revision>>
  BY <1>1, <1>2, BatchWrites
<1>4. PICK a : /\ livePool = {a} /\ a[2] \in Instances /\ a[2] <= deployed["LendingPool"]
               /\ listedBesides(pools'[a[2]], pools[a[2]], {s \in Symbols : among(s, item.assets)})
  BY <1>1, <1>2, BatchWrites
<1>5. /\ UNCHANGED <<theRevision, isPriced, theRated, isGoverned, isOpen>> /\ livePool' = {a}
      /\ theRevision = revision["LendingPool"][a[2]]
  BY <1>1, <1>3, <1>4, CallsLook
<1>6. theRevision > 0
  <2>1. revision["LendingPool"][a[2]] \in 0..4
    BY <1>1, <1>4 DEF TypeOK, Proxies
  <2>2. revision["LendingPool"][a[2]] >= 2
    BY <1>1, <1>4 DEF Sound, Revised
  <2> QED
    BY <1>5, <2>1, <2>2
<1>7. isGoverned
  <2>1. administered(resolve("LendingPoolConfigurator"), resolve("deployer")) # {}
    BY DEF BatchInitReserve
  <2> QED
    BY <1>2, <2>1, CallersKnow DEF isGoverned
<1>8. theListed \subseteq theListed' /\ theListed' \subseteq Symbols /\ theBorrowable' = theBorrowable
  <2>1. \A s \in Symbols : /\ s \in theListed => s \in theListed'
                           /\ s \in theBorrowable' <=> s \in theBorrowable
    BY <1>4, <1>5, PoolShown DEF listedBesides
  <2> QED
    BY <2>1, ShownTyped
<1> QED
  BY <1>5, <1>6, <1>7, <1>8 DEF Moves

\* The helper enables reserves that are listed, priced and rated, as the pool admin in place of the
\* deployer.
LEMMA ConfigureMoves == ASSUME Whole, Directed, ConfigureReserves PROVE Moves
<1>1. /\ Inv /\ Sound /\ PoolsOK /\ Performs /\ script # <<>> /\ item.do = "configure" /\ TypeOK
  BY DEF Whole, Inv, Performs, ConfigureReserves, perform, doing
<1>2. (\A c \in Core : Stands(c)) /\ \A s \in item.assets : Stands(Of("listed", s))
  <2>1. needs(item, next) = Core \cup {Of("listed", s) : s \in item.assets}
    BY <1>1 DEF needs
  <2>2. Ready
    BY DEF Whole, Going
  <2> QED
    BY <1>1, <2>1, <2>2, ReadyNow
<1>3. UNCHANGED <<files, deployed, storage, revision>>
  BY <1>1, <1>2, ConfigureWrites
<1>4. PICK a : /\ livePool = {a} /\ a[2] \in Instances /\ a[2] <= deployed["LendingPool"]
               /\ configuredBesides(pools'[a[2]], pools[a[2]], item.assets)
  BY <1>1, <1>2, ConfigureWrites
<1>5. UNCHANGED <<theRevision, isPriced, theRated, isGoverned, isOpen>> /\ livePool' = {a}
  BY <1>1, <1>3, <1>4, CallsLook
<1>6. isPriced /\ ~isGoverned /\ Symbols \cap getLendingRateOracles \subseteq theRated
  <2>1. named(resolve("LTokensAndRatesHelper"), "poolConfigurator") =
          {resolve("LendingPoolConfigurator")}
    BY <1>1, <1>2, ConfiguratorPool
  <2>2. administered(resolve("LendingPoolConfigurator"), resolve("LTokensAndRatesHelper")) # {}
    BY <2>1 DEF ConfigureReserves
  <2>3. /\ isPriced /\ Symbols \cap getLendingRateOracles \subseteq theRated
        /\ named(resolve(Provider), "POOL_ADMIN") = {resolve("LTokensAndRatesHelper")}
    BY <1>2, <2>2, CallersKnow
  <2>4. resolve("LTokensAndRatesHelper") # resolve("deployer")
    BY DEF resolve, Ids, Contracts
  <2> QED
    BY <2>3, <2>4 DEF isGoverned
<1>7. /\ theListed' = theListed
      /\ theBorrowable \subseteq theBorrowable' /\ theBorrowable' \subseteq theListed
  <2>1. \A s \in item.assets : pools[a[2]].reserves[s].listed
    BY <1>2, <1>4 DEF Stands, Of
  <2>2. \A s \in Symbols : pools[a[2]].reserves[s].borrowing => pools[a[2]].reserves[s].listed
    BY <1>1, <1>4 DEF Sound, Pristine
  <2>3. \A s \in Symbols :
          /\ s \in theListed' <=> s \in theListed
          /\ s \in theBorrowable => s \in theBorrowable'
          /\ s \in theBorrowable' => s \in theListed
    BY <1>4, <1>5, <2>1, <2>2, PoolShown DEF configuredBesides
  <2> QED
    BY <2>3, ShownTyped
<1>8. theBorrowable' \cap getLendingRateOracles \subseteq theRated
  BY <1>6, ShownTyped
<1> QED
  BY <1>5, <1>6, <1>7, <1>8 DEF Moves

\* Whatever else happens is not seen in the market.
LEMMA OtherMoves ==
    ASSUME Whole, Directed,
           CollectReserves \/ Throw \/ Crash \/ RunStage \/ Operate \/ Deposit \/ UNCHANGED vars
    PROVE  Moves
<1>1. Inv /\ PoolsOK /\ next \in 1..4
  BY DEF Whole, Inv, TypeOK, Launched
<1>2. UNCHANGED <<files, deployed, storage, revision>> /\ sameReserves
  <2>1. CASE Deposit
    BY <1>1, <2>1, DepositSame DEF Deposit
  <2>2. CASE ~Deposit
    <3>1. UNCHANGED <<files, chain>>
      BY <2>2 DEF CollectReserves, Throw, Crash, RunStage, Operate, abandoned, vars
    <3> QED
      BY <3>1 DEF chain, sameReserves
  <2> QED
    BY <2>1, <2>2
<1>3. isOpen' = isOpen
  <2>1. CASE Throw \/ Crash
    BY <1>1, <2>1 DEF Throw, Crash, abandoned, startOver, isOpen, Launched
  <2>2. CASE ~(Throw \/ Crash)
    <3>1. next' = next
      BY <2>2 DEF CollectReserves, RunStage, Operate, Deposit, vars
    <3> QED
      BY <3>1 DEF isOpen
  <2> QED
    BY <2>1, <2>2
<1>4. \A field : sameField(Provider, field)
  BY <1>2 DEF sameField, files
<1>5. pricesStay
  BY <1>1, <1>2, OraclesStay
<1>6. UNCHANGED <<theRevision, theListed, theBorrowable, isPriced, theRated, isGoverned>>
  BY <1>1, <1>2, <1>4, <1>5, Looks
<1> QED
  BY <1>3, <1>6 DEF Moves

\* Every step of the deployment is one of the market, or none.
LEMMA NextMoves == ASSUME Whole, Directed, LaunchConfigured, [Next]_vars PROVE Moves
<1>1. CASE \/ SaveDeploymentCallData \/ DeployToOasysTestnet \/ InsertProxyAddress
           \/ RegisterContractAddress /\ item.id # Provider
  BY <1>1, FileMoves
<1>2. CASE RegisterContractAddress /\ item.id = Provider
  BY <1>2, ProviderMoves
<1>3. CASE SetAddress \/ Authorize
  BY <1>3, SetMoves
<1>4. CASE InitializeOnce
  BY <1>4, InitializeMoves
<1>5. CASE SetImpl
  BY <1>5, ImplMoves
<1>6. CASE BatchInitReserve
  BY <1>6, BatchMoves
<1>7. CASE ConfigureReserves
  BY <1>7, ConfigureMoves
<1>8. CASE \/ CollectReserves \/ Throw \/ Crash \/ RunStage \/ Operate \/ Deposit
           \/ UNCHANGED vars
  BY <1>8, OtherMoves
<1> QED
  BY <1>1, <1>2, <1>3, <1>4, <1>5, <1>6, <1>7, <1>8 DEF Next, Step

\* Before anything is deployed there is no market.
LEMMA InitMarket == ASSUME Init PROVE TheMarket!Init
<1>1. db = [id \in Ids |-> 0] /\ next = 1 /\ Provider \in Ids
  BY DeploymentNames DEF Init, Contracts
<1>2. db[Provider] = 0
  BY <1>1
<1>3. livePool = {} /\ \A field : ~holds(field) /\ found(field) = {}
  BY <1>2 DEF livePool, holds, found
<1>4. theRevision = 0 /\ theListed = {} /\ theBorrowable = {}
  BY <1>3, NoPoolShown
<1>5. isPriced = FALSE /\ theRated = {} /\ isGoverned = FALSE /\ isOpen = FALSE
  BY <1>1, <1>3 DEF isPriced, theRated, isGoverned, isOpen, Launched
<1> QED
  BY <1>4, <1>5
     DEF TheMarket!Init, theRevision, theListed, theBorrowable, isPriced, theRated, isGoverned, isOpen,
         anyOf

\* Whatever steps the tasks die at and whatever is operated afterwards, what the deployment shows is a
\* market: its revision only grows, nothing is listed but by the deployer as the pool admin, nothing
\* can be borrowed before it is listed, the price oracle the market finds has its sources and the rate
\* oracle it finds has the rate the configuration has for it, if it has one; it opens with every
\* reserve configured and the admin returned, and once open it is not given up.
THEOREM LaunchImplementsMarket ==
    ASSUME LaunchConfigured
    PROVE  Spec => ImplementsMarket
<1>1. Init => TheMarket!Init
  BY InitMarket
<1>2. Whole /\ Directed /\ [Next]_vars => [TheMarket!Next]_(TheMarket!vars)
  BY LaunchConfigured, NextMoves, MovesMarket
<1> QED
  BY <1>1, <1>2, WholeInvariant, AlwaysDirected, PTL DEF Spec, ImplementsMarket, TheMarket!Spec
=============================================================================
