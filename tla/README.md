# Palmy protocol: TLA+ models, checks and proofs

The Palmy protocol is a pool of lent assets on an EVM chain, derived from Aave
v2: users deposit an asset and receive lTokens, borrow other assets at a stable
or a variable rate against what they deposited, and are liquidated when their
collateral no longer covers their debt. This directory holds TLA+ modules that
model the pool, its administration and its gateway for the native currency, the
scripts that deploy a market and the reference the scenario tests compare the
contracts with; TLC configurations that check them on small instances; and TLAPS
proofs for every instance. `PROJECT.json` maps every definition to the Solidity
or TypeScript it translates, and lists runs, hazards, findings and theorems.

    tlc -workers 2 -config MCInterest.cfg MCLendingPool     # a run
    tlapm LendingPoolProofs.tla                             # the proofs

There are four parts, each of which can be read on its own after the first:

1. the **pool** and its tokens, with the admins who change its settings;
2. the **gateway**, on top of the pool;
3. the **deployment**: the hardhat tasks, the file they keep and the contracts'
   guards on their transactions;
4. the **scenario tests**: the reference calculations, beside the pool.

## 1. Inventory

| Component | State | Operations | Correct when |
|---|---|---|---|
| `LendingPool`, `LendingPoolStorage` | reserves, users' flags, pause | deposit, withdraw, borrow, repay, swapBorrowRateMode, rebalanceStableBorrowRate, setUserUseReserveAsCollateral, liquidationCall, flashLoan, finalizeTransfer, initReserve | flags agree with debts; nobody loses what was shown to them; whoever can pay can leave; nobody takes away collateral that supports a debt |
| `LendingPoolCollateralManager` | the pool's (delegatecall) | liquidationCall | an unhealthy account can always be liquidated, and the reserves stay covered |
| `ReserveLogic` | indexes, rates and clock of a reserve | updateState, cumulateToLiquidityIndex, updateInterestRates | indexes never fall; interest shown is the interest booked; claims and debts grow alike |
| `GenericLogic`, `ValidationLogic`, `Helpers` | none | health factor, guards of every operation | the guard refuses what would leave an unhealthy account |
| `LToken`, `StableDebtToken`, `VariableDebtToken`, `DebtTokenBase` | balances, supplies, average rate, credit allowances | mint, burn, transfer, approveDelegation, permit | supplies are sums of balances; debt needs consent |
| `DefaultReserveInterestRateStrategy` | none (immutables) | calculateInterestRates | rates are defined for every utilisation |
| `WadRayMath`, `PercentageMath`, `MathUtils` | none | fixed-point arithmetic, rounding half up | roundings compose without locking a position |
| `LendingPoolConfigurator` | none (writes the pool's) | freeze, activate, collateral parameters, reserve factor, strategy, pause, batchInitReserve, updates of token implementations | a change never traps users; a frozen reserve only shrinks; a paused pool stands still |
| `ReserveConfiguration`, `UserConfiguration` | bitmaps | getters and setters | fields do not overlap |
| `LendingPoolAddressesProvider(Registry)`, proxies, `VersionedInitializable` | addresses, revisions | setters, creation and upgrade of proxies | an initializer runs once per revision, whatever the order of upgrades |
| `LendingPoolV4`, `LendingPoolTmp` | the pool's | initReserve under another revision | ids and list of the reserves stay a bijection |
| `PalmyOracle`, fallback, Chainsight adapter | price sources | getAssetPrice | no stale or zero price is used; an outage locks nobody in who needs no valuation |
| `WETHGateway` | none | depositETH, withdrawETH, repayETH, borrowETH, emergencyTokenTransfer, emergencyEtherTransfer | a call through the pool leaves it what it held; it owes nothing; only the caller pays; it agrees with the pool on what is paid |
| `StableAndVariableTokensHelper`, `LTokensAndRatesHelper` | an owner, references | initialize once, configureReserves, setOracleBorrowRates | are admin or owner only while they work |
| Deployment tasks (`tasks/`, `helpers/`) | `deployed-contracts.json`, files of call data | stages 1 to 3, list-token, new pool revisions | a task that dies anywhere can be run again, and a market comes up whose contracts refer to each other |
| Scenario tests (`test-suites/test-palmy/`) | data read before and after | the actions of a story, the expected data | what is expected of the contracts is what they answer |
| Data providers, incentives, delegation-aware lToken, other scripts and tests, vendored code | none here | views, forwarding, printing | section 5 |

**How they interact.** Every user operation enters the pool, which reads its
storage, calls the tokens of one or two reserves, the rate strategy and the
oracles, and moves the underlying between a wallet and the lToken contract. A
transfer of lTokens enters through the lToken, which calls back
`finalizeTransfer`. The collateral manager runs inside the pool's storage. The
configurator writes a reserve's configuration without touching the reserve. The
gateway wraps and unwraps the native currency around calls of the pool in which
it is the payer or the receiver. The scripts send one transaction after another
and learn addresses from receipts, which they write to a file, from that file,
and from the provider. A scenario test reads the pool through the data provider,
sends a transaction and reads again.

**What is hard.** A transaction is atomic, so two users never interleave inside
an operation, with one exception: `flashLoan` calls a receiver that anybody
writes, there is no reentrancy guard, and every operation of the pool may happen
while the liquidity is out and the interest rates do not know it. The rest of
the difficulty is in sequences of legal calls over state that is kept several
times: interest that the views compound and the storage books later; flags
derived from balances read before an accrual; scaled balances, their supplies
and amounts that round on their own; a stable supply that compounds apart from
the debts it sums; settings that change under live positions. A deployment is
not atomic at all: a contract is on chain before it is in the file, a task may
die in between, and some contracts can be initialized only once, so that a
second attempt mixes old contracts with new ones. A test reads its data at
another block than the one its transaction ends up in. The hazards are listed
with their lines in `PROJECT.json`.

## 2. Modules

    WadRayMath  <-  InterestRateStrategy, Tokenization  <-  ReserveLogic
      <-  LendingPoolStorage  <-  GenericLogic  <-  ValidationLogic
      <-  LendingPool  <-  LendingPoolProperties  <-  LendingPoolConfigurator
    LendingPoolProperties  <-  WETHGateway
    WadRayMath  <-  Calculations  <-  ExpectedData, with LendingPool  <-  Scenario
    Market, Deployment  <-  DeploymentProperties
    MCLendingPool, MCConfigurator, MCGateway, MCScenario, MCDeployment: instances
    WadRayMathProofs, SumProofs  <-  ReserveProofs  <-  LendingPoolProofs
    LendingPoolConfigurator, LendingPoolProofs  <-  ConfiguratorProofs  <-  ExitProofs
    WETHGateway, ExitProofs  <-  GatewayProofs
    DeploymentProperties, SumProofs  <-  DeploymentProofs

| Module | Models |
|---|---|
| `WadRayMath` | rays, wads, percentages, linear and compounded interest; the scale (`RAY`, `WAD`, `SECONDS_PER_YEAR`) is a parameter, every rounding is the code's |
| `InterestRateStrategy` | `calculateInterestRates` with its kink, and the overall borrow rate |
| `Tokenization` | the lToken and both debt tokens of a reserve: scaled balances and supplies, the stable token's per-user rate and timestamp, average rate, and what `burn` does with accumulation errors |
| `ReserveLogic` | normalized income and debt, `updateState` with the treasury's share, the premium of a flash loan, `updateInterestRates` |
| `LendingPoolStorage` | the variables; the bitmaps as the record and the sets they encode |
| `GenericLogic` | collateral, debt, average threshold and health factor of an account; `balanceDecreaseAllowed`; which prices they ask for |
| `ValidationLogic` | every `validate...` |
| `LendingPool` | one action per operation, `Init`, `Next`, `Spec` |
| `LendingPoolProperties` | the properties of the pool |
| `LendingPoolConfigurator` | the admins' actions, `ConfiguredSpec`, and the properties of the composition |
| `WETHGateway` | native balances, WETH9, allowances of lTokens, each call of the gateway as the sequence of the calls it makes, other contracts named as the pool, what is sent to the gateway and the owner's transfers; its properties |
| `Deployment` | the tasks as scripts of steps, with the guards of the contracts; the file, the chain, crashes and errors |
| `Market` | the abstract specification of what the scripts promise |
| `DeploymentProperties` | types, wiring, the refinement of `Market`, liveness |
| `Calculations`, `ExpectedData` | `calculations.ts` and its BigNumber arithmetic, function by function |
| `Scenario` | `actions.ts` and `scenario-engine.ts`: read, send, read, compare |

**Correspondence.** `reserves[a]` is one record, a market, with the storage of
the reserve of asset `a` (`ReserveData`), the state of its three tokens (`l`,
`lSupply`; `v`, `vSupply`; `s`, `sRate`, `sTs`, `sSupply`, `sAvg`, `sSupplyTs`)
and the underlying the lToken holds (`avail`). An operator that changes a token
or a reserve maps a market to a market, so an operation is the composition, in
the code's order, of the calls it makes. Each operation has a guard `...OK`, the
conjunction of every condition under which some call of it would revert
(validation, SafeMath underflow, division by zero, 128-bit bounds, missing
funds), and a revert is the absence of the step. The guards are also what the
properties of the form "this call does not revert" speak of.

**Flash loans** are the only non-atomic operation. `flash` is the stack of loans
in flight; each frame goes through the phases `lending` (loan by loan),
`callback` and `settling` (loan by loan), and only in the phase `callback` of the
innermost frame may other operations happen, another flash loan included. The
receiver may send anything in between, so its code is every behaviour of the
model. A flash loan that reverts is one that is never settled: its steps lead to
states that do not exist after the revert, but the properties hold there too.
Prices, market rates, time and the admins move only between transactions
(`flash = <<>>`).

**Environment.** `Tick` advances time by a year, `setAssetPrice` and
`setMarketBorrowRate` stand for the oracles. `getAssetPrice` reverts rather than
answer a stale or a missing price; such an outage is a price of 0, which
`setAssetPrice` may set like any other. `priced` and `accountPriced` say whose
price an operation asks for, in the places where the code does:
`balanceDecreaseAllowed` returns before it values the account of a user without
debt. `donate` sends underlying straight
to the lToken contract. Users' funds are in `wallet`; the ERC20 of the
underlying is external and only moves amounts, and its allowance to the pool is
assumed given. A contract as an account is an account.

**Abstractions.** `MaxUint` stands for `type(uint256).max` in its role as "all
of it"; overflows of 256 bits are not modelled (with real scales they need
balances beyond any supply). 128-bit bounds of indexes and rates are kept as
guards. Events, revert strings, referral codes and incentives hooks are left
out.

**The gateway.** A call of the gateway is one transaction that calls the pool,
the lToken and WETH9 in turn; `call` is what is left of it, and nothing else
happens until it is `idle` again. As with flash loans, a call that reverts is
one that is never finished. The native currency is sent last, so that a receiver
who calls back finds everything else done. `authorizeLendingPool` is assumed to
have been called; `approve` is that of the lToken for the gateway.

The lending pool is an argument of every call: `Pool`, or one of `OtherPools`. The
gateway asks whatever contract it is for its lToken and debt tokens, and believes
the answers: another contract may take the WETH a deposit or a repayment wraps or
leave it (`otherTakes`), pay out what a withdrawal or a loan asks for or not
(`otherPays`), name this lToken or one that moves nothing, and show any debt. The
gateway then refunds or unwraps what the call says from whatever it has. What
other contracts do besides moving WETH, such as a call back, is left out; so is a
pool with another list of reserves, whose tokens nobody here holds.

The gateway comes to hold something outside its calls too: anybody may send it
WETH or another asset, native currency by a selfdestruct (`sendToGateway`; its
`receive()` takes it from WETH only) or before it was deployed (`GatewayInit`),
lTokens by a transfer or by a deposit on its behalf (`poolStep`). Its owner sends such tokens on
(`emergencyTokenTransfer`, `emergencyEtherTransfer`). What its code cannot do is
call the pool by itself, so it is none of the `People` who may. A withdrawal of
exactly `type(uint256).max` lTokens, which no supply has, is excluded in
`withdrawETH`: the pool would read the amount as "all of it".

**The deployment.** `script` is what the running task has left to do, one step
per transaction or export of call data; `stages` are the three launch tasks
(libraries; contracts; initialization, which runs six tasks in order), and
`listToken`, `newLendingPoolTask` and `setImpl` the operations on a launched
market. `accepted` is the guard of the contract a step calls: owners, admins,
one-time initializers, revisions, whether a reserve is listed or, to disable it
as collateral, empty. A step that is not accepted is an error (`Throw`) and ends
the task; `Crash` ends it anywhere. What survives is `files` (call data and
`deployed-contracts.json`) and `chain`. An address is the name of a contract and
the number of its instance, so that contracts of two attempts are told apart;
`db` says which instance a name of the file stands for. Deploying is two steps,
`DeployToOasysTestnet` and `RegisterContractAddress`. The tasks are those of the
live flow on a network where the scripts themselves deploy. On `oasys` they
export call data and register the address a factory will give the contract; the
initialization, list-token and upgrade tasks are the same on both. Exporting
call data is one step per task, the transactions sent without `await`
(`batchInitReserve`, `authorizeWETHGateway`, upgrades) are mined at once, a chunk
of 20 rates is one step, and deploying the rate strategies is merged with
`batchInitReserve`.

**The scenario tests.** Every operator of `ExpectedData` is the function of that
name, over integers that divide as BigNumber is configured to. `Scenario`
performs an action of a story on the pool of part 1 with the data read at the
latest block, lets the transaction end up in a later one, reads again and
collects in `mismatch` the fields that differ by more than the tolerance. Only
actions that are expected to succeed are modelled.

## 3. Runs

| Run | Instance | Checks |
|---|---|---|
| `MCInterest` | one asset lent, one as collateral, two users, a treasury, one year may pass | `TypeOK`, `BorrowingFlagged`, `TimestampsOrdered`, `SuppliesAddUp`, `DebtFreeCanExit`, `WholeDebtRepayable`, `IndexesMonotone`, `DepositsNeverShrink`, `DebtNeverForgiven`, `DustPerStep` |
| `MCLiquidation` | two interest-free reserves with other thresholds, bonuses and decimals, a debt price that moves | `Solvent`, `UnhealthyLiquidatable` |
| `MCHealth` | a loan against two collaterals with different thresholds, one of them so valuable that a basis point of it is worth more than a deposit of the other; no lapse of time | `HealthPreserved` |
| `MCGateway` | one asset, a borrower who delegates to the gateway in both modes, a second user, another contract named as the pool, four calls or gifts, transfers by the owner, one year may pass | `GatewayKeepsNothing`, `CallsGoThrough`, `DebtConsented`, `CallerPays` |
| `MCFlash` | flash loans nested two deep or of two loans in a call, deposits, loans, transfers and withdrawals in the callbacks | `DustPerStep`, `DepositsNeverShrink` |
| `MCConfigurator` | the admins change a live reserve, and its price goes missing, at any point | `DebtFreeCanExit`, `WholeDebtRepayable`, `FrozenOnlyShrinks`, `PausedStandsStill`, `BonusCovered` |
| `MCScenario` | stories of up to six of the tests' actions, a lender, a borrower and a delegatee; blocks and years pass between reading and sending | `AsExpected` |
| `MCDeployment` | the launch of `6_misc.ts` (WETH, WOAS, WBTC, MCHC) with two crashes and with users who deposit MCHC before it is configured; four operations after a launch without a crash | `TypeOK`, `NoDanglingReference`, `OneMarket`, `ReservesListed`, `RevisionsGrow`, `ImplementsMarket`, `MarketComesUp` |

What the properties say, beyond their names:

- `BorrowingFlagged`: a debt without its flag is invisible to every health
  check. `repay` clears the flag from debts it read before the accrual, and a
  liquidation never clears it.
- `DepositsNeverShrink`, `DebtNeverForgiven`: what `balanceOf` showed is what a
  later accrual books, whoever triggers it and whatever rates were set between.
- `Solvent`: the depositors' claims and the treasury's pending share are covered
  by liquidity, debts and flash loans in flight. It is exact without interest,
  and proved for that case.
  With interest, claims and debts round independently, so `DustPerStep` bounds
  what one step may add to the gap by `Dust` units.
- `DebtFreeCanExit`, `WholeDebtRepayable`, `UnhealthyLiquidatable`: the call
  that must work does not revert. They are invariants over the guards, so no
  fairness is needed. With outages of the oracle the first two also say that a
  repayment, and the withdrawal of a user without debt, ask for no price; a
  liquidation needs the prices of the account it values, which
  `UnhealthyLiquidatable` takes as given.
- `HealthPreserved` is about the support of a debt: the collateral, each asset at
  its own threshold, pays for it (`supported`). What the pool calls healthy is less
  stable. `calculateUserAccountData` floors the average threshold to a basis point,
  so who adds collateral with another threshold changes what is rounded away, and
  may make a healthy account liquidatable: with a debt of 8000 against 10000 at a
  threshold of 80%, one more unit at 60%, deposited on behalf of the borrower or
  sent as an lToken by anybody, makes the average 79.99% and the health factor less
  than 1. Many such steps take away no more than one, less than a basis point of
  the collateral, since each of them leaves the support what it was or more. The
  other way is guarded: with the health check in place no withdrawal, transfer,
  change of collateral or loan leaves a debt without support, beyond the `Dust` of
  the conversion to the price's currency. That this bound is needed, and that
  "a healthy account stays healthy" is false, TLC finds in the same run.
- `BonusCovered` holds up to the rounding of the loan (`Dust`) and for variable
  loans that are paid out.
- `GatewayKeepsNothing`, `CallerPays`: the gateway computes a payback from
  balances it reads, passes `msg.value` to the pool, which computes its own, and
  refunds the difference; lTokens are rounded on their way to the gateway. Whatever
  was sent to it before, a call through the pool leaves it the native currency and
  the lTokens it had (and those of a deposit on its own behalf), and the WETH too,
  but for one case: a `repayETH` with an
  `amount` below both the debt and `msg.value` wraps `amount` and makes the pool
  take `msg.value`, so it takes the rest from WETH that somebody has left there,
  and refunds it. The gateway never owes anything. Of a call through another
  contract nothing is promised but that it costs only its caller.
- `CallsGoThrough` names the cases in which the two must agree: an amount that
  covers the debt or is exactly what is sent, and the withdrawal of a whole
  balance. Outside them the gateway does revert: `repayETH` with an `amount`
  below both the debt and `msg.value` (WETHGateway.sol:111) has nothing to pay the
  rest from unless WETH was left there, and a partial `withdrawETH` may miss a unit
  of rounding once the index is above a ray.
- `DebtConsented`: debt of either kind grows by more than its interest only by a
  call that pays the owner, by the owner's swap of a debt of the other kind, by
  the settlement of a flash loan the owner took, or within the credit the owner
  approved on that very token, which falls by as much; by any mixture of direct
  calls and calls of the gateway. Liquidations and rebalancing, which others call,
  add none.
- `AsExpected` compares what `expectEqual` of the tests compares, index by
  index and balance by balance. It fails if either side is wrong, so it is about
  the contracts as much as about the tests.
- `OneMarket`: after a launch, however often it was restarted, the contracts the
  file names hold each other's addresses and none of an earlier attempt.
  Authorizations only have to include the current contracts: contracts that are
  used again keep those of the abandoned pool, which harms nothing.
- `ImplementsMarket` is the refinement `TheMarket == INSTANCE Market WITH ...`,
  whose mapping reads the market off the provider the file names. It says that
  nothing is borrowable before the provider's own price oracle asks an aggregator
  that has its sources and its own rate oracle has the rate that is configured for
  the reserve (`Quoted`), that reserves are enabled only while the helper is admin
  and the market opens only with every reserve configured and the admin back, and
  that after the opening reserves and revision only grow. MCHC is in the launch but
  not among the configured rates, so the scripts make it borrowable without one; it
  can then be borrowed at the variable rate only, as stable borrowing is off for
  every reserve of the launch. A market that is not open may be abandoned for a new
  one: the step of the file that replaces the provider maps to `Abandon`.
- `MarketComesUp`: whatever steps the tasks die at, running them again leads to
  a launched market, on two conditions. Every reserve of the launch has an address:
  the testnet's configuration has none for MCHC (`markets/palmy/index.ts:38-43`),
  which the launch includes, so `6_misc.ts:60-62` throws in every attempt there.
  And users do not spoil one pool after another (`<>[]~Disturbed`): a reserve is
  active from `batchInitReserve` on, and if somebody deposits MCHC, which is no
  collateral, before `configureReserves`, then `_checkNoLiquidity` reverts this
  attempt and every later one with that pool. The way out is in the scripts: the
  first launch task run again makes a new provider with a new pool.

**Bounds.** A ray is 1000 units, a wad 100, a year one time unit: a year's
interest is visible on balances of a few units, and every division rounds, which
real scales hide for billions of steps. Amounts are a single deposit or loan
size plus `MaxUint`, which with accrual, transfers and partial repayments gives
balances that are not multiples of it. `MaxTime` = 2 lets one year pass (time
starts at 1) after any prefix of operations and before any suffix; longer lapses
repeat the same accrual. `MCHealth` has a ray and a wad of ten thousand and prices
of 10000, 8000 and 2, so that the floor to a basis point shows: two units of the
first collateral are worth 20000, a basis point of which is the price of one unit of
the third asset. The `CONSTRAINT`s (`Roles`, `LiquidationRoles`,
`OneBorrower`, `NestedRoles`, `GatewayRoles`, `AdminRoles`, `StableRoles`) assign
users their parts so that the two-user instances finish: u1 borrows and u2
lends, or u1 takes flash loans and u2 only holds lTokens, or u1 delegates to the
gateway and u2 deposits or repays for it, or one user meets the admins, and at
most one setting differs from the deployed ones or the price is missing. `MAX_STABLE_RATE_BORROW_SIZE_PERCENT`
and `FLASHLOAN_PREMIUM_TOTAL` are larger than the deployed 2500 and 9 basis
points so that small loans have stable room and a premium of at least a unit.
`MaxUint128` doubles as the bound on how often premiums may raise an index.
`MaxCalls` = 4 bounds the calls of the gateway and the gifts to it together: a
deposit, a loan, a repayment and a withdrawal, or a gift in the place of any of
them, with steps at the pool between them. The gateway has a unit of native
currency throughout, and up to a deposit of WETH and lTokens; another contract is
named as the pool only in the first call, after which what it left or paid out has
to be what was there before (`BetweenCalls`), which bounds the currency there is.

`MCScenario` takes a ray of ten thousand and a wad of one thousand, with amounts
below a ray, as the amounts of the stories are in the contracts: the rounding
differences then stay within the 3 units `almostEqualOrEqual` tolerates.
`MaxActions` = 6 is the length of the stories that matter (deposits, a loan, a
change, a repayment, a withdrawal); `Latency` = 1 and `MaxTime` = 3 let a block
pass between reading and sending, and the story travel in time.

In `MCDeployment` the k-th crash happens in a stage of `CrashIn` before a step of
a kind in `CrashAt`. A first crash among the libraries or in the initialization
and a second among the contracts mix two attempts: the crash in between
deployment and registration leaves an orphan, and the one in the initialization
leaves contracts that cannot be initialized again. `MaxInstances` = 5 is enough for
every restart: were a deployment ever held up by it, `MarketComesUp` would fail.
Operations happen only in
histories without crashes. `Deposits` says whose first deposits are of interest in
the k-th pool that is created: MCHC's in the first one, so that a deposit spoils an
attempt and the next one has a new pool. `Launch` and the tokens are those of the
mainnet, the rates the keys of `LendingRateOracleRatesCommon`. `MCListing` takes what matters of the configuration of `oasys`, in which
MCHC has a token.

**Deadlock and fairness.** Deadlock checking is off: an idle pool or a launched
market is no error, and with bounded time and wallets a behaviour may have
nothing left to do. No fairness is assumed and no liveness is claimed of pool,
gateway and tests: every step is a transaction that somebody chooses to send.
The deployment assumes `WF_vars(Step) /\ WF_vars(RunStage)`: the process of a
task runs on until it ends or dies, and the operator runs the next stage when
one has ended. Nothing is assumed of crashes, operations and deposits, so they
may happen or not; crashes are finitely many.

Each property has a mutant in each run that checks it, a plausible mistake in
one definition, and TLC finds the property violated with it. Examples: accruing
the variable index at the stable rate, settling a batch of flash loans after its
last one, validating a transfer before it happened, valuing an account that has
no debt, repaying the scaled debt in the gateway, registering the predicted
address of a contract instead of the one in the receipt, setting the market
rate of the first reserve only. The mutated definitions stand in the modules, marked as such.

### Findings

| Run | Shows |
|---|---|
| `MCReserveFactor` | With a reserve factor of 100%, which `setReserveFactor` accepts, the liquidity rate is 0 and `_updateIndexes` books no variable interest although `balanceOf` compounds it; `repay(type(uint256).max)` then burns more than the scaled debt and reverts, against the comment of `repay`. |
| `MCDeactivate` | `_checkNoLiquidity` looks at liquidity and rate, so a fully lent reserve with a zero rate can be deactivated or disabled as collateral under its depositors, against the comment in `configureReserveAsCollateral`. |
| `MCStableSupply` | The supply of the stable debt token, which compounds at the average rate, is set to zero when a user with a rate well above the average repays or swaps, although another user still owes: `burn` takes this for the last repayment. `specs/StableDebtToken.spec` states that the supply is the sum of the balances. |
| `MCListing` | `list-token` lends the pool admin to `LTokensAndRatesHelper` for the transaction that configures the reserve. For a reserve that is no collateral (MCHC) that transaction reverts if somebody has deposited since the reserve was listed; then the task ends and the helper stays the admin, against the comments "temporal admin" and "deployer back as admin" of `init-helpers.ts`. |

The first two need settings no deployed market has (factors are 10% to 20%;
`setReserveFactor` accepts all that fits in 16 bits, up to 65535 basis points).

A difference between tests and contracts that is not a run: the reference gives
a user after a variable loan the scaled debt of the whole reserve
(`calculations.ts:634`), which is right for the first variable borrower only.
`MCScenario` therefore has one at a time, as the stories do. The guard `covered`
of `Scenario` keeps clear of the other cases the stories never meet and the
reference does not get right: paying back more than the debt, a variable
repayment by a user with stable debt, a deposit by a debtor of the asset,
rebalancing among several stable borrowers, and three actions whose reference
takes values from before the transaction when time passes until it.

## 4. Proofs

### The pool

`LendingPoolProofs` proves, for every finite set of users and of assets, every scale,
initial configuration, price, rate, amount and depth of flash loans:

| Theorem | Statement |
|---|---|
| `TypeCorrect` | `Spec => []TypeOK` |
| `DebtsFlagged` | `Spec => []BorrowingFlagged` |
| `Timestamps` | `Spec => []TimestampsOrdered` |
| `Supplies` | `Spec => []SuppliesAddUp` |
| `Indexes` | `Spec => IndexesMonotone` |
| `DebtsTaken` | `Spec => DebtConsented` |
| `DepositsKept` | `Spec => DepositsNeverShrink` |

The prices in these theorems may be 0, that is missing, at any time. All seven
come from one inductive invariant,

    Inv == TypeOK /\ ReservesGood /\ FramesOK /\ BorrowingFlagged

- `ReservesGood`: indexes are at least one ray, so the divisions by them are
  defined and round as needed; the timestamps are ordered, so every lapse of time
  is a natural number; and the supplies are the sums of the balances (`addsUp`).
  Types alone are not inductive: an accrual over a negative lapse would leave the
  naturals.
- `FramesOK`: the innermost flash loan stands at one of its loans, so settling
  reads a loan that exists.
- `BorrowingFlagged` needs the rest in `repay`. The heart of it is the lemma
  `RayDivOfRayMul`: for an index `down` that is at least a ray and at most `up`,
  `a <= rayDiv(rayMul(a, up), down)`. Paying the debt shown before the accrual
  (at the index `up`) therefore burns the whole scaled debt after it, and what
  `burn` accepts is exactly all of it. `WholeVariableDebt` applies it to a
  reserve, `ShownIsFlagged` says that a debt of zero shown is a debt of zero
  stored, since indexes of a ray or more do not round a debt away.

The argument goes bottom up. `WadRayMathProofs`: what the arithmetic returns and
bounds, that interest is at least the principal, that rounding undoes itself.
`SumProofs`: sums over a finite set. `SumFunction` is a recursive function on
subsets; that it has a solution, and what one changed element does to it, goes by
induction on subsets (`SubsetInduction`), stated with a set of sets in the place
of a predicate. `ReserveProofs`: each operator on a market keeps it in good order
(`Good`, and `Accrued` once it is up to the block), says which debts it touches
(`sameDebts`, `othersDebts`) and takes nothing from a depositor (`grows`: no index
is lowered, and neither is the income shown). `LendingPoolProofs`: one lemma per
action composes these; three lemmas (`QuietStep`, `DebtStep`, `FlagsStep`) turn
what an action did to one reserve into the invariant, and `ReachedStep` does so
for a liquidation, which updates two reserves that may be the same.

The two action properties are guarantees of every step from a state with `Inv`,
proved along with it. `DebtsConsented` needs that of all the operations only a
loan, a swap and a settled flash loan mint debt, each of them to one user whose
`Consent` the same call shows, that minting a debt of one kind leaves the other
alone, and that a rebalancing mints exactly the debt it burnt. A liquidation may
write the debt reserve twice, when that is the collateral's too, and adds debt
neither time.
`ReservesGrow` needs that the factor by which `updateState` raises the liquidity
index is the one `getNormalizedIncome` shows (`NewIndexes`, with the cases in
which the code skips the multiplication), that a rate is only set on a reserve
updated in the same block, where the income shown is the index itself
(`AccruedGrows`), and that a transfer or a donation, which do not accrue, leave
rate and clock alone (`SameRateGrows`).

### The pool with its admins

`ConfiguratorProofs` takes this over to the pool together with its admins, who
may act between any two transactions:

| Theorem | Statement |
|---|---|
| `ConfiguredTypeCorrect` | `ConfiguredSpec => []TypeOK` |
| `ConfiguredDebtsFlagged` | `ConfiguredSpec => []BorrowingFlagged` |
| `ConfiguredSupplies` | `ConfiguredSpec => []SuppliesAddUp` |
| `ConfiguredDebtsTaken` | `ConfiguredSpec => DebtConsented` |
| `ConfiguredDepositsKept` | `ConfiguredSpec => DepositsNeverShrink` |
| `PauseStopsAll` | `ConfiguredSpec => PausedStandsStill` |
| `FreezeHolds` | `ConfiguredSpec => FrozenOnlyShrinks` |

Of the settings `Inv` says no more than their types, so an admin preserves it
(`AdminInv`), and none of the lemmas about operations looks at a value of a
setting. The pause needs one conjunct more, `PausedIdle`: a paused pool has no
flash loan in flight. Lending and settling the loans of a flash loan do not look
at the pause, so without it they would move balances of a paused pool.

`FreezeHolds` has one lemma per action too (`FrozenShrinks`). A freeze does not
stop everything that mints: `rebalanceStableBorrowRate` mints stable debt in a
frozen reserve, but no more than the debt with interest that it has just burnt; a
swap, a repayment or a liquidation accrues and mints to the treasury, but only
once per step, even when collateral and debt of the liquidation are the same
reserve; and the loan that a settled flash loan becomes goes through
`validateBorrow`, which does look at the freeze.

### Leaving

`ExitProofs` is about the calls that must not revert, for the pool alone and with
its admins:

| Theorem | Statement |
|---|---|
| `FreeToLeave` | `Spec => [](IndexesFit /\ RatesFit => DebtFreeCanExit)` |
| `DebtsRepayable` | `Spec => [](IndexesFit /\ RatesFit /\ AveragesFit /\ WalletsFit /\ Earning => WholeDebtRepayable)` |
| `DebtsNotForgiven` | `Spec /\ []Earning => DebtNeverForgiven` |
| `UnhealthyAccountsLiquidatable` | `Spec /\ BonusesPaid => [](IndexesFit /\ RatesFit /\ PartAveragesFit /\ WalletsFit /\ Earning /\ Burnable => UnhealthyLiquidatable)` |
| `ConfiguredFreeToLeave`, `ConfiguredDebtsRepayable`, `ConfiguredDebtsNotForgiven`, `ConfiguredUnhealthyAccountsLiquidatable` | the same of `ConfiguredSpec` |

The properties are no invariants without such conditions:
`IndexesFit`, `RatesFit` and `AveragesFit` are the 128 bits in which indexes, rates
and the average stable rate are stored, at whose bound `updateState` and
`updateInterestRates` revert (and a reserve factor of at most 100%, above which
`PERCENTAGE_FACTOR.sub` does); `WalletsFit` are the 256 bits of a balance;
`Earning`, a liquidity rate above zero in a reserve with variable debt that was
not updated in this block, is what `MCReserveFactor` shows to be needed.
All five hold in every state TLC reaches in `MCInterest` and `MCConfigurator`, so
the theorems say there what the runs check. What is proved is that nothing else is
in the way: the accrual changes no balance of the user for the worse, what is
burnt is exactly the scaled balance or debt (`WholeBalanceBurns`, `WholeVariableBurns`),
no subtraction from a supply underflows because supplies are sums
(`SumBound`), the rates can be recalculated (`RatesGoThrough`), and no price is
read.

A liquidation repays a part of a debt, which asks for more. `PartAveragesFit` is
`AveragesFit` for every part of a stable debt; `Burnable`, a variable index of at
most two rays, makes a unit of variable debt worth a scaled unit, below which
`burn` reverts; `BonusesPaid`, a liquidation bonus above 100% on every collateral,
is what `configureReserveAsCollateral` accepts, so it is asked of the initial
configuration only and shown to last. All of them hold in every state that TLC
reaches in `MCLiquidation`. The proof follows `liquidationCall` in its order:
half of a debt is never nothing (`HalfOf`), what is repaid of the variable and of
the stable debt never exceeds them (`LiquidatedAmounts`), what is seized never
exceeds the collateral, also where the code trims it and recalculates the debt,
and when both are the same reserve the lTokens are moved at the index that the
burning of the debt left.

### Solvency

To leave, a reserve must also have what is claimed of it. `ExitProofs` ends with:

| Theorem | Statement |
|---|---|
| `Solvency` | `Spec /\ []InterestFree => []Solvent` |
| `SolventWithoutInterest` | `Spec => []Solvent`, assuming `FreeTerms` |
| `ConfiguredSolvency`, `ConfiguredSolventWithoutInterest` | the same of `ConfiguredSpec`; the second with only strategies without interest to choose from |

`InterestFree` says of every reserve that both indexes are one ray, the liquidity
rate is zero and the stable debts bear no rate. Then claims and debts are what
was paid in and lent, unrounded, and the invariant is `Covered`: for each asset,
what the reserve holds, plus what it is owed, plus what flash loans in flight owe
(`outstanding`, summed loan by loan over every level of nesting), less what it
owes, is not negative. Each operation has a lemma by which this surplus does not
fall: a deposit, a loan, a repayment, a swap, a rebalancing, a liquidation paid in
underlying or in lTokens (with collateral and debt in the same reserve or in two),
a donation; a flash loan takes out what it then owes, and its premium stays in the
reserve.

`FreeTerms` is about the constants: strategies whose rates are all zero, no market
rate, and no flash loan or no premium on it. The invariant `Calm` shows that a pool
listed on such terms stays without interest, through every operation and every
nested flash loan. The constants of `MCLiquidation` are such terms, so the theorem
has no condition on states there. `Solvency` itself asks for less: a pool on any
terms is without interest until something is borrowed or a flash loan pays a
premium.

With interest the property is false to the unit, since what depositors are shown
and what borrowers owe round on their own: that is why `Solvent` is only checked
on terms without interest and `DustPerStep` elsewhere.

### The gateway

`GatewayProofs` has the theorems of pool and gateway:

| Theorem | Statement |
|---|---|
| `GatewayTypeCorrect` | `GatewaySpec => []TypeOK` |
| `GatewaySupplies` | `GatewaySpec => []SuppliesAddUp` |
| `GatewayDebtsTaken` | `GatewaySpec => DebtConsented` |
| `GatewayDepositsKept` | `GatewaySpec => DepositsNeverShrink` |
| `GatewayEmpty` | `GatewaySpec => GatewayKeepsNothing` |
| `GatewayCallsGoThrough` | `ValuesFit /\ GatewaySpec => [](IndexesFit /\ RatesFit /\ PartAveragesFit /\ Earning /\ Burnable /\ config[WETH].active => CallsGoThrough)` |
| `GatewayCallerPays` | `GatewaySpec => OnlyCallerPays /\ CallerPays` |

The lemmas about the pool's operations hold for any user as the payer, the
receiver or the delegatee, the gateway included. The invariant adds `CallTyped`:
the amounts and accounts a call of the gateway carries from one step to the next
have their types. Wrapping and unwrapping change the gateway's wallet only
(`WalletStep`).

`GatewayEmpty` has no assumption about what was sent to the gateway, by whom, or
through which contract. It rests on `Kept`, which says of each call what the gateway
holds at each of its steps on top of what it held when the call began (`InTransit`:
the wrapped amount until it is deposited or repaid, the lTokens until they are
withdrawn, the amount to unwrap until it is). The held amounts are numbers that
nothing bounds, so the argument is about differences only. That lTokens taken from
the caller are all burnt by the withdrawal needs that both happen in one
transaction, at one index, and that adding and then subtracting the same scaled
amount leaves what was there, whether or not the balance shown rounds. The other
half is `Creditless`: the gateway has no debt, nobody has credit of its own to
borrow on, and no flash loan in flight was started by it. Only its own code could
change that, and its calls borrow on behalf of their sender. That the treasury,
to which accruals mint, is another account is `NewGatewayAssumption`.

`GatewayCallsGoThrough` adds `Ready`: while a call is executed the pool is not
paused and no flash loan is half lent, the payback is still the debt that the
gateway read or what was sent, and a whole balance taken over is the gateway's
whole balance. The pool then does what `ExitProofs` shows of any user, under the
same conditions; `ValuesFit` says that nobody sends `type(uint256).max` of the
native currency, the amount that would stand for a whole debt. They hold in every
state of `MCGateway`. `GatewayCallerPays` needs no condition. It proves more than
the property: `OnlyCallerPays` has no `Dust`, so nobody but the caller loses even
the unit that a rounding could take. Every step is the accrual, which takes
nothing from a position within a block, and then a change that takes tokens from
nobody but the caller and the gateway and adds debt to nobody else (`PositionKept`).

The assumptions of these modules are their named `ASSUME`s: a ray is even,
positive and at least a wad, a year is positive, initial settings have their
types (for a strategy: the optimal utilisation is strictly between zero and one
ray, as its arithmetic requires), users are a finite set (an address has 160
bits) and so are assets (a bitmap has room for 128), the pool is not one of the
other pools, and the gateway is not the treasury. TLC evaluates them in the runs.

### The deployment

`DeploymentProofs` proves, for every launch, set of tokens, number of instances
and operations, and for crashes of any number and at any step:

| Theorem | Statement |
|---|---|
| `DeploymentTypeCorrect` | `Spec => []TypeOK` |
| `NothingDangles` | `Spec => []NoDanglingReference` |
| `OnlyUpgrades` | `Spec => RevisionsGrow` |
| `ListsAgree` | `Spec => []ReservesListed` |
| `LaunchLeavesOneMarket` | `Spec => []OneMarket` |
| `LaunchImplementsMarket` | `Spec => ImplementsMarket`, assuming `LaunchConfigured` |

The first three come from
`Inv == TypeOK /\ NoDanglingReference /\ ProxiesNamed /\ Unrevised`.
The typing of scripts carries the argument: no task is made of a step that
deploys or calls a proxy, or writes a provider's field that holds one, which is
shown once for each task (the `...Typed` lemmas) and stays true as scripts get
shorter. `ProxiesNamed` then says that the provider's fields for proxies hold
proxies of that name, so that an upgrade changes the proxy it means; `Unrevised`
that a proxy not yet created has revision 0, so that its creation is a rise too.

`ListsAgree` adds `PoolsOK`. That ids and list are a bijection is not inductive,
because `_addReserveToList` decides by `id != 0 || _reservesList[0] == asset`
whether an asset is listed: the invariant has to add that an asset that is not
has id 0 (`Orderly`), so that the test is right of every asset (`AlreadyAdded`).
The batch of `batchInitReserve` is a fold over its inputs: `FoldExists` shows that
the fold's recursion has a solution, and `BatchOrderly` that it stays in order, both
by induction on the sets of positions done.

`OneMarket` speaks of the end of a launch, so its invariant has to speak of what is
left to do. `Stands(c)` is a condition on the chain: a contract holds one address,
or one among others, in a field; the pool lists a reserve, or not; enables it, or
not. `Establishes(step, c)` and `Disturbs(step, c)` say what a step does to it, and
each action is shown to do just that (the lemmas `...Stands`). A condition is *due*
at a step of the script if it stands now and no step before disturbs it, or one
before establishes it and none after that one disturbs it. The invariant `Whole`
has, besides `Inv` and `PoolsOK`,

- `Ready`: what a step relies on (`needs`) is due at that step, so that it finds
  what it calls. The transactions that configure reserves call the pool of the
  configurator, which is the provider's only if both were set up together;
- `Launching`: in the initialization everything the launch is to leave
  (`Achieved`) is due at its end. When the script is empty, what is due stands;
- `Running`: on a launched market no operation disturbs what it stands on;
- `Shaped`: the steps are those of their stage, none writes a source or a rate
  outside the steps for that, and fields for oracles are given oracles;
- `Sound`: a provider has one proxy of a name, that proxy belongs to the provider,
  and a configurator's pool is its provider's; a provider that is not in the file
  yet is empty (`Fresh`); pools not yet created list nothing (`Pristine`).

A crash or an error leaves an empty script, and `Launching` asks nothing of one. When a
task starts, its script is taken apart: each of the 26 steps of the initialization
is shown to keep what the ones before it have established (`EachPlaced`,
`EarlyLasts`, `MiddleLasts`, `LateLasts`). `collect`, which turns into the steps
that configure what it found, is replaced by steps that do what was due of it.

`LaunchImplementsMarket` shows of each action which step of `Market` it is
(`Moves`): creating or upgrading the pool installs a revision that is higher,
`batchInitReserve` goes through only with the deployer as the pool admin, and
`configure` only with the helper in its place and, since `Ready` says so, with
sources and rates set and the reserves listed; registering a new provider abandons the
market, and happens in a stage in which it is not open; the last step of the
initialization opens it with `Achieved` done. `LaunchConfigured`
says that the configuration names at least one reserve and skips none with an LTV of
-1, as those of reservesConfigs.ts do; a skipped reserve would be listed in an open
market and not borrowable.

What the provider's oracle *has* is read through two references, so the refinement
needs in addition that a field for an oracle holds an oracle (`Directed`, an
invariant by `AlwaysDirected`), that sources and rates are never taken back
(`pricesStay`, `pricesGrow`), and, as conditions that steps rely on and establish,
that the adapter has its source, the oracle its adapter and the rate oracle each
configured rate (`SourceSet`, `AggregatorSet`, `RatesSet`).

Otherwise the assumptions are the type of the constants, `DeploymentAssumption`, and
that tokens have other addresses than the contracts, `TokenAssumption`. TLC
finds `Whole`, `Directed` and `LaunchConfigured` true in every state of `MCDeployment`.

### Only model-checked

- `DustPerStep`, solvency with interest, which bounds by how much all the claims
  on a reserve and all the debts to it can round apart in one step. The bound
  depends on scales and amounts: a rate is rounded once and then multiplied with
  every balance, so no `Dust` holds for all constants.
- `HealthPreserved` and `BonusCovered`, which compare sums over assets of values
  that round on their own. How much they part depends on the scales; both
  allow for `Dust` units.
- `AsExpected`, which compares the contracts and the reference calculations up to a
  tolerance, with the same dependence on scales.
- `MarketComesUp`, which is liveness under fairness and out of the prover's reach.

## 5. Not modelled

- In the pool's own modules assets start with an initialised reserve; listing
  them, with ids and list, is in `Deployment`. The limit of 128 reserves is not
  modelled: it is far above what an instance can hold.
- The bit encoding of `ReserveConfiguration` and `UserConfiguration`: they are
  the record and the sets they encode.
- Allowances of lTokens other than to the gateway, `permit` and nonces.
- Updates of token implementations (`updateLToken`, ...), which no task calls;
  `removeProvider`, `setAddress` and `setAddressAsProxy`, likewise.
- Who writes prices and when, which is outside this repository, and the choice
  between adapter and fallback: the pool sees a price or a revert, either at any
  time between transactions.
- Calls that a contract named as the pool in a call of the gateway makes in turn.
- The operations of `LendingPoolV4` and `LendingPoolTmp` that are those of
  `LendingPool`. A reserve listed under revision 3 has no indexes; `Deployment`
  has that, and the deposit it refuses.
- The `full:` and `dev:` tasks: they call the contracts with signatures these no
  longer have. Tasks that print, verify or send a single transaction.
- Scenario actions that expect a revert, `mint` and `approve`.
- Data providers, which are views; the delegation-aware lToken, which forwards
  one call; the incentives controller, which is not in this repository.
- Overflow of 256 bits.

## 6. Plan

Done, in this order: arithmetic, tokens and reserve, pool, properties and runs,
configurator, proofs of the inductive invariant; the deployment with its
abstract market, crashes, liveness and proofs; the scenario tests; the gateway;
outages of the oracle; proofs of consent and income, of the pool with its admins
and with the gateway, of supplies, of the freeze, of the exits, of solvency without
interest, of what the gateway keeps and of the lists of reserves; proofs of
liquidations, of the calls of the gateway and who pays for them, of the one market
a launch leaves and of the refinement of `Market`.

1. `DustPerStep` with a bound computed from scales and amounts in the place of the
   constant: the argument of `Solvency` with what each operation rounds.
2. The bitmaps as numbers, shown to implement the sets and records of
   `LendingPoolStorage`.
3. The oracles: adapter, fallback and staleness; `permit` with nonces and
   deadlines.
