------------------------------ MODULE Scenario ------------------------------
(***************************************************************************)
(* The scenario tests of test-suites/test-palmy: scenario-engine.ts runs   *)
(* the actions of a story on the pool; actions.ts reads the reserve and    *)
(* the user, sends the transaction, reads them again and compares what is  *)
(* read with what calculations.ts expects.                                 *)
(*                                                                         *)
(* The pool is the one of LendingPool.tla. Data read before an action is   *)
(* read at the latest block, so time may go by between that block and the  *)
(* one that holds the transaction. A story may travel in time between a    *)
(* loan and the reading of the data afterwards.                            *)
(***************************************************************************)
EXTENDS LendingPool, ExpectedData

CONSTANTS
    Actions,    \* actions of the stories that are told
    Tolerance,  \* difference almostEqualOrEqual accepts: 3 in the code
    Latency,    \* bound on the time from a block to the next transaction
    MaxActions  \* bound on the actions of a story

ASSUME ScenarioAssumption == {Tolerance, Latency, MaxActions} \subseteq Nat

VARIABLES
    block,    \* timestamp of the latest block
    told,     \* number of actions told
    mismatch  \* fields of the last action that were not as expected

scenarioVars == <<vars, block, told, mismatch>>

-----------------------------------------------------------------------------
(* Reading                                                                 *)

\* getReserveData() of helpers.ts over that of PalmyProtocolDataProvider.
getReserveData(m, marketRate, time) ==
    LET stableDebt   == sTotalSupply(m, time)
        variableDebt == vTotalSupply(m, time)
        totalLiquidity == m.avail + stableDebt + variableDebt
    IN  [ totalLiquidity          |-> totalLiquidity,
          utilizationRate         |-> IF totalLiquidity = 0 THEN 0
                                      ELSE bnRayDiv(stableDebt + variableDebt,
                                                    totalLiquidity),
          availableLiquidity      |-> m.avail,
          totalStableDebt         |-> stableDebt,
          totalVariableDebt       |-> variableDebt,
          liquidityRate           |-> m.currentLiquidityRate,
          variableBorrowRate      |-> m.currentVariableBorrowRate,
          stableBorrowRate        |-> m.currentStableBorrowRate,
          averageStableBorrowRate |-> m.sAvg,
          liquidityIndex          |-> m.liquidityIndex,
          variableBorrowIndex     |-> m.variableBorrowIndex,
          lastUpdateTimestamp     |-> m.lastUpdateTimestamp,
          totalStableDebtLastUpdated |-> m.sSupplyTs,
          principalStableDebt     |-> m.sSupply,
          scaledVariableDebt      |-> m.vSupply,
          marketStableRate        |-> marketRate ]

\* getUserData() of helpers.ts; the wallet is the one of the sender, if given.
getUserData(m, user, usage, walletBalance, time) ==
    [ scaledLTokenBalance      |-> m.l[user],
      currentLTokenBalance     |-> lBalanceOf(m, user, time),
      currentStableDebt        |-> sBalanceOf(m, user, time),
      currentVariableDebt      |-> vBalanceOf(m, user, time),
      principalStableDebt      |-> m.s[user],
      scaledVariableDebt       |-> m.v[user],
      stableBorrowRate         |-> m.sRate[user],
      liquidityRate            |-> m.currentLiquidityRate,
      usageAsCollateralEnabled |-> usage,
      stableRateLastUpdated    |-> m.sTs[user],
      walletBalance            |-> walletBalance ]

accessoryKeys == {"lastUpdateTimestamp", "marketStableRate", "totalStableDebtLastUpdated"}

exactKeys == {"usageAsCollateralEnabled", "stableRateLastUpdated"}

\* The keys of the actual data that the expected data does not match. The three
\* seconds tolerated on a timestamp are less than the model's unit of time.
almostEqualOrEqual(actual, expected) ==
    {key \in DOMAIN actual \ accessoryKeys :
       IF key \in exactKeys
       THEN actual[key] # expected[key]
       ELSE actual[key] - expected[key] \notin -Tolerance..Tolerance}

reserveDataBefore(asset) == getReserveData(reserves[asset], marketRates[asset], block)

userDataBefore(asset, user, sender) ==
    getUserData(reserves[asset], user, asset \in usersConfig[user].collateral,
                wallet[asset][sender], block)

\* expectEqual() on both, read once more at a block of the given time.
expectEqual(asset, user, sender, expectedReserve, expectedUser, time) ==
    \E reserve \in {getReserveData(reserves'[asset], marketRates'[asset], time)},
       userData \in {getUserData(reserves'[asset], user,
                                asset \in usersConfig'[user].collateral,
                                wallet'[asset][sender], time)} :
      /\ block' = time
      /\ mismatch' = almostEqualOrEqual(reserve, expectedReserve)
                       \cup almostEqualOrEqual(userData, expectedUser)

-----------------------------------------------------------------------------
(* actions.ts: what is read before the transaction, the transaction, and   *)
(* what is expected after it                                               *)

depositAction(asset, amount, sender, onBehalfOf) ==
    \E reserve \in {reserveDataBefore(asset)},
       user \in {userDataBefore(asset, onBehalfOf, sender)} :
      /\ deposit(sender, asset, amount, onBehalfOf)
      /\ \E expected \in {calcExpectedReserveDataAfterDeposit(amount, reserve,
                                                             config[asset], now)} :
           expectEqual(asset, onBehalfOf, sender, expected,
              calcExpectedUserDataAfterDeposit(amount, reserve, expected, user, now), now)

withdrawAction(asset, amount, sender) ==
    \E reserve \in {reserveDataBefore(asset)},
       user \in {userDataBefore(asset, sender, sender)} :
      /\ withdraw(sender, asset, amount, sender)
      /\ \E expected \in {calcExpectedReserveDataAfterWithdraw(amount, reserve, user,
                                                              config[asset], now)} :
           expectEqual(asset, sender, sender, expected,
              calcExpectedUserDataAfterWithdraw(amount, reserve, expected, user, now), now)

\* The story goes on timeTravel after the loan.
borrowAction(asset, amount, mode, sender, onBehalfOf, timeTravel) ==
    \E reserve \in {reserveDataBefore(asset)},
       user \in {userDataBefore(asset, onBehalfOf, sender)},
       current \in {now + timeTravel} :
      /\ current <= MaxTime
      /\ borrow(sender, asset, amount, mode, onBehalfOf)
      /\ \E expected \in {calcExpectedReserveDataAfterBorrow(amount, mode, reserve,
                                                            config[asset], now, current)} :
           expectEqual(asset, onBehalfOf, sender, expected,
              calcExpectedUserDataAfterBorrow(amount, mode, reserve, expected, user,
                                              now, current), current)

repayAction(asset, amount, mode, sender, onBehalfOf) ==
    \E reserve \in {reserveDataBefore(asset)},
       user \in {userDataBefore(asset, onBehalfOf, onBehalfOf)} :
      /\ repay(sender, asset, amount, mode, onBehalfOf)
      /\ \E expected \in {calcExpectedReserveDataAfterRepay(amount, mode, reserve, user,
                                                           config[asset], now)} :
           expectEqual(asset, onBehalfOf, onBehalfOf, expected,
              calcExpectedUserDataAfterRepay(amount, mode, reserve, expected, user,
                                             sender = onBehalfOf, now, now), now)

\* Only the user's data is compared.
setUseAsCollateralAction(asset, sender, useAsCollateral) ==
    \E user \in {userDataBefore(asset, sender, sender)} :
      /\ setUserUseReserveAsCollateral(sender, asset, useAsCollateral)
      /\ expectEqual(asset, sender, sender,
           getReserveData(reserves'[asset], marketRates'[asset], now),
           calcExpectedUserDataAfterSetUseAsCollateral(useAsCollateral, user), now)

swapBorrowRateModeAction(asset, sender, mode) ==
    \E reserve \in {reserveDataBefore(asset)},
       user \in {userDataBefore(asset, sender, sender)} :
      /\ swapBorrowRateMode(sender, asset, mode)
      /\ \E expected \in {calcExpectedReserveDataAfterSwapRateMode(reserve, user, mode,
                                                                  config[asset], now)} :
           expectEqual(asset, sender, sender, expected,
              calcExpectedUserDataAfterSwapRateMode(reserve, expected, user, mode, now), now)

rebalanceStableBorrowRateAction(asset, target) ==
    \E reserve \in {reserveDataBefore(asset)},
       user \in {userDataBefore(asset, target, target)} :
      /\ rebalanceStableBorrowRate(asset, target)
      /\ \E expected \in {calcExpectedReserveDataAfterStableRateRebalance(reserve, user,
                                                                         config[asset], now)} :
           expectEqual(asset, target, target, expected,
              calcExpectedUserDataAfterStableRateRebalance(reserve, expected, user, now), now)

\* The allowance read afterwards is the one delegated.
delegateBorrowAllowanceAction(asset, amount, mode, sender, receiver) ==
    /\ approveDelegation(sender, asset, mode, receiver, amount)
    /\ mismatch' = IF borrowAllowances'[asset][mode][sender][receiver] = amount
                   THEN {} ELSE {"borrowAllowance"}
    /\ block' = now

-----------------------------------------------------------------------------
(* scenario-engine.ts                                                      *)

\* The switch over the name of an action that is expected to succeed.
executeAction(action) ==
    LET asset == action.reserve
        user  == action.user
    IN  \/ /\ action.name = "deposit"
           /\ depositAction(asset, action.amount, user, action.onBehalfOf)
        \/ /\ action.name = "withdraw"
           /\ withdrawAction(asset, action.amount, user)
        \/ /\ action.name = "borrow"
           /\ borrowAction(asset, action.amount, action.mode, user, action.onBehalfOf,
                           action.timeTravel)
        \/ /\ action.name = "repay"
           /\ repayAction(asset, action.amount, action.mode, user, action.onBehalfOf)
        \/ /\ action.name = "setUseAsCollateral"
           /\ setUseAsCollateralAction(asset, user, action.useAsCollateral)
        \/ /\ action.name = "swapBorrowRateMode"
           /\ swapBorrowRateModeAction(asset, user, action.mode)
        \/ /\ action.name = "rebalanceStableBorrowRate"
           /\ rebalanceStableBorrowRateAction(asset, action.target)
        \/ /\ action.name = "delegateBorrowAllowance"
           /\ delegateBorrowAllowanceAction(asset, action.amount, action.mode, user,
                                            action.toUser)

\* Time goes by before the next block.
nextBlockLater ==
    /\ now < block + Latency
    /\ Tick
    /\ UNCHANGED <<block, told, mismatch>>

\* evm_increaseTime and evm_mine, after a loan.
advanceTimeAndBlock ==
    /\ now < block
    /\ Tick
    /\ UNCHANGED <<block, told, mismatch>>

ScenarioInit == Init /\ block = now /\ told = 0 /\ mismatch = {}

\* What the stories of the repository keep to, and the reference relies on:
\* no deposit by a debtor of the asset; one variable borrower of an asset at a
\* time, and one stable borrower when a loan is rebalanced; repayments of the
\* whole debt or of a part that leaves more than it takes, and at the variable
\* rate only without stable debt. A deposit into a reserve with debt, a swap to
\* the stable rate next to stable debt and a change of the collateral, whose
\* reference uses what was read before the transaction, follow that block at once.
covered(action) ==
    LET m == reserves[action.reserve]
        onlyDebtor(debts, user) == \A u \in Users \ {user} : debts[u] = 0
    IN  CASE action.name = "deposit" ->
               /\ m.s[action.onBehalfOf] = 0
               /\ m.v[action.onBehalfOf] = 0
               /\ \/ now = block
                  \/ {m.sSupply, m.vSupply} = {0}
          [] action.name = "borrow" ->
               action.mode = "variable" => onlyDebtor(m.v, action.onBehalfOf)
          [] action.name = "repay" ->
               /\ action.mode = "variable" => m.s[action.onBehalfOf] = 0
               /\ \/ action.amount = MaxUint
                  \/ 2 * action.amount <= IF action.mode = "stable"
                                          THEN m.s[action.onBehalfOf]
                                          ELSE vBalanceOf(m, action.onBehalfOf, now)
          [] action.name = "swapBorrowRateMode" ->
               action.mode = "variable" => now = block \/ m.sSupply = 0
          [] action.name = "rebalanceStableBorrowRate" -> onlyDebtor(m.s, action.target)
          [] action.name = "setUseAsCollateral" -> now = block
          [] OTHER -> TRUE

\* A comparison that fails ends the story.
ScenarioNext ==
    /\ mismatch = {}
    /\ \/ advanceTimeAndBlock
       \/ nextBlockLater
       \/ /\ block <= now
          /\ told < MaxActions
          /\ told' = told + 1
          /\ \E action \in Actions : covered(action) /\ executeAction(action)

ScenarioSpec == ScenarioInit /\ [][ScenarioNext]_scenarioVars

-----------------------------------------------------------------------------

(* Whatever the story, the reserve and the user are read as the reference  *)
(* calculations expect them: indexes, rates, debts and balances of the     *)
(* contracts after an action are those derived from the data before it.    *)
AsExpected == mismatch = {}
=============================================================================
